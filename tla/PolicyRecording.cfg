SPECIFICATION Spec
CONSTANTS
  Entities <- MCEntities
  DomainOf <- MCDomainOf
  DeviceOf <- MCDeviceOf
  AreaOf <- MCAreaOf
  LabelsOf <- MCLabelsOf
  DeviceArea <- MCDeviceArea
  DeviceLabels <- MCDeviceLabels
  FloorOf <- MCFloorOf
  Commands <- MCCommands
  Capabilities <- MCCapabilities
  CapabilityPatterns <- MCCapabilityPatterns
  WithheldUnlessGranted = {"notifications"}
  BaselineDeny <- MCBaselineDeny
  Apps <- MCApps
  Dashboards = {"family"}
  Attributes = {"latitude"}
  Choices = {"home", "away"}
  Zones = {"home"}
  WeekDays = 3
  DayMinutes = 4
  Custom = {"kids"}
  SectionValues <- MCSectionValues
  NoteValues <- MCNoteValues
  DashboardValues <- MCDashboardValues
  MaxEdits = 4
  Whole = Whole
  None = None
PROPERTY
  RecordingOnlyWidens
CHECK_DEADLOCK FALSE
