SPECIFICATION GSpec
SYMMETRY Symmetry
CONSTANTS
  Entities <- MCEntities
  DomainOf <- MCDomainOf
  DeviceOf <- MCDeviceOf
  AreaOf <- MCAreaOf
  LabelsOf <- MCLabelsOf
  DeviceArea <- MCDeviceArea
  DeviceLabels <- MCDeviceLabels
  FloorOf <- MCFloorOf
  Commands <- MCCommands
  Capabilities = {"dashboards"}
  CapabilityPatterns <- MCCapabilityPatterns
  WithheldUnlessGranted = {}
  BaselineDeny = {}
  Apps <- MCApps
  Dashboards = {"family"}
  Attributes = {"latitude"}
  Choices = {"me", "you"}
  Zones = {"home"}
  WeekDays = 1
  DayMinutes = 1
  Custom = {kids, guests}
  SectionValues <- MCSectionValues
  NoteValues = {}
  DashboardValues = {{"lock"}}
  MaxEdits = 2
  Whole = Whole
  None = None
  Unknown = "unknown"
  Probe <- MCProbe
  Requests <- MCRequests
  Guard <- MCGuard
  Late = {"zone/update"}
  Writes = {"lovelace/config/save", "zone/update", "POST /api/services"}
  Files = {"GET /local"}
  AppOf <- MCAppOf
  AddOns = {"terminal"}
  ConfigPanel = "config"
  Spelling <- MCSpelling
  AdminServices = {"homeassistant.restart"}
  LogServices = {"system_log.write"}
  Behind <- MCBehind
  AreaLabels <- MCAreaLabels
  All = All
  Template = Template
  Memberships <- MCMemberships
  Answers <- MCAnswers
  Bodies <- MCBodies
  Denials <- MCDenials
  kids = kids
  guests = guests
INVARIANTS
  OnlyPermittedActs
  OnlyPermittedShown
  RolesOnlyAdd
  RecordingLetsThrough
CHECK_DEADLOCK FALSE
