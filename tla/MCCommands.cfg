SPECIFICATION Spec
CONSTANTS
  Keys <- MCKeys
  KeyAliases <- MCKeyAliases
  Zones <- MCZones
  ZoneAliases <- MCZoneAliases
  Digits <- MCDigits
  Lists <- MCLists
  MoreNames = 2
INVARIANTS
  TypeOK
  ConfirmedOnly
  AddressedAsAsked
  FramesFit
  AcceptedIsSendable
  ReportAgrees
  OnlyDocumentedTargets
  DocumentedLinesRun
