CONSTANTS
  UserName = {"ann", "bob"}
  Password = {"key", "ldap"}
  Plugin <- MCPlugin
  Accounts <- MCAccounts
  Key = {"A", "V"}
  Value = {"v", "w"}
  MaxToken = 1
  Lists <- MCLists
  MaxRequests = 3
  MaxFaults = 1
SPECIFICATION Spec
INVARIANTS AdminInvariant
PROPERTIES   SettingsSurvive
CHECK_DEADLOCK FALSE
