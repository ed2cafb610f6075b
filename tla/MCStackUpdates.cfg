SPECIFICATION Spec
CONSTANTS
  Unset = Unset
  p1 = p1
  p2 = p2
  home = home
  zone = zone
  Clis = {p1, p2}
  Idles = {0, 3, 30}
  Mins = {0, 1, 2}
  CidrLists <- MCCidrLists
  Ips = {home}
  AzLists = {zone}
  Mails = {}
SYMMETRY Alike
INVARIANTS
  TypeOK
  PolicyInForce
  SynthAccepts
PROPERTIES
  SettingsKept
  NoGpuByDeploy
