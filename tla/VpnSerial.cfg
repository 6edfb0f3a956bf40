SPECIFICATION Spec
CONSTANTS
  t1 = t1 t2 = t2 t3 = t3
  Tasks <- MCTasks3
  BootFirewall = BootFirewall
  BootVpn = BootVpn
  Configs <- MCConfigs
  NoConf = NoConf
  NoRule = NoRule
  Overlap = FALSE
  MaxRestarts = 1
SYMMETRY Symmetry3
CHECK_DEADLOCK FALSE
INVARIANTS TypeOK NoneRestoresRouting KillSwitchOnlyForTravel TunnelIsWanted KillSwitchUntilHandshake ErrorShown
