SPECIFICATION Spec
CONSTANTS
  t1 = t1 t2 = t2 t3 = t3
  Tasks <- MCTasks2
  BootFirewall = BootFirewall
  BootVpn = BootVpn
  Configs <- MCConfigs
  NoConf = NoConf
  NoRule = NoRule
  Overlap = FALSE
  MaxRestarts = 0
SYMMETRY Symmetry2
CHECK_DEADLOCK FALSE
INVARIANT KillSwitchOnDrop
