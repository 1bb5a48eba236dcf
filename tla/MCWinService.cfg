\* Two installers, a composite device and its interface.
CONSTANTS
  d1 = d1
  d2 = d2
  Installer = {i1, i2}
  Service = srv
  Device = {d1, d2}
  NoDevice = NoDevice
  Changing = {d1}
  Proc <- MCProc
  Hardware <- MCHardware
  Preset <- MCPreset
SPECIFICATION Spec
INVARIANTS
  TypeOK
  QuietWhenStopped
  CleanAfterUninstall
PROPERTY
  ListsIntact
  StopHeeded
