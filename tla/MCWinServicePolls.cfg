\* One installer and one device.
CONSTANTS
  d1 = d1
  d2 = d2
  Installer = {i1}
  Service = srv
  Device = {d1}
  NoDevice = NoDevice
  Changing = {d1}
  Proc <- MCProc
  Hardware <- MCHardware
  Preset <- MCPreset
SPECIFICATION PollingSpec
PROPERTY PollsTimeOut
