CONSTANTS
  Scripts = {"usbCam", "micLauncher", "localContainers", "dataTardis", "dyadic"}
  MaxStarts = 2
  MaxEvents = 2
SPECIFICATION FairSpec
INVARIANTS
  TypeOK
PROPERTIES
  Recovers
  LivesOn
