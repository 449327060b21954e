CONSTANTS
  Platforms = {"macos", "windows"}
  MaxVersions = 3
  MaxClicks = 1
SPECIFICATION MenuSpec
PROPERTIES MenuIsTrue
CHECK_DEADLOCK FALSE
