\* A key in config.json and one in the environment.
SPECIFICATION StartSpec
CONSTANTS
  Remote = {"openai", "anthropic"}
  FirstProvider = "openai"
  MaxFallbacks = 4
  ConfigFiles <- MCConfigFiles
INVARIANT EnvironmentPrecedes
CHECK_DEADLOCK FALSE
