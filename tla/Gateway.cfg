SPECIFICATION GatewaySpec
CONSTANTS
  Handlers = {h1, h2}
  TTL = 2
  Timeout = 2
  Backoff = 3
PROPERTIES  GateFollowsService
