SPECIFICATION FairSpec
CONSTANTS
  Boundaries <- MCBoundaries
  Layouts <- MCLayouts
  Ports <- MCPorts
  None = None
  MaxSent = 3
  MaxStarts = 3
  MaxFaults = 1
CHECK_DEADLOCK FALSE
INVARIANTS
  NobodyForgotten
  OneServerPerBoundary
  PortsAreFree
  FleetFollowsLayout
PROPERTIES
  LayoutsAreCarriedOut
  FleetSettles
