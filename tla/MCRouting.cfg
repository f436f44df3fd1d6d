\* Three bricks in a chain, two calls; when the kernel has stopped and the calls
\* are over nothing is left to do, hence no check for deadlock.
SPECIFICATION RoutingSpec
CONSTANTS
    Bricks <- MCBricks
    Order <- MCOrder
    Host = Host
    NoBrick = NoBrick
    Caps <- MCCaps
    Contract <- MCContract
    Requires <- MCRequires
    Grant <- MCGrant
    Deny <- MCDeny
    Modes <- MCModes
    Rebindable <- MCRebindable
    HostCalls <- MCHostCalls
    Calls <- MCCalls
INVARIANTS HeldIsAllowed 
  
CHECK_DEADLOCK FALSE
