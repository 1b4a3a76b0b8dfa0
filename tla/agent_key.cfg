SPECIFICATION DispatchSpec
INVARIANT KnownAgentServed
