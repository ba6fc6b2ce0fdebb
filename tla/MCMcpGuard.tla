----------------------------- MODULE MCMcpGuard -----------------------------
\* Concurrent guarded calls on a small instance; they stay distinguishable, for
\* the liveness property.
EXTENDS McpGuard
=============================================================================
