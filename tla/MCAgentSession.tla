----------------------------- MODULE MCAgentSession -----------------------------
\* Two agents, two boots each: a process, and an earlier one whose late
\* registration, unnoticed loss or unfinished roll of the epoch it meets.
EXTENDS AgentSession
================================================================================
