--------------------------- MODULE MCAgentRuntime ---------------------------
(***************************************************************************)
(* TLC instances of AgentRuntime: tools of every kind that matters.        *)
(***************************************************************************)
EXTENDS AgentRuntime

\* A reply calls a tool with a reconcilable effect, an opaque one, or both a
\* read-only tool and the opaque one, or answers.
AllTools   == <<"read_only", "reconcilable", "opaque_side_effect">>
AllReplies == {{}, {2}, {1, 3}}

Idempotent   == <<"idempotent">>
OneTool      == {{}, {1}}
=============================================================================
