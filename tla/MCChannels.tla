----------------------------- MODULE MCChannels -----------------------------
(***************************************************************************)
(* TLC instances of Channels.                                              *)
(***************************************************************************)
EXTENDS Channels, TLC

\* A message that starts a run, and what follows it.
RunWith(kind, chunks) == [kind |-> kind, of |-> None, chunks |-> chunks]
Then(kind, of)        == [kind |-> kind, of |-> of, chunks |-> 1]

Remembering == 1 :> RunWith("run", 1) @@ 2 :> Then("remember", None)
Deciding    == 1 :> RunWith("gated run", 1) @@ 2 :> Then("decide", 1)
Intruding   == 1 :> RunWith("run", 2) @@ 2 :> Then("denied", None)

AllConversations == {Remembering, Deciding, Intruding}
OnlyRemembering  == {Remembering}
=============================================================================
