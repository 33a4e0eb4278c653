-------------------------- MODULE MCTelegramPoller --------------------------
EXTENDS TelegramPoller, TLC

\* Two updates for the first bot, one for the second.
BotOfEach == (1 :> 1) @@ (2 :> 1) @@ (3 :> 2)
=============================================================================
