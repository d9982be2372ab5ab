------------------------------- MODULE MCRelay -------------------------------
EXTENDS Relay

CONSTANTS a, b

Msg(owner, verb, kill, ids) ==
  [owner |-> owner, verb |-> verb, kill |-> kill, ids |-> ids]

\* "yes a b", "yes a freeze", "no b", "freeze", "unfreeze", and a stranger's "yes a".
Replies == {Msg(TRUE, "yes", FALSE, <<a, b>>), Msg(TRUE, "yes", TRUE, <<a>>),
            Msg(TRUE, "no", FALSE, <<b>>),
            Msg(TRUE, "freeze", FALSE, <<>>), Msg(TRUE, "unfreeze", FALSE, <<>>),
            Msg(FALSE, "yes", FALSE, <<a>>)}
=============================================================================
