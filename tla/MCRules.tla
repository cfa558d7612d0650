--------------------------------- MODULE MCRules ---------------------------------
(***************************************************************************)
(* Model checking of the parts that decide about one filing, one message   *)
(* or one answer at a time, and of wait_for_idle().  They share no state:  *)
(* a behaviour is one of one part, and the others stay as they are.        *)
(***************************************************************************)
EXTENDS Form4Reading, EightKReading, Channels, Issues, WaitForIdle

CONSTANTS u1, u2, u3, k1, k2, handled, unknown

MCUrls == {u1, u2, u3}
MCXmlUrls == {u1, u2}

\* One handled and one unknown task.
MCKeys == {k1, k2}
MCWork == {handled, unknown}
MCHandled == {handled}
MCCallSites ==
    {[key |-> k1, priority |-> 1, work |-> handled],
     [key |-> k2, priority |-> 3, work |-> unknown]}

VARIABLE part    \* the part this behaviour is about

rulesVars == <<part, form4Vars, eightKVars, channelVars, issueVars, waitForIdleVars>>

RulesInit ==
    /\ part \in {"form4", "8-K", "channel", "issues", "wait"}
    /\ IF part = "form4" THEN Form4Init ELSE Form4Idle
    /\ IF part = "8-K" THEN EightKInit ELSE EightKIdle
    /\ IF part = "channel" THEN ChannelInit ELSE ChannelIdle
    /\ IssuesInit
    /\ WaitInit

RulesNext ==
    /\ UNCHANGED part
    /\ \/ /\ part = "form4" /\ Form4Next
          /\ UNCHANGED <<eightKVars, channelVars, issueVars, waitForIdleVars>>
       \/ /\ part = "8-K" /\ EightKNext
          /\ UNCHANGED <<form4Vars, channelVars, issueVars, waitForIdleVars>>
       \/ /\ part = "channel" /\ ChannelNext
          /\ UNCHANGED <<form4Vars, eightKVars, issueVars, waitForIdleVars>>
       \/ /\ part = "issues" /\ IssuesNext
          /\ UNCHANGED <<form4Vars, eightKVars, channelVars, waitForIdleVars>>
       \/ /\ part = "wait" /\ WaitNext
          /\ UNCHANGED <<form4Vars, eightKVars, channelVars, issueVars>>

RulesSpec == RulesInit /\ [][RulesNext]_rulesVars
=============================================================================
