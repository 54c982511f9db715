---------------------------- MODULE Credentials ----------------------------
(***************************************************************************)
(* What the credential store promises (spec 4.6): it holds an access token *)
(* and its expiry in memory and a copy on disk; when the token is within   *)
(* Margin seconds of its expiry the store asks the token endpoint for a    *)
(* new one and installs it, then saves it; requests go out with the token  *)
(* in memory; a mount loads the saved copy.                                *)
(*                                                                         *)
(* Fresh(k) is the set of strings the endpoint may return as the k-th      *)
(* access token it issues.  Every step is atomic here; Auth splits them.   *)
(***************************************************************************)
EXTENDS Integers, Sequences

CONSTANTS Lifetime, Margin, MaxTime, Fresh(_)

VARIABLES
    now,     \* the clock
    up,      \* the filesystem is mounted
    token,   \* access token in memory
    expiry,  \* its expiry in memory
    saved,   \* the record on disk
    issued,  \* tokens the endpoint issued, in order, with their expiry
    sent     \* access tokens requests went out with

vars == <<now, up, token, expiry, saved, issued, sent>>

Near(e) == e - now <= Margin \/ now >= e

Init ==
    /\ now = 0
    /\ up = FALSE
    /\ token = <<>>
    /\ expiry = 0
    /\ \E s \in Fresh(1) :
          /\ issued = << [str |-> s, exp |-> Lifetime] >>
          /\ saved = [tok |-> s, exp |-> Lifetime]
    /\ sent = {}

Tick ==
    /\ now < MaxTime
    /\ now' = now + 1
    /\ UNCHANGED <<up, token, expiry, saved, issued, sent>>

(* Loading the saved record; the mount completes unless it must renew.     *)
Mount ==
    /\ ~up
    /\ token' = saved.tok
    /\ expiry' = saved.exp
    /\ up' = ~Near(saved.exp)
    /\ UNCHANGED <<now, saved, issued, sent>>

(* The endpoint answers a renewal, asked for only near expiry.             *)
Issue ==
    /\ Near(expiry)
    /\ \E s \in Fresh(Len(issued) + 1) :
          issued' = Append(issued, [str |-> s, exp |-> now + Lifetime])
    /\ UNCHANGED <<now, up, token, expiry, saved, sent>>

(* The newest token becomes the one in memory.                             *)
Install ==
    /\ token' = issued[Len(issued)].str
    /\ expiry' = issued[Len(issued)].exp
    /\ UNCHANGED <<now, up, saved, issued, sent>>

(* The token in memory is written to disk; a mount that renewed completes. *)
Save ==
    /\ saved' = [tok |-> token, exp |-> expiry]
    /\ up' = TRUE
    /\ UNCHANGED <<now, token, expiry, issued, sent>>

Send ==
    /\ up
    /\ sent' = sent \cup {token}
    /\ UNCHANGED <<now, up, token, expiry, saved, issued>>

(* The process exits: memory is lost, the disk record stays.               *)
Crash ==
    /\ up' = FALSE
    /\ token' = <<>>
    /\ expiry' = 0
    /\ UNCHANGED <<now, saved, issued, sent>>

Next == Tick \/ Mount \/ Issue \/ Install \/ Save \/ Send \/ Crash

Spec == Init /\ [][Next]_vars
====
