------------------------------ MODULE OtpToken ------------------------------
(***************************************************************************)
(* What a challenge promises to whoever sends one request about it at a    *)
(* time: it is sent, guessed at a limited number of times per sending, and *)
(* used up once, by the right code in time or by too many wrong ones.      *)
(***************************************************************************)
EXTENDS Naturals

CONSTANTS Ids, MaxAttempts, MaxResends

VARIABLES
  state,     \* state[c]: "none", "open", "lapsed", "accepted" or "burned"
  misses,    \* wrong codes since the last sending
  sends      \* resendings so far

Put(c, s, m, n) ==
  /\ state' = [state EXCEPT ![c] = s]
  /\ misses' = [misses EXCEPT ![c] = m]
  /\ sends' = [sends EXCEPT ![c] = n]

Send(c)   == state[c] = "none" /\ Put(c, "open", 0, 0)
Lapse(c)  == state[c] = "open" /\ Put(c, "lapsed", misses[c], sends[c])
Accept(c) == state[c] = "open" /\ Put(c, "accepted", misses[c], sends[c])

\* The challenge may also lapse while the wrong code is looked at.
Miss(c) ==
  /\ state[c] = "open"
  /\ misses[c] + 1 < MaxAttempts
  /\ \E s \in {"open", "lapsed"} : Put(c, s, misses[c] + 1, sends[c])
Burn(c) ==
  /\ state[c] = "open"
  /\ misses[c] + 1 = MaxAttempts
  /\ Put(c, "burned", MaxAttempts, sends[c])
Resend(c) ==
  /\ state[c] \in {"open", "lapsed"}
  /\ sends[c] < MaxResends
  /\ Put(c, "open", 0, sends[c] + 1)

Init ==
  /\ state = [c \in Ids |-> "none"]
  /\ misses = [c \in Ids |-> 0]
  /\ sends = [c \in Ids |-> 0]

Next == \E c \in Ids : Send(c) \/ Lapse(c) \/ Accept(c) \/ Miss(c) \/ Burn(c) \/ Resend(c)

Spec == Init /\ [][Next]_<<state, misses, sends>>

=============================================================================
