----------------------------- MODULE BanPolicy -----------------------------
(***************************************************************************)
(* What the custom ban commands promise: at most one ban per IP address,   *)
(* a ban that stays until it is lifted, and no player who enters from an   *)
(* address whose ban is in force.  Players may leave at any time, dropped  *)
(* by a ban or not; nothing is said of players who are already inside.     *)
(***************************************************************************)
EXTENDS Integers

CONSTANTS Addresses,  \* what can be banned
          Nobody,     \* a place no player holds
          Places,     \* client numbers
          Durations   \* seconds, or Forever

VARIABLES clock, bans, players

pvars == <<clock, bans, players>>

Forever == -1

InForce(b, t) == b.duration = Forever \/ b.duration - (t - b.date) > 0

Init == /\ clock \in Nat
        /\ bans = {}
        /\ players = [n \in Places |-> Nobody]

Leaving == \E gone \in SUBSET Places :
              players' = [n \in Places |-> IF n \in gone THEN Nobody ELSE players[n]]

Ban == /\ \E ip \in Addresses, d \in Durations :
            /\ \A b \in bans : b.ip # ip
            /\ bans' = bans \cup {[ip |-> ip, duration |-> d, date |-> clock]}
       /\ Leaving
       /\ UNCHANGED clock

Lift == /\ \E ip \in Addresses : bans' = {b \in bans : b.ip # ip}
        /\ UNCHANGED <<clock, players>>

Enter == /\ \E n \in Places, ip \in Addresses :
              /\ players[n] = Nobody
              /\ \A b \in bans : b.ip = ip => ~InForce(b, clock)
              /\ players' = [players EXCEPT ![n] = ip]
         /\ UNCHANGED <<clock, bans>>

Leave == Leaving /\ UNCHANGED <<clock, bans>>

Pass == clock' = clock + 1 /\ UNCHANGED <<bans, players>>

Next == Ban \/ Lift \/ Enter \/ Leave \/ Pass

Spec == Init /\ [][Next]_pvars
=============================================================================
