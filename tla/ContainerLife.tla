----------------------------- MODULE ContainerLife -----------------------------
(***************************************************************************)
(* What the host relies on when it asks the guest about a service: the     *)
(* container of a service is made at most once, it is stopped and started   *)
(* as often as one likes, and once it is removed it never comes back.       *)
(* The guest daemon, with all its calls in flight, implements this          *)
(* (GuestServices).                                                        *)
(***************************************************************************)
CONSTANT Svc

VARIABLE life   \* the container of each service

States == {"never", "up", "down", "removed"}

Init == life = [s \in Svc |-> "never"]

Become(s, from, to) == life[s] \in from /\ life' = [life EXCEPT ![s] = to]

Make(s) == Become(s, {"never"}, "up")

Stop(s) == Become(s, {"up"}, "down")

Start(s) == Become(s, {"down"}, "up")

Remove(s) == Become(s, {"up", "down"}, "removed")

Next == \E s \in Svc : Make(s) \/ Stop(s) \/ Start(s) \/ Remove(s)

Spec == Init /\ [][Next]_life

=============================================================================
