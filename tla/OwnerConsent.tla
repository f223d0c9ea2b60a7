----------------------------- MODULE OwnerConsent -----------------------------
(***************************************************************************)
(* What keystore mode promises the owner, without timers, passwords, pages *)
(* or calls: nothing is signed under a binding unless the owner was asked  *)
(* for exactly that binding and granted it, one grant is used by one call, *)
(* once, and a flow has one unused grant at a time.                        *)
(* ApprovalManager implements this specification.                          *)
(***************************************************************************)
CONSTANTS Bindings, FlowOf

VARIABLE consent   \* binding |-> where the owner's consent for it stands

\* Consent that nobody uses yet may lapse at any moment, several at a time.
Unused == {b \in Bindings : consent[b] \in {"asked", "granted"}}

Lapsed(S) == [b \in Bindings |-> IF b \in S THEN "none" ELSE consent[b]]

Init == consent = [b \in Bindings |-> "none"]

Lapse == \E S \in SUBSET Unused : consent' = Lapsed(S)

\* The owner is asked (again, if the earlier question lapsed at this moment).
Ask(b) ==
  /\ consent[b] # "inUse"
  /\ \E S \in SUBSET Unused : consent' = [Lapsed(S) EXCEPT ![b] = "asked"]

\* Granting a binding ends every other unused grant of its flow.
Grant(b) ==
  /\ consent[b] = "asked"
  /\ \E S \in SUBSET (Unused \ {b}) :
       /\ {d \in Bindings \ {b} : consent[d] = "granted" /\ FlowOf[d] = FlowOf[b]} \subseteq S
       /\ consent' = [Lapsed(S) EXCEPT ![b] = "granted"]

Use(b) ==
  /\ consent[b] = "granted"
  /\ \E S \in SUBSET (Unused \ {b}) : consent' = [Lapsed(S) EXCEPT ![b] = "inUse"]

\* Signed, or given back unsigned: either way the grant is gone.
Spend(b) ==
  /\ consent[b] = "inUse"
  /\ consent' = [consent EXCEPT ![b] = "none"]

Next == Lapse \/ \E b \in Bindings : Ask(b) \/ Grant(b) \/ Use(b) \/ Spend(b)

Spec == Init /\ [][Next]_consent
==============================================================================
