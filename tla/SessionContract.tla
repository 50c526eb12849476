--------------------------- MODULE SessionContract ---------------------------
(***************************************************************************)
(* What a listener may rely on about a session, whatever it serves: it is  *)
(* idle or busy until it closes, closing gives its admission permit back   *)
(* once and for good, it never becomes idle again once its listener is     *)
(* stopping, and then it closes.  Module Server builds on this.            *)
(***************************************************************************)

VARIABLES state,     \* "idle", "busy" or "closed"
          stopping,  \* the listener's flag
          released   \* the close handler has run: the permit is back

contractVars == << state, stopping, released >>

Init == state = "idle" /\ stopping = FALSE /\ released = FALSE

StopRequested == stopping' = TRUE /\ UNCHANGED << state, released >>

\* A request, or the end of the connection, begins to be worked on.
Work == state = "idle" /\ state' = "busy" /\ UNCHANGED << stopping, released >>

Keep == state = "busy" /\ ~stopping /\ state' = "idle" /\ UNCHANGED << stopping, released >>

Close == state # "closed" /\ state' = "closed" /\ released' = TRUE /\ UNCHANGED stopping

Next == StopRequested \/ Work \/ Keep \/ Close

Spec == Init /\ [][Next]_contractVars /\ WF_contractVars(stopping /\ Close)

=============================================================================
