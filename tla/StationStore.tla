---------------------------- MODULE StationStore ----------------------------
(***************************************************************************)
(* What the store of stations promises: at most one entry per name, and    *)
(* each change concerns one station or all.  A station is stored anew      *)
(* (Put), dropped, or marked with how connecting to it went; everything is *)
(* forgotten; losing power changes nothing.  The first three say which     *)
(* stations their writer believes known.                                   *)
(***************************************************************************)
VARIABLE known     \* a set of records [ssid, password, state]

Names == {e.ssid : e \in known}
Others(believed, s) == {e \in believed : e.ssid # s}

StoreInit == known = {}

Put(believed, s) ==
  \E e \in known' : e.ssid = s /\ e.state = "new" /\ known' = Others(believed, s) \cup {e}
Drop(believed, s) == known' = Others(believed, s)
Mark(believed, s) ==
  \E e \in believed : \E f \in known' :
    /\ e.ssid = s /\ f = [e EXCEPT !.state = f.state]
    /\ known' = Others(believed, s) \cup {f}
Forget == known' = {}

\* Without a writer that believes what is no longer so:
StoreNext ==
  \/ \E e \in known' : Put(known, e.ssid)
  \/ \E s \in Names : Drop(known, s) \/ Mark(known, s)
  \/ Forget

StoreSpec == StoreInit /\ [][StoreNext]_known
=============================================================================
