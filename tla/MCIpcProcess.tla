---------------------------- MODULE MCIpcProcess ----------------------------
(* One client asks with two callers, for an id that is offered and for one  *)
(* nobody offers; one client may connect again, at a freed address or not.  *)
EXTENDS IpcProcess

CONSTANTS asker, offerer, audio, video, get, set

MCOffers == (asker :> {}) @@ (offerer :> {set})
MCAsks   == (audio :> {get}) @@ (video :> {set})
MCHome   == [t \in {audio, video} |-> asker]
=============================================================================
