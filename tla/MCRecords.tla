------------------------------- MODULE MCRecords -------------------------------
(***************************************************************************)
(* Callback requests, photo lists, the way from a browser to a route and   *)
(* the requests other services answer share no state and no code, so one   *)
(* run checks them all: MCInit chooses the one that lives, the others are  *)
(* absent or keep their initial state.                                     *)
(***************************************************************************)
EXTENDS CallbackRequests, FiniteSets, TLC

CONSTANTS Images, Crowd, Copies, NoPhoto, KeepList, MaxFiles, UserTenant, KeyTenant, Nobody,
          Tenants, Accounts, NoTarget, PageSize, Disturbances

VARIABLES which,
          owner, serial, photos, links, lpend, fresh, broken, lpc, job, waiting, found,
          caller, call, step, permission, reply,
          tenantOf, accounts, connected, changes, request, stage, offset, answer, done, absent

listVars == <<owner, serial, photos, links, lpend, fresh, broken, lpc, job, waiting, found>>

webVars == <<caller, call, step, permission, reply>>

peerVars == <<tenantOf, accounts, connected, changes, request, stage, offset, answer, done, absent>>

List == INSTANCE PhotoAttach WITH Photos <- Images, pc <- lpc, pend <- lpend

Web == INSTANCE Gateway WITH stage <- step, answer <- reply

Peer == INSTANCE Proxies WITH MaxChanges <- Disturbances

\* A page holds something.
ASSUME PageConstants == PageSize \in Nat \ {0} /\ IsFiniteSet(Accounts)

InitWeb ==
    IF which = "web" THEN Web!Init
    ELSE caller = Nobody /\ call = Nobody /\ step = Nobody /\ permission = Nobody /\ reply = Nobody

InitPeer ==
    IF which = "peer" THEN Peer!Init
    ELSE /\ tenantOf = Nobody /\ accounts = Nobody /\ connected = Nobody /\ changes = Nobody
         /\ request = Nobody /\ stage = Nobody /\ offset = Nobody /\ answer = Nobody
         /\ done = Nobody /\ absent = Nobody

MCInit ==
    /\ which \in {"callback", "list", "web", "peer"}
    /\ Init
    /\ List!Init
    /\ which # "list" => owner = "horse" /\ serial
    /\ InitWeb
    /\ InitPeer

\* A request that was answered is at its end.
Answered ==
    \/ which = "web" /\ step = "done"
    \/ which = "peer" /\ stage = "answered"

MCNext ==
    \/ which = "callback" /\ Next /\ UNCHANGED <<which, listVars, webVars, peerVars>>
    \/ which = "list" /\ List!Next /\ UNCHANGED <<which, vars, webVars, peerVars>>
    \/ which = "web" /\ Web!Next /\ UNCHANGED <<which, vars, listVars, peerVars>>
    \/ which = "peer" /\ Peer!Next /\ UNCHANGED <<which, vars, listVars, webVars>>
    \/ Answered /\ UNCHANGED <<which, vars, listVars, webVars, peerVars>>

MCSpec == MCInit /\ [][MCNext]_<<which, vars, listVars, webVars, peerVars>>

\* Requests are interchangeable, and so are the photos of the crowd and the others.
Symmetry ==
    Permutations(Sessions) \cup Permutations(Crowd) \cup Permutations(Images \ Crowd)

(***************************************************************************)
(* Properties of the instances; those of CallbackRequests keep their names *)
(***************************************************************************)

\* A request that is not overtaken makes of the list what it was asked for, and
\* leaves one main photo at most.
SerialListAsAsked == List!SerialListAsAsked

\* What a request has linked is there when it commits, whatever overlaps it.
CommittedLands == List!CommittedLands

\* A route with a name goes before one with a parameter in its place.
NamesBeforeWords == which = "web" => Web!NamesBeforeWords

\* A page can make the calls it may make.
BrowserMayCall == which = "web" => Web!BrowserMayCall

\* The routes ask for what the inventory says.
AsInventoried == which = "web" => Web!AsInventoried

\* The status of a proxied request is true of the peer.
AnswerMatchesPeer == which = "peer" => Peer!AnswerMatchesPeer
================================================================================
