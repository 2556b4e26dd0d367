--------------------------- MODULE PlaybackGrants ---------------------------
(***************************************************************************)
(* Viewer access to live sessions (LivePlaybackGrantStore and the routes   *)
(* that call it).  The owner of a session issues a short-lived exchange    *)
(* token; a viewer exchanges it, once, for a grant.  A grant is kept in    *)
(* the session's access.json and found through one index shared by all     *)
(* sessions.  Access ends by revoking the grant, by incrementing the       *)
(* session's epoch, by stopping the session, or at its expiry.             *)
(*                                                                         *)
(* Each handler is synchronous and writes several files: one action is one *)
(* write, pc names the next one, and the process may die in between.  Two  *)
(* operations give up the processor half way: a stop, which waits for its  *)
(* worker after it has revoked, and a playlist request, which waits for    *)
(* the next segment.                                                       *)
(*                                                                         *)
(* Abstractions: accessRevision and tokenEpoch only ever move together and *)
(* are one epoch; a token's jti and nonce are its identity; the wall clock *)
(* counts coarse units and may be set back by at most Skew.                *)
(***************************************************************************)
EXTENDS Naturals, FiniteSets

CONSTANTS
  Sessions, Tokens, Grants,
  Requests,   \* playlist requests under way
  Lifetime,   \* how long an exchange token is valid
  Leeway,     \* how long after its expiry a used token is remembered
  Skew,       \* how far the wall clock may ever be set back
  MaxTime,    \* bound: the latest time considered
  MaxEpoch,   \* bound: revocations of a session considered
  Absent, Nobody

ASSUME ClockAssumption ==
  /\ Lifetime \in Nat \ {0} /\ Leeway \in Nat /\ Skew \in 0 .. Leeway + 1
  /\ MaxTime \in Nat /\ MaxEpoch \in Nat

VARIABLES
  session,    \* session.json: status and epoch, by session
  token,      \* the tokens issued
  consumed,   \* consumedJtis of the access.json files
  grant,      \* grants of the access.json files, by grant
  index,      \* the global index: the grants it points to
  clock,      \* Date.now()
  latest,     \* the latest value clock has had
  pc,         \* the next write of the running handler
  waiting,    \* the grant of each waiting playlist request
  stopping,   \* stops that wait for their worker
  delivered,  \* grants whose exchange was answered (history)
  barred,     \* tokens whose revocation was answered (history)
  served      \* the grant served in the last step, or Nobody

files   == <<session, token, consumed, grant, index>>
time    == <<clock, latest>>
history == <<delivered, barred>>
vars    == <<session, token, consumed, grant, index, clock, latest, pc,
             waiting, stopping, delivered, barred, served>>

(***************************************************************************)
(* Values                                                                  *)
(***************************************************************************)

Status  == {"RUNNING", "STOPPING", "STOPPED", "CLEANUP_PENDING", "FAILED", "PURGED"}
Open    == {"RUNNING", "STOPPED"}
Session == [status : Status, epoch : Nat]
Token   == [session : Sessions, epoch : Nat, exp : Nat]
Grant   == [session : Sessions, token : Tokens, epoch : Nat, exp : Nat,
            revoked : BOOLEAN]

ASSUME SentinelAssumption ==
  Absent \notin Token \cup Grant \cup Grants /\ Nobody \notin Grants

Idle == [step |-> "idle"]
Pc   == {Idle}
        \cup [step : {"exchange.index", "exchange.event",
                      "revoke.index", "revoke.event"}, grant : Grants]
        \cup [step : {"all.access", "all.index", "all.event"},
              session : Sessions, stop : BOOLEAN]

TypeOK ==
  /\ session \in [Sessions -> Session]
  /\ token \in [Tokens -> Token \cup {Absent}]
  /\ consumed \subseteq Tokens
  /\ grant \in [Grants -> Grant \cup {Absent}]
  /\ index \subseteq Grants
  /\ clock \in Nat /\ latest \in Nat
  /\ pc \in Pc
  /\ waiting \in [Requests -> Grants \cup {Absent}]
  /\ stopping \subseteq Sessions
  /\ delivered \subseteq Grants
  /\ barred \subseteq Tokens
  /\ served \in Grants \cup {Nobody}

Issued(s)   == {t \in Tokens : token[t] # Absent /\ token[t].session = s}
GrantsOf(s) == {g \in Grants : grant[g] # Absent /\ grant[g].session = s}

\* authorize: the index leads to a grant that is alive in this epoch.
Authorized(g) ==
  /\ g \in index /\ grant[g] # Absent
  /\ session[grant[g].session].status \in Open
  /\ ~ grant[g].revoked
  /\ grant[g].exp > clock
  /\ grant[g].epoch = session[grant[g].session].epoch

\* verifyLivePlaybackTokenV1 (not before, not after) and the checks of
\* consumeExchangeAndCreateGrant on the session and the epoch.
Exchangeable(t) ==
  /\ token[t] # Absent
  /\ session[token[t].session].status \in Open
  /\ token[t].epoch = session[token[t].session].epoch
  /\ token[t].exp > clock
  /\ clock + Lifetime >= token[t].exp

\* Mutant: a used token is forgotten as soon as it does not verify any more.
PrunedAtExpiry(s) ==
  {t \in consumed : t \in Issued(s) => token[t].exp > clock}

\* prune: what access.json of s still remembers.
Pruned(s) ==
  {t \in consumed : t \in Issued(s) => token[t].exp + Leeway >= clock}

-----------------------------------------------------------------------------
Init ==
  /\ session = [s \in Sessions |-> [status |-> "RUNNING", epoch |-> 0]]
  /\ token = [t \in Tokens |-> Absent]
  /\ consumed = {}
  /\ grant = [g \in Grants |-> Absent]
  /\ index = {}
  /\ clock = 0 /\ latest = 0
  /\ pc = Idle
  /\ waiting = [q \in Requests |-> Absent]
  /\ stopping = {}
  /\ delivered = {} /\ barred = {}
  /\ served = Nobody

\* A handler's step that serves nobody and leaves the waiting ones alone.
Quietly == UNCHANGED <<clock, latest, waiting>> /\ served' = Nobody

(***************************************************************************)
(* Tokens and grants                                                       *)
(***************************************************************************)

IssueToken(t, s) ==
  /\ pc = Idle /\ token[t] = Absent
  /\ session[s].status \in Open
  /\ token' = [token EXCEPT ![t] = [session |-> s, epoch |-> session[s].epoch,
                                    exp |-> clock + Lifetime]]
  /\ Quietly
  /\ UNCHANGED <<session, consumed, grant, index, pc, stopping, history>>

\* The token is used up and the grant stored by one write of access.json.
ExchangeAccess(t, g) ==
  /\ pc = Idle /\ Exchangeable(t) /\ grant[g] = Absent
  /\ t \notin Pruned(token[t].session)
  /\ consumed' = Pruned(token[t].session) \cup {t}
  /\ grant' = [grant EXCEPT ![g] =
       [session |-> token[t].session, token |-> t, epoch |-> token[t].epoch,
        exp |-> token[t].exp, revoked |-> FALSE]]
  /\ pc' = [step |-> "exchange.index", grant |-> g]
  /\ Quietly
  /\ UNCHANGED <<session, token, index, stopping, history>>

ExchangeIndex ==
  /\ pc.step = "exchange.index"
  /\ index' = index \cup {pc.grant}
  /\ pc' = [pc EXCEPT !.step = "exchange.event"]
  /\ Quietly
  /\ UNCHANGED <<session, token, consumed, grant, stopping, history>>

\* The event is logged and the viewer gets the grant.
ExchangeAnswer ==
  /\ pc.step = "exchange.event"
  /\ delivered' = delivered \cup {pc.grant}
  /\ pc' = Idle
  /\ Quietly
  /\ UNCHANGED <<files, stopping, barred>>

(***************************************************************************)
(* Revoking one grant                                                      *)
(***************************************************************************)

RevokeGrantAccess(g) ==
  /\ pc = Idle /\ grant[g] # Absent
  /\ grant' = [grant EXCEPT ![g].revoked = TRUE]
  /\ pc' = [step |-> "revoke.index", grant |-> g]
  /\ Quietly
  /\ UNCHANGED <<session, token, consumed, index, stopping, history>>

RevokeGrantIndex ==
  /\ pc.step = "revoke.index"
  /\ index' = index \ {pc.grant}
  /\ pc' = [pc EXCEPT !.step = "revoke.event"]
  /\ Quietly
  /\ UNCHANGED <<session, token, consumed, grant, stopping, history>>

RevokeGrantAnswer ==
  /\ pc.step = "revoke.event"
  /\ barred' = barred \cup {grant[pc.grant].token}
  /\ pc' = Idle
  /\ Quietly
  /\ UNCHANGED <<files, stopping, delivered>>

(***************************************************************************)
(* Revoking a session, and the revocation every stop begins with           *)
(***************************************************************************)

\* Mutant: the epoch stays, only the grants given so far are revoked.
RevokeSessionGrants(s) ==
  /\ pc = Idle /\ session[s].status \in Open
  /\ pc' = [step |-> "all.access", session |-> s, stop |-> FALSE]
  /\ Quietly
  /\ UNCHANGED <<session, token, consumed, grant, index, stopping, history>>

RevokeSession(s) ==
  /\ pc = Idle /\ session[s].status \in Open /\ session[s].epoch < MaxEpoch
  /\ session' = [session EXCEPT ![s].epoch = @ + 1]
  /\ pc' = [step |-> "all.access", session |-> s, stop |-> FALSE]
  /\ Quietly
  /\ UNCHANGED <<token, consumed, grant, index, stopping, history>>

\* A first stop increments the epoch; the retry of one that died or failed
\* does not.
StopSession(s) ==
  /\ pc = Idle
  /\ \/ /\ session[s].status = "RUNNING" /\ session[s].epoch < MaxEpoch
        /\ session' = [session EXCEPT ![s].epoch = @ + 1,
                                      ![s].status = "STOPPING"]
     \/ /\ session[s].status \in {"STOPPING", "CLEANUP_PENDING"}
        /\ session' = [session EXCEPT ![s].status = "STOPPING"]
  /\ pc' = [step |-> "all.access", session |-> s, stop |-> TRUE]
  /\ Quietly
  /\ UNCHANGED <<token, consumed, grant, index, stopping, history>>

RevokeAllAccess ==
  /\ pc.step = "all.access"
  /\ grant' = [g \in Grants |->
       IF g \in GrantsOf(pc.session) THEN [grant[g] EXCEPT !.revoked = TRUE]
       ELSE grant[g]]
  /\ pc' = [pc EXCEPT !.step = "all.index"]
  /\ Quietly
  /\ UNCHANGED <<session, token, consumed, index, stopping, history>>

\* Mutant: the shared index is emptied.
RevokeAllEmptiesIndex ==
  /\ pc.step = "all.index"
  /\ index' = {}
  /\ pc' = [pc EXCEPT !.step = "all.event"]
  /\ Quietly
  /\ UNCHANGED <<session, token, consumed, grant, stopping, history>>

RevokeAllIndex ==
  /\ pc.step = "all.index"
  /\ index' = index \ GrantsOf(pc.session)
  /\ pc' = [pc EXCEPT !.step = "all.event"]
  /\ Quietly
  /\ UNCHANGED <<session, token, consumed, grant, stopping, history>>

\* A revocation is answered here; a stop goes on to wait for its worker.
RevokeAllAnswer ==
  /\ pc.step = "all.event"
  /\ IF pc.stop
     THEN stopping' = stopping \cup {pc.session} /\ UNCHANGED barred
     ELSE barred' = barred \cup Issued(pc.session) /\ UNCHANGED stopping
  /\ pc' = Idle
  /\ Quietly
  /\ UNCHANGED <<files, delivered>>

\* The rest of the stop, as far as access is concerned: it succeeds, or fails
\* and may be retried (a protected session gets there by way of FAILED).
StopAnswer(s) ==
  /\ pc = Idle /\ s \in stopping
  /\ stopping' = stopping \ {s}
  /\ \/ /\ session[s].status = "STOPPING"
        /\ session' = [session EXCEPT ![s].status = "STOPPED"]
        /\ barred' = barred \cup Issued(s)
     \/ /\ session[s].status = "STOPPING"
        /\ session' = [session EXCEPT ![s].status = "CLEANUP_PENDING"]
        /\ UNCHANGED barred
     \/ /\ session[s].status # "STOPPING"
        /\ UNCHANGED <<session, barred>>
  /\ Quietly
  /\ UNCHANGED <<token, consumed, grant, index, pc, delivered>>

\* An append failed closed, or the media of a stopped session are purged:
\* nobody watches, and there is no way back.
Close(s) ==
  /\ pc = Idle
  /\ \/ /\ session[s].status = "RUNNING"
        /\ session' = [session EXCEPT ![s].status = "FAILED"]
     \/ /\ session[s].status = "STOPPED"
        /\ session' = [session EXCEPT ![s].status = "PURGED"]
  /\ Quietly
  /\ UNCHANGED <<token, consumed, grant, index, pc, stopping, history>>

(***************************************************************************)
(* Watching                                                                *)
(***************************************************************************)

\* A request that is answered at once.
Fetch(g) ==
  /\ pc = Idle /\ g \in delivered /\ Authorized(g)
  /\ served' = g
  /\ UNCHANGED <<files, time, pc, waiting, stopping, history>>

\* A playlist request for a segment that is not there yet.
PlaylistWait(q, g) ==
  /\ pc = Idle /\ waiting[q] = Absent
  /\ g \in delivered /\ Authorized(g)
  /\ session[grant[g].session].status = "RUNNING"
  /\ waiting' = [waiting EXCEPT ![q] = g]
  /\ served' = Nobody
  /\ UNCHANGED <<files, time, pc, stopping, history>>

\* Mutant: the grant is not looked at again after the wait.
PlaylistAnswerUnchecked(q) ==
  /\ pc = Idle /\ waiting[q] # Absent
  /\ waiting' = [waiting EXCEPT ![q] = Absent]
  /\ served' = waiting[q]
  /\ UNCHANGED <<files, time, pc, stopping, history>>

PlaylistAnswer(q) ==
  /\ pc = Idle /\ waiting[q] # Absent
  /\ waiting' = [waiting EXCEPT ![q] = Absent]
  /\ served' = IF Authorized(waiting[q]) THEN waiting[q] ELSE Nobody
  /\ UNCHANGED <<files, time, pc, stopping, history>>

-----------------------------------------------------------------------------
(***************************************************************************)
(* The environment: the process dies, the wall clock moves                 *)
(***************************************************************************)

Crash ==
  /\ pc' = Idle
  /\ waiting' = [q \in Requests |-> Absent]
  /\ stopping' = {}
  /\ served' = Nobody
  /\ UNCHANGED <<files, time, history>>

ClockMoves ==
  /\ clock' \in 0 .. MaxTime /\ clock' + Skew >= latest
  /\ latest' = IF clock' > latest THEN clock' ELSE latest
  /\ served' = Nobody
  /\ UNCHANGED <<files, pc, waiting, stopping, history>>

Exchange == \/ \E t \in Tokens, s \in Sessions : IssueToken(t, s)
            \/ \E t \in Tokens, g \in Grants : ExchangeAccess(t, g)
            \/ ExchangeIndex \/ ExchangeAnswer

Revoke   == \/ \E g \in Grants : RevokeGrantAccess(g)
            \/ RevokeGrantIndex \/ RevokeGrantAnswer
            \/ \E s \in Sessions : RevokeSession(s) \/ StopSession(s)
            \/ RevokeAllAccess \/ RevokeAllIndex \/ RevokeAllAnswer
            \/ \E s \in Sessions : StopAnswer(s) \/ Close(s)

Play     == \/ \E g \in Grants : Fetch(g)
            \/ \E q \in Requests, g \in Grants : PlaylistWait(q, g)
            \/ \E q \in Requests : PlaylistAnswer(q)

Next == Exchange \/ Revoke \/ Play \/ Crash \/ ClockMoves
Spec == Init /\ [][Next]_vars

-----------------------------------------------------------------------------
(***************************************************************************)
(* Properties                                                              *)
(***************************************************************************)

(* A token buys one grant, however often it is presented, whatever dies    *)
(* between the writes of an exchange, and although the used token is       *)
(* forgotten a while after its expiry and the clock may be set back        *)
(* (consumeExchangeAndCreateGrant and prune).                              *)
SingleUse ==
  \A g, h \in Grants :
    grant[g] # Absent /\ grant[h] # Absent /\ grant[g].token = grant[h].token
      => g = h

(* Once a revocation (of a grant, of a session's epoch, by a stop) has been *)
(* answered, no grant bought with a token it covers is ever authorized     *)
(* again, also not one bought after the revocation with a token issued     *)
(* before it, and also not when the stopped session reopens for its        *)
(* recording (revokeGrant, revokeAllForSession, authorize).                *)
RevocationIsFinal ==
  \A g \in Grants : grant[g] # Absent /\ grant[g].token \in barred
                      => ~ Authorized(g)

(* A viewer that was given a grant can use it until it expires or is       *)
(* revoked: what is done to other grants, other sessions and the index     *)
(* they share does not lock it out.                                        *)
DeliveredWorks ==
  \A g \in delivered :
    LET s == session[grant[g].session]
    IN s.status \in Open /\ s.epoch = grant[g].epoch /\ grant[g].exp > clock
         /\ ~ grant[g].revoked => Authorized(g)

(***************************************************************************)
(* The inductive invariant                                                 *)
(***************************************************************************)

ClockSane == clock <= latest /\ latest <= clock + Skew

\* A grant repeats what its token says.
FitsToken ==
  \A g \in Grants : grant[g] # Absent =>
    LET t == token[grant[g].token]
    IN t # Absent /\ t.session = grant[g].session
         /\ t.epoch = grant[g].epoch /\ t.exp = grant[g].exp

\* A used token is remembered until it is long past its expiry.
UsedRemembered ==
  \A g \in Grants : grant[g] # Absent =>
    \/ grant[g].token \in consumed
    \/ grant[g].exp + Leeway < latest

\* While a session stops, or all its grants are being revoked, every token
\* is of an earlier epoch.
Closing(s) == \/ session[s].status \in {"STOPPING", "CLEANUP_PENDING"}
              \/ /\ pc.step \in {"all.access", "all.index", "all.event"}
                 /\ pc.session = s

EpochsPast ==
  \A t \in Tokens : token[t] # Absent =>
    /\ token[t].epoch <= session[token[t].session].epoch
    /\ Closing(token[t].session) =>
         token[t].epoch < session[token[t].session].epoch

\* A barred token is of an earlier epoch, or its grant is revoked.
BarredDead ==
  \A t \in barred :
    /\ token[t] # Absent
    /\ \/ token[t].epoch < session[token[t].session].epoch
       \/ \E g \in Grants : grant[g] # Absent /\ grant[g].token = t
                              /\ grant[g].revoked

\* How far the running handler has come.
HandlerSound ==
  /\ pc.step \in {"exchange.index", "exchange.event"} =>
       /\ grant[pc.grant] # Absent /\ pc.grant \notin delivered
       /\ grant[pc.grant].token \notin barred
  /\ pc.step = "exchange.event" =>
       pc.grant \in index \/ grant[pc.grant].revoked
  /\ pc.step \in {"revoke.index", "revoke.event"} =>
       grant[pc.grant] # Absent /\ grant[pc.grant].revoked
  /\ pc.step = "all.index" =>
       \A g \in GrantsOf(pc.session) : grant[g].revoked

Handed ==
  /\ \A g \in delivered : grant[g] # Absent /\ (g \in index \/ grant[g].revoked)
  /\ \A q \in Requests : waiting[q] # Absent => waiting[q] \in delivered

(* What every write keeps: the files, the shared index and the history of  *)
(* answers agree up to the write that is still to come                     *)
(* (livePlaybackGrantStore.ts as a whole).                                 *)
IInv == /\ TypeOK /\ ClockSane /\ FitsToken /\ UsedRemembered /\ EpochsPast
        /\ BarredDead /\ HandlerSound /\ Handed /\ SingleUse

(* Nothing is served on a grant whose revocation has been answered, also   *)
(* not by a playlist request that was waiting meanwhile, and a token lets  *)
(* one viewer in (the routes of liveLocalProduct.ts): PlaybackAccess.      *)
Access == INSTANCE PlaybackAccess WITH
  admitted <- {<<g, grant[g].token>> : g \in delivered}

ImplementsAccess == Access!Spec
=============================================================================
