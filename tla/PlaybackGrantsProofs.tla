------------------------ MODULE PlaybackGrantsProofs ------------------------
(***************************************************************************)
(* What holds of PlaybackGrants for any number of sessions, tokens, grants *)
(* and requests, any lifetimes, and any clock that is set back by at most  *)
(* the time a used token is remembered.                                    *)
(*                                                                         *)
(* Part 1: IInv is inductive, one lemma per action.  Part 2: the safety    *)
(* properties.  Part 3: PlaybackGrants implements PlaybackAccess.          *)
(***************************************************************************)
EXTENDS PlaybackGrants, TLAPS

(* What is known of a grant that is there. *)
LEMMA GrantTyped ==
  ASSUME TypeOK, NEW g \in Grants, grant[g] # Absent
  PROVE  /\ grant[g] \in Grant
         /\ grant[g].session \in Sessions /\ grant[g].token \in Tokens
         /\ grant[g].epoch \in Nat /\ grant[g].exp \in Nat
         /\ grant[g].revoked \in BOOLEAN
  BY DEF TypeOK, Grant

(* What is known of a token that was issued. *)
LEMMA TokenTyped ==
  ASSUME TypeOK, NEW t \in Tokens, token[t] # Absent
  PROVE  /\ token[t] \in Token
         /\ token[t].session \in Sessions
         /\ token[t].epoch \in Nat /\ token[t].exp \in Nat
  BY DEF TypeOK, Token

(* What the running handler works on. *)
LEMMA HandlerTyped ==
  ASSUME TypeOK
  PROVE  /\ pc.step \in {"exchange.index", "exchange.event",
                         "revoke.index", "revoke.event"} => pc.grant \in Grants
         /\ pc.step \in {"all.access", "all.index", "all.event"} =>
              pc.session \in Sessions /\ pc.stop \in BOOLEAN
  BY DEF TypeOK, Pc, Idle

(* A session's status and epoch. *)
LEMMA SessionTyped ==
  ASSUME TypeOK, NEW s \in Sessions
  PROVE  /\ session[s] \in Session
         /\ session[s].status \in Status /\ session[s].epoch \in Nat
  BY DEF TypeOK, Session

(* Nothing is issued, granted or revoked in the initial state. *)
LEMMA InitIInv == Init => IInv
<1> SUFFICES ASSUME Init PROVE IInv
  OBVIOUS
<1> USE ClockAssumption, SentinelAssumption DEF Init
<1>1. TypeOK
  BY DEF TypeOK, Session, Status, Pc, Idle
<1>2. ClockSane /\ FitsToken /\ UsedRemembered /\ EpochsPast /\ BarredDead
  BY DEF ClockSane, FitsToken, UsedRemembered, EpochsPast, BarredDead
<1>3. HandlerSound /\ Handed /\ SingleUse
  BY DEF HandlerSound, Handed, SingleUse, Idle
<1> QED
  BY <1>1, <1>2, <1>3 DEF IInv

-----------------------------------------------------------------------------
(***************************************************************************)
(* Part 1: the actions                                                     *)
(***************************************************************************)

(* Grants are never taken back and never change hands, and a revoked one   *)
(* stays revoked: what most of IInv needs to know of a step.               *)
GrantsKept ==
  \A g \in Grants : grant[g] # Absent =>
    /\ grant'[g] # Absent
    /\ grant'[g].session = grant[g].session /\ grant'[g].token = grant[g].token
    /\ grant'[g].epoch = grant[g].epoch /\ grant'[g].exp = grant[g].exp
    /\ grant[g].revoked => grant'[g].revoked

(* Barred tokens stay dead while grants are kept and epochs only grow. *)
LEMMA BarredStayDead ==
  ASSUME IInv, TypeOK', GrantsKept, barred' = barred,
         \A t \in Tokens : token[t] # Absent => token'[t] = token[t],
         \A s \in Sessions : session[s].epoch <= session'[s].epoch
  PROVE  BarredDead'
<1> SUFFICES ASSUME NEW t \in barred
             PROVE  /\ token'[t] # Absent
                    /\ \/ token'[t].epoch < session'[token'[t].session].epoch
                       \/ \E g \in Grants :
                            /\ grant'[g] # Absent /\ grant'[g].token = t
                            /\ grant'[g].revoked
  BY DEF BarredDead
<1>1. t \in Tokens /\ token[t] # Absent /\ token'[t] = token[t]
  BY DEF IInv, TypeOK, BarredDead
<1>2. CASE token[t].epoch < session[token[t].session].epoch
  <2> DEFINE s == token[t].session
  <2>1. /\ s \in Sessions /\ token[t].epoch \in Nat
        /\ session[s].epoch \in Nat /\ session'[s].epoch \in Nat
    BY <1>1, TokenTyped, SessionTyped DEF IInv, TypeOK, Session
  <2>2. token[t].epoch < session[s].epoch /\ session[s].epoch <= session'[s].epoch
    BY <1>2, <2>1
  <2>3. token[t].epoch < session'[s].epoch
    BY <2>1, <2>2
  <2> QED
    BY <1>1, <2>3
<1>3. CASE \E g \in Grants : /\ grant[g] # Absent /\ grant[g].token = t
                              /\ grant[g].revoked
  BY <1>1, <1>3 DEF GrantsKept
<1> QED
  BY <1>2, <1>3 DEF IInv, BarredDead

(* No token of an open session is issued for an old epoch. *)
LEMMA IssueTokenKeeps ==
  ASSUME IInv, NEW t \in Tokens, NEW s \in Sessions, IssueToken(t, s)
  PROVE  IInv'
<1> USE DEF IInv, IssueToken, Quietly, history
<1>1. session[s].epoch \in Nat /\ clock + Lifetime \in Nat /\ pc = Idle
  BY SessionTyped, ClockAssumption DEF TypeOK
<1>2. TypeOK'
  BY <1>1, SentinelAssumption DEF TypeOK, Token
<1>3. /\ token'[t].session = s /\ token'[t].epoch = session[s].epoch
      /\ \A u \in Tokens \ {t} : token'[u] = token[u]
  BY DEF TypeOK
<1>4. ClockSane' /\ UsedRemembered' /\ HandlerSound' /\ Handed' /\ SingleUse'
  BY DEF ClockSane, UsedRemembered, HandlerSound, GrantsOf, Handed, SingleUse
<1>5. FitsToken'
  BY <1>3, GrantTyped DEF FitsToken
<1>6. EpochsPast'
  <2> SUFFICES ASSUME NEW u \in Tokens, token'[u] # Absent
               PROVE  /\ token'[u].epoch <= session[token'[u].session].epoch
                      /\ Closing(token'[u].session) =>
                           token'[u].epoch < session[token'[u].session].epoch
    BY DEF EpochsPast, Closing
  <2>1. CASE u = t
    BY <1>1, <1>3, <2>1 DEF Closing, Idle, Open
  <2>2. CASE u # t
    BY <1>3, <2>2 DEF EpochsPast
  <2> QED
    BY <2>1, <2>2
<1>7. BarredDead'
  BY <1>2, <1>3, SessionTyped, BarredStayDead DEF GrantsKept
<1> QED
  BY <1>2, <1>4, <1>5, <1>6, <1>7

(* A token that may be exchanged was not exchanged before: a used one is   *)
(* remembered, or forgotten so long after its expiry that no clock it is   *)
(* allowed to meet makes it valid again.                                   *)
LEMMA ExchangedOnce ==
  ASSUME IInv, NEW t \in Tokens, Exchangeable(t),
         t \notin Pruned(token[t].session)
  PROVE  /\ \A g \in Grants : grant[g] # Absent => grant[g].token # t
         /\ t \notin barred
<1> USE DEF IInv
<1>1. token[t] # Absent /\ token[t].exp \in Nat /\ token[t].epoch \in Nat
  BY TokenTyped DEF Exchangeable
<1>2. clock \in Nat /\ latest \in Nat /\ Leeway \in Nat /\ Skew \in Nat
      /\ Skew <= Leeway + 1
  BY ClockAssumption DEF TypeOK
<1>3. token[t].exp > clock /\ latest <= clock + Skew
  BY DEF Exchangeable, ClockSane
<1>4. token[t].exp + Leeway >= clock /\ ~ (token[t].exp + Leeway < latest)
  BY <1>1, <1>2, <1>3
<1>5. t \notin consumed
  BY <1>4 DEF Pruned
<1>6. ASSUME NEW g \in Grants, grant[g] # Absent PROVE grant[g].token # t
  BY <1>4, <1>5, <1>6 DEF UsedRemembered, FitsToken
<1>7. ~ (token[t].epoch < session[token[t].session].epoch)
  BY <1>1 DEF Exchangeable
<1>8. t \notin barred
  BY <1>6, <1>7 DEF BarredDead
<1> QED
  BY <1>6, <1>8

LEMMA ExchangeAccessKeeps ==
  ASSUME IInv, NEW t \in Tokens, NEW g \in Grants, ExchangeAccess(t, g)
  PROVE  IInv'
<1> DEFINE s == token[t].session
           new == [session |-> s, token |-> t, epoch |-> token[t].epoch,
                   exp |-> token[t].exp, revoked |-> FALSE]
<1> USE DEF IInv, Quietly, history
<1>1. /\ pc = Idle /\ grant[g] = Absent /\ token[t] # Absent
      /\ t \notin Pruned(s) /\ consumed' = Pruned(s) \cup {t}
      /\ pc' = [step |-> "exchange.index", grant |-> g]
      /\ Exchangeable(t)
  BY DEF ExchangeAccess, Exchangeable
<1>2. s \in Sessions /\ token[t].epoch \in Nat /\ token[t].exp \in Nat
  BY <1>1, TokenTyped
<1>3. new \in Grant /\ new # Absent
  <2>1. new \in Grant
    BY <1>2 DEF Grant
  <2> QED
    BY <2>1, SentinelAssumption
<1>4. /\ grant' = [grant EXCEPT ![g] = new]
      /\ grant'[g] = new /\ \A h \in Grants \ {g} : grant'[h] = grant[h]
  BY DEF ExchangeAccess, TypeOK
<1>5. UNCHANGED <<session, token, index, stopping, delivered, barred, clock,
                  latest, waiting>>
  BY DEF ExchangeAccess
<1>6. TypeOK'
  <2>1. grant' \in [Grants -> Grant \cup {Absent}]
    BY <1>3, <1>4 DEF TypeOK
  <2>2. consumed' \subseteq Tokens
    BY <1>1 DEF TypeOK, Pruned
  <2>3. pc' \in Pc /\ served' \in Grants \cup {Nobody}
    BY <1>1 DEF Pc, ExchangeAccess
  <2> QED
    BY <2>1, <2>2, <2>3, <1>5 DEF TypeOK
<1>7. GrantsKept
  BY <1>1, <1>4 DEF GrantsKept
<1>8. ClockSane'
  BY <1>5 DEF ClockSane
<1>9. FitsToken'
  BY <1>1, <1>3, <1>4, <1>5, GrantTyped DEF FitsToken
<1>10. UsedRemembered'
  <2> SUFFICES ASSUME NEW h \in Grants, grant'[h] # Absent
               PROVE  grant'[h].token \in consumed' \/ grant'[h].exp + Leeway < latest
    BY <1>5 DEF UsedRemembered
  <2>1. CASE h = g
    BY <2>1, <1>1, <1>4
  <2>2. CASE h # g
    <3> DEFINE u == grant[h].token
    <3>1. /\ grant'[h] = grant[h] /\ grant[h] # Absent /\ u \in Tokens
          /\ token[u] # Absent /\ token[u].exp = grant[h].exp
          /\ grant[h].exp \in Nat
      BY <2>2, <1>4, GrantTyped DEF FitsToken
    <3>2. CASE grant[h].exp + Leeway < latest
      BY <3>1, <3>2
    <3>3. CASE u \in consumed /\ token[u].exp + Leeway >= clock
      BY <3>1, <3>3, <1>1 DEF Pruned
    <3>4. CASE ~ (token[u].exp + Leeway >= clock)
      BY <3>1, <3>4, ClockAssumption DEF ClockSane, TypeOK
    <3> QED
      BY <3>1, <3>2, <3>3, <3>4 DEF UsedRemembered
  <2> QED
    BY <2>1, <2>2
<1>11. EpochsPast'
  BY <1>1, <1>5 DEF EpochsPast, Closing
<1>12. BarredDead'
  BY <1>5, <1>6, <1>7, SessionTyped, BarredStayDead
<1>13. HandlerSound'
  <2>1. g \notin delivered
    BY <1>1 DEF Handed
  <2>2. t \notin barred
    BY <1>1, ExchangedOnce
  <2> QED
    BY <2>1, <2>2, <1>1, <1>3, <1>4, <1>5 DEF HandlerSound
<1>14. Handed'
  <2>1. \A h \in delivered : grant'[h] # Absent /\ (h \in index \/ grant'[h].revoked)
    BY <1>7 DEF Handed, GrantsKept, TypeOK
  <2> QED
    BY <2>1, <1>5 DEF Handed
<1>15. SingleUse'
  BY <1>1, <1>4, ExchangedOnce DEF SingleUse
<1> QED
  BY <1>6, <1>8, <1>9, <1>10, <1>11, <1>12, <1>13, <1>14, <1>15

(* The steps that follow the first write of an exchange. *)
LEMMA ExchangeIndexKeeps ==
  ASSUME IInv, ExchangeIndex
  PROVE  IInv'
<1> USE DEF IInv, ExchangeIndex, Quietly, history
<1>1. pc.grant \in Grants /\ pc' = [step |-> "exchange.event", grant |-> pc.grant]
  BY HandlerTyped DEF TypeOK, Pc, Idle
<1>2. TypeOK'
  BY <1>1 DEF TypeOK, Pc
<1>3. ClockSane' /\ FitsToken' /\ UsedRemembered' /\ BarredDead' /\ SingleUse'
  BY DEF ClockSane, FitsToken, UsedRemembered, BarredDead, SingleUse
<1>4. EpochsPast'
  BY <1>1 DEF EpochsPast, Closing
<1>5. HandlerSound' /\ Handed'
  BY <1>1 DEF HandlerSound, Handed
<1> QED
  BY <1>2, <1>3, <1>4, <1>5

LEMMA ExchangeAnswerKeeps ==
  ASSUME IInv, ExchangeAnswer
  PROVE  IInv'
<1> USE DEF IInv, ExchangeAnswer, Quietly, files
<1>1. pc.grant \in Grants /\ pc' = Idle
  BY HandlerTyped
<1>2. TypeOK'
  BY <1>1 DEF TypeOK, Pc
<1>3. ClockSane' /\ FitsToken' /\ UsedRemembered' /\ BarredDead' /\ SingleUse'
  BY DEF ClockSane, FitsToken, UsedRemembered, BarredDead, SingleUse
<1>4. EpochsPast' /\ HandlerSound'
  BY <1>1 DEF EpochsPast, Closing, HandlerSound, Idle
<1>5. Handed'
  BY <1>1 DEF Handed, HandlerSound, TypeOK
<1> QED
  BY <1>2, <1>3, <1>4, <1>5

(* Revoking keeps the other grants, and keeps this one but for its mark. *)
LEMMA RevokeGrantAccessKeeps ==
  ASSUME IInv, NEW g \in Grants, RevokeGrantAccess(g)
  PROVE  IInv'
<1> USE DEF IInv, Quietly, history
<1>1. /\ pc = Idle /\ grant[g] # Absent
      /\ pc' = [step |-> "revoke.index", grant |-> g]
      /\ UNCHANGED <<session, token, consumed, index, stopping, delivered, barred,
                     clock, latest, waiting>>
  BY DEF RevokeGrantAccess
<1>2. /\ grant'[g] = [grant[g] EXCEPT !.revoked = TRUE]
      /\ \A h \in Grants \ {g} : grant'[h] = grant[h]
  BY DEF RevokeGrantAccess, TypeOK
<1>3. /\ grant'[g] \in Grant /\ grant'[g] # Absent /\ grant'[g].revoked
      /\ grant'[g].session = grant[g].session /\ grant'[g].token = grant[g].token
      /\ grant'[g].epoch = grant[g].epoch /\ grant'[g].exp = grant[g].exp
  <2>1. grant'[g] \in Grant
    BY <1>1, <1>2, GrantTyped DEF Grant
  <2> QED
    BY <2>1, <1>1, <1>2, GrantTyped, SentinelAssumption DEF Grant
<1>4. TypeOK'
  <2>1. grant' \in [Grants -> Grant \cup {Absent}]
    BY <1>2, <1>3 DEF TypeOK, RevokeGrantAccess
  <2> QED
    BY <2>1, <1>1 DEF TypeOK, Pc, RevokeGrantAccess
<1>5. GrantsKept /\ \A h \in Grants : grant'[h] # Absent => grant[h] # Absent
  BY <1>1, <1>2, <1>3 DEF GrantsKept
<1>6. ClockSane' /\ FitsToken' /\ UsedRemembered' /\ SingleUse'
  BY <1>1, <1>5 DEF ClockSane, FitsToken, UsedRemembered, SingleUse, GrantsKept
<1>7. EpochsPast'
  BY <1>1 DEF EpochsPast, Closing
<1>8. BarredDead'
  BY <1>1, <1>4, <1>5, SessionTyped, BarredStayDead
<1>9. HandlerSound'
  BY <1>1, <1>3 DEF HandlerSound
<1>10. Handed'
  <2>1. \A h \in delivered : grant'[h] # Absent /\ (h \in index \/ grant'[h].revoked)
    BY <1>5 DEF Handed, GrantsKept, TypeOK
  <2> QED
    BY <2>1, <1>1 DEF Handed
<1> QED
  BY <1>4, <1>6, <1>7, <1>8, <1>9, <1>10

LEMMA RevokeGrantIndexKeeps ==
  ASSUME IInv, RevokeGrantIndex
  PROVE  IInv'
<1> USE DEF IInv, RevokeGrantIndex, Quietly, history
<1>1. /\ pc.grant \in Grants /\ pc' = [step |-> "revoke.event", grant |-> pc.grant]
      /\ grant[pc.grant] # Absent /\ grant[pc.grant].revoked
  BY HandlerTyped DEF TypeOK, Pc, Idle, HandlerSound
<1>2. TypeOK'
  BY <1>1 DEF TypeOK, Pc
<1>3. ClockSane' /\ FitsToken' /\ UsedRemembered' /\ BarredDead' /\ SingleUse'
  BY DEF ClockSane, FitsToken, UsedRemembered, BarredDead, SingleUse
<1>4. EpochsPast' /\ HandlerSound'
  BY <1>1 DEF EpochsPast, Closing, HandlerSound
<1>5. Handed'
  BY <1>1 DEF Handed
<1> QED
  BY <1>2, <1>3, <1>4, <1>5

LEMMA RevokeGrantAnswerKeeps ==
  ASSUME IInv, RevokeGrantAnswer
  PROVE  IInv'
<1> USE DEF IInv, Quietly, files
<1>1. /\ pc.grant \in Grants /\ pc' = Idle
      /\ grant[pc.grant] # Absent /\ grant[pc.grant].revoked
      /\ grant[pc.grant].token \in Tokens
      /\ barred' = barred \cup {grant[pc.grant].token}
      /\ UNCHANGED <<session, token, consumed, grant, index, stopping, delivered,
                     clock, latest, waiting>>
  BY HandlerTyped, GrantTyped DEF RevokeGrantAnswer, HandlerSound
<1>2. TypeOK'
  BY <1>1 DEF TypeOK, Pc, RevokeGrantAnswer
<1>3. ClockSane' /\ FitsToken' /\ UsedRemembered' /\ SingleUse'
  BY <1>1 DEF ClockSane, FitsToken, UsedRemembered, SingleUse
<1>4. EpochsPast' /\ HandlerSound' /\ Handed'
  BY <1>1 DEF EpochsPast, Closing, HandlerSound, Handed, Idle
<1>5. BarredDead'
  <2>1. token[grant[pc.grant].token] # Absent
    BY <1>1 DEF FitsToken
  <2> QED
    BY <2>1, <1>1 DEF BarredDead
<1> QED
  BY <1>2, <1>3, <1>4, <1>5

(* An epoch is left behind: every token issued so far is of an earlier one. *)
LEMMA EpochLeftKeeps ==
  ASSUME IInv, TypeOK', NEW s \in Sessions,
         session'[s].epoch = session[s].epoch + 1,
         \A u \in Sessions \ {s} : session'[u] = session[u],
         pc = Idle, pc'.step = "all.access", pc'.session = s,
         UNCHANGED <<token, consumed, grant, index, delivered, barred, clock,
                     latest, waiting>>
  PROVE  IInv'
<1> USE DEF IInv
<1>1. ClockSane' /\ FitsToken' /\ UsedRemembered' /\ SingleUse'
  BY DEF ClockSane, FitsToken, UsedRemembered, SingleUse
<1>2. EpochsPast'
  <2> SUFFICES ASSUME NEW t \in Tokens, token[t] # Absent
               PROVE  /\ token[t].epoch <= session'[token[t].session].epoch
                      /\ Closing(token[t].session)' =>
                           token[t].epoch < session'[token[t].session].epoch
    BY DEF EpochsPast, Closing
  <2>1. /\ token[t].session \in Sessions /\ token[t].epoch \in Nat
        /\ session[token[t].session].epoch \in Nat
        /\ token[t].epoch <= session[token[t].session].epoch
    BY TokenTyped, SessionTyped DEF EpochsPast
  <2>2. CASE token[t].session = s
    BY <2>1, <2>2
  <2>3. CASE token[t].session # s
    BY <2>1, <2>3 DEF EpochsPast, Closing, Idle
  <2> QED
    BY <2>2, <2>3
<1>3. \A u \in Sessions : session[u].epoch <= session'[u].epoch
  <2> SUFFICES ASSUME NEW u \in Sessions
               PROVE  session[u].epoch <= session'[u].epoch
    OBVIOUS
  <2>1. session[u].epoch \in Nat
    BY SessionTyped
  <2> QED
    BY <2>1
<1>4. BarredDead'
  BY <1>3, BarredStayDead DEF GrantsKept
<1>5. HandlerSound' /\ Handed'
  BY DEF HandlerSound, Handed
<1> QED
  BY <1>1, <1>2, <1>4, <1>5

LEMMA RevokeSessionKeeps ==
  ASSUME IInv, NEW s \in Sessions, RevokeSession(s)
  PROVE  IInv'
<1> USE DEF IInv, Quietly, history
<1>1. /\ session'[s] = [session[s] EXCEPT !.epoch = session[s].epoch + 1]
      /\ \A u \in Sessions \ {s} : session'[u] = session[u]
      /\ session[s].epoch \in Nat /\ session[s] \in Session
      /\ pc' = [step |-> "all.access", session |-> s, stop |-> FALSE]
  BY SessionTyped DEF RevokeSession, TypeOK
<1>2. session'[s] \in Session /\ session'[s].epoch = session[s].epoch + 1
  BY <1>1 DEF Session
<1>3. TypeOK'
  BY <1>1, <1>2 DEF TypeOK, Pc, RevokeSession
<1> QED
  BY <1>1, <1>2, <1>3, EpochLeftKeeps DEF RevokeSession

(* Only the status of one session changes. *)
LEMMA StatusSet ==
  ASSUME TypeOK, NEW s \in Sessions, NEW status \in Status,
         session' = [session EXCEPT ![s].status = status]
  PROVE  /\ session' \in [Sessions -> Session]
         /\ session'[s].status = status
         /\ \A u \in Sessions : session'[u].epoch = session[u].epoch
         /\ \A u \in Sessions \ {s} : session'[u] = session[u]
<1>1. session[s] \in Session /\ session[s].epoch \in Nat
  BY SessionTyped
<1>2. session'[s] = [session[s] EXCEPT !.status = status]
  BY DEF TypeOK
<1>3. session'[s] = [status |-> status, epoch |-> session[s].epoch]
  BY <1>1, <1>2 DEF Session
<1>4. session'[s] \in Session
  BY <1>1, <1>3 DEF Session
<1>5. \A u \in Sessions \ {s} : session'[u] = session[u]
  BY DEF TypeOK
<1> QED
  BY <1>3, <1>4, <1>5 DEF TypeOK

(* Stopping leaves the epoch, unless a stop that died already has. *)
LEMMA StopSessionKeeps ==
  ASSUME IInv, NEW s \in Sessions, StopSession(s)
  PROVE  IInv'
<1> USE DEF IInv, Quietly, history
<1>1. pc' = [step |-> "all.access", session |-> s, stop |-> TRUE]
  BY DEF StopSession
<1>2. CASE session[s].status = "RUNNING"
  <2>1. /\ session'[s] = [session[s] EXCEPT !.epoch = session[s].epoch + 1,
                                            !.status = "STOPPING"]
        /\ \A u \in Sessions \ {s} : session'[u] = session[u]
        /\ session[s].epoch \in Nat /\ session[s] \in Session
    BY <1>2, SessionTyped DEF StopSession, TypeOK
  <2>2. session'[s] = [status |-> "STOPPING", epoch |-> session[s].epoch + 1]
    BY <2>1 DEF Session
  <2>3. session'[s] \in Session /\ session'[s].epoch = session[s].epoch + 1
    BY <2>1, <2>2 DEF Session, Status
  <2>4. TypeOK'
    BY <1>1, <1>2, <2>3 DEF TypeOK, Pc, StopSession
  <2>5. pc = Idle /\ UNCHANGED <<token, consumed, grant, index, delivered, barred,
                                 clock, latest, waiting>>
    BY DEF StopSession
  <2> QED
    BY <1>1, <2>1, <2>3, <2>4, <2>5, EpochLeftKeeps
<1>3. CASE session[s].status \in {"STOPPING", "CLEANUP_PENDING"}
  <2>1. /\ pc = Idle /\ session' \in [Sessions -> Session]
        /\ \A u \in Sessions : session'[u].epoch = session[u].epoch
        /\ \A u \in Sessions \ {s} : session'[u] = session[u]
    BY <1>3, StatusSet DEF StopSession, Status
  <2>2. UNCHANGED <<token, consumed, grant, index, delivered, barred, clock,
                    latest, waiting>>
    BY DEF StopSession
  <2>3. TypeOK'
    BY <1>1, <2>1 DEF TypeOK, Pc, StopSession
  <2>4. ClockSane' /\ FitsToken' /\ UsedRemembered' /\ SingleUse' /\ BarredDead'
    BY <2>1, <2>2, TokenTyped
       DEF ClockSane, FitsToken, UsedRemembered, SingleUse, BarredDead, TypeOK
  <2>5. EpochsPast'
    BY <1>1, <1>3, <2>1, <2>2, TokenTyped DEF EpochsPast, Closing, Idle
  <2>6. HandlerSound' /\ Handed'
    BY <1>1, <2>2 DEF HandlerSound, Handed
  <2> QED
    BY <2>3, <2>4, <2>5, <2>6
<1> QED
  BY <1>2, <1>3 DEF StopSession

(* Revoking all grants of a session. *)
LEMMA RevokeAllAccessKeeps ==
  ASSUME IInv, RevokeAllAccess
  PROVE  IInv'
<1> USE DEF IInv, Quietly, history
<1>1. /\ pc.step = "all.access" /\ pc.session \in Sessions /\ pc.stop \in BOOLEAN
      /\ pc' = [step |-> "all.index", session |-> pc.session, stop |-> pc.stop]
      /\ UNCHANGED <<session, token, consumed, index, stopping, delivered, barred,
                     clock, latest, waiting>>
  BY HandlerTyped DEF RevokeAllAccess, TypeOK, Pc, Idle
<1>2. ASSUME NEW g \in Grants, grant[g] # Absent
      PROVE  /\ grant'[g] \in Grant /\ grant'[g] # Absent
             /\ grant'[g].session = grant[g].session
             /\ grant'[g].token = grant[g].token
             /\ grant'[g].epoch = grant[g].epoch /\ grant'[g].exp = grant[g].exp
             /\ grant[g].revoked \/ grant[g].session = pc.session => grant'[g].revoked
  <2>1. CASE g \in GrantsOf(pc.session)
    <3>1. grant'[g] = [grant[g] EXCEPT !.revoked = TRUE]
      BY <2>1 DEF RevokeAllAccess
    <3>2. grant'[g] \in Grant /\ grant[g] \in Grant
      BY <1>2, <3>1, GrantTyped DEF Grant
    <3> QED
      BY <3>1, <3>2, SentinelAssumption DEF Grant
  <2>2. CASE g \notin GrantsOf(pc.session)
    BY <1>2, <2>2, GrantTyped DEF RevokeAllAccess, GrantsOf
  <2> QED
    BY <2>1, <2>2
<1>3. ASSUME NEW g \in Grants, grant[g] = Absent
      PROVE  grant'[g] = Absent
  BY <1>3 DEF RevokeAllAccess, GrantsOf
<1>4. TypeOK'
  <2>1. grant' \in [Grants -> Grant \cup {Absent}]
    <3>1. \A g \in Grants : grant'[g] \in Grant \cup {Absent}
      BY <1>2, <1>3
    <3>2. grant' = [g \in Grants |-> grant'[g]]
      BY DEF RevokeAllAccess
    <3> QED
      BY <3>1, <3>2
  <2> QED
    BY <2>1, <1>1 DEF TypeOK, Pc, RevokeAllAccess
<1>5. GrantsKept
  BY <1>2 DEF GrantsKept
<1>6. ClockSane' /\ FitsToken' /\ UsedRemembered' /\ SingleUse'
  BY <1>1, <1>2, <1>3 DEF ClockSane, FitsToken, UsedRemembered, SingleUse
<1>7. EpochsPast'
  BY <1>1 DEF EpochsPast, Closing
<1>8. BarredDead'
  BY <1>1, <1>4, <1>5, SessionTyped, BarredStayDead
<1>9. HandlerSound'
  BY <1>1, <1>2, <1>3 DEF HandlerSound, GrantsOf
<1>10. Handed'
  <2>1. \A g \in delivered : grant'[g] # Absent /\ (g \in index \/ grant'[g].revoked)
    BY <1>5 DEF Handed, GrantsKept, TypeOK
  <2> QED
    BY <2>1, <1>1 DEF Handed
<1> QED
  BY <1>4, <1>6, <1>7, <1>8, <1>9, <1>10

LEMMA RevokeAllIndexKeeps ==
  ASSUME IInv, RevokeAllIndex
  PROVE  IInv'
<1> USE DEF IInv, RevokeAllIndex, Quietly, history
<1>1. /\ pc.step = "all.index" /\ pc.session \in Sessions /\ pc.stop \in BOOLEAN
      /\ pc' = [step |-> "all.event", session |-> pc.session, stop |-> pc.stop]
      /\ \A g \in GrantsOf(pc.session) : grant[g].revoked
  BY HandlerTyped DEF TypeOK, Pc, Idle, HandlerSound
<1>2. TypeOK'
  BY <1>1 DEF TypeOK, Pc
<1>3. ClockSane' /\ FitsToken' /\ UsedRemembered' /\ BarredDead' /\ SingleUse'
  BY DEF ClockSane, FitsToken, UsedRemembered, BarredDead, SingleUse
<1>4. EpochsPast' /\ HandlerSound'
  BY <1>1 DEF EpochsPast, Closing, HandlerSound
<1>5. Handed'
  BY <1>1 DEF Handed
<1> QED
  BY <1>2, <1>3, <1>4, <1>5

(* When all grants of a session are revoked, its tokens are all of an       *)
(* earlier epoch.                                                           *)
LEMMA IssuedAreDead ==
  ASSUME IInv, NEW s \in Sessions, Closing(s)
  PROVE  \A t \in Issued(s) : /\ t \in Tokens /\ token[t] # Absent
                               /\ token[t].session = s
                               /\ token[t].epoch < session[s].epoch
  BY DEF IInv, EpochsPast, Issued

LEMMA RevokeAllAnswerKeeps ==
  ASSUME IInv, RevokeAllAnswer
  PROVE  IInv'
<1> USE DEF IInv, Quietly, files
<1>1. /\ pc.step = "all.event" /\ pc.session \in Sessions /\ pc' = Idle
      /\ barred' \subseteq barred \cup Issued(pc.session) /\ barred \subseteq barred'
      /\ stopping' \subseteq Sessions
      /\ UNCHANGED <<session, token, consumed, grant, index, delivered, clock,
                     latest, waiting>>
  BY HandlerTyped DEF RevokeAllAnswer, TypeOK
<1>2. \A t \in Issued(pc.session) :
        /\ t \in Tokens /\ token[t] # Absent
        /\ token[t].epoch < session[token[t].session].epoch
  BY <1>1, IssuedAreDead DEF Closing
<1>3. TypeOK'
  BY <1>1, <1>2 DEF TypeOK, Pc, RevokeAllAnswer
<1>4. ClockSane' /\ FitsToken' /\ UsedRemembered' /\ SingleUse'
  BY <1>1 DEF ClockSane, FitsToken, UsedRemembered, SingleUse
<1>5. EpochsPast' /\ HandlerSound' /\ Handed'
  BY <1>1 DEF EpochsPast, Closing, HandlerSound, Handed, Idle
<1>6. BarredDead'
  BY <1>1, <1>2 DEF BarredDead
<1> QED
  BY <1>3, <1>4, <1>5, <1>6

(* A stop bars the tokens of the epoch it left when it began. *)
LEMMA StopAnswerKeeps ==
  ASSUME IInv, NEW s \in Sessions, StopAnswer(s)
  PROVE  IInv'
<1> USE DEF IInv, Quietly
<1>1. /\ pc = Idle /\ pc' = Idle /\ stopping' \subseteq Sessions
      /\ UNCHANGED <<token, consumed, grant, index, delivered, clock, latest, waiting>>
  BY DEF StopAnswer, TypeOK
<1>2. \/ /\ session[s].status = "STOPPING"
         /\ session' = [session EXCEPT ![s].status = "STOPPED"]
         /\ barred' = barred \cup Issued(s)
      \/ /\ session[s].status = "STOPPING"
         /\ session' = [session EXCEPT ![s].status = "CLEANUP_PENDING"]
         /\ barred' = barred
      \/ session' = session /\ barred' = barred
  BY DEF StopAnswer
<1>3. /\ session' \in [Sessions -> Session]
      /\ \A u \in Sessions : session'[u].epoch = session[u].epoch
      /\ \A u \in Sessions : Closing(u)' => Closing(u)
  <2>1. CASE session' = session
    BY <1>1, <2>1 DEF Closing, TypeOK
  <2>2. ASSUME session[s].status = "STOPPING",
               NEW status \in {"STOPPED", "CLEANUP_PENDING"},
               session' = [session EXCEPT ![s].status = status]
        PROVE  <1>3!1 /\ <1>3!2 /\ <1>3!3
    BY <1>1, <2>2, StatusSet DEF Closing, Status, Idle
  <2> QED
    BY <1>2, <2>1, <2>2
<1>4. TypeOK'
  BY <1>1, <1>2, <1>3 DEF TypeOK, Issued, StopAnswer
<1>5. ClockSane' /\ FitsToken' /\ UsedRemembered' /\ SingleUse'
  BY <1>1 DEF ClockSane, FitsToken, UsedRemembered, SingleUse
<1>6. EpochsPast'
  BY <1>1, <1>3, TokenTyped DEF EpochsPast
<1>7. BarredDead'
  <2>1. ASSUME NEW t \in barred PROVE
          /\ token[t] # Absent
          /\ \/ token[t].epoch < session'[token[t].session].epoch
             \/ \E g \in Grants : /\ grant[g] # Absent /\ grant[g].token = t
                                   /\ grant[g].revoked
    BY <1>3, TokenTyped DEF BarredDead, TypeOK
  <2>2. ASSUME NEW t \in Issued(s), session[s].status = "STOPPING"
        PROVE  /\ token[t] # Absent
               /\ token[t].epoch < session'[token[t].session].epoch
    BY <1>3, <2>2, IssuedAreDead DEF Closing
  <2> QED
    BY <1>1, <1>2, <2>1, <2>2 DEF BarredDead
<1>8. HandlerSound' /\ Handed'
  BY <1>1 DEF HandlerSound, Handed, Idle
<1> QED
  BY <1>4, <1>5, <1>6, <1>7, <1>8

LEMMA CloseKeeps ==
  ASSUME IInv, NEW s \in Sessions, Close(s)
  PROVE  IInv'
<1> USE DEF IInv, Quietly, history
<1>1. /\ pc = Idle /\ pc' = Idle
      /\ UNCHANGED <<token, consumed, grant, index, stopping, delivered, barred,
                     clock, latest, waiting>>
  BY DEF Close
<1>2. PICK status \in {"FAILED", "PURGED"} :
        session' = [session EXCEPT ![s].status = status]
  BY DEF Close
<1>3. /\ session' \in [Sessions -> Session]
      /\ \A u \in Sessions : session'[u].epoch = session[u].epoch
      /\ \A u \in Sessions : Closing(u)' => Closing(u)
  BY <1>1, <1>2, StatusSet DEF Closing, Status, Idle
<1>4. TypeOK'
  BY <1>1, <1>3 DEF TypeOK, Close
<1>5. ClockSane' /\ FitsToken' /\ UsedRemembered' /\ SingleUse'
  BY <1>1 DEF ClockSane, FitsToken, UsedRemembered, SingleUse
<1>6. EpochsPast' /\ BarredDead'
  BY <1>1, <1>3, TokenTyped DEF EpochsPast, BarredDead, TypeOK
<1>7. HandlerSound' /\ Handed'
  BY <1>1 DEF HandlerSound, Handed, Idle
<1> QED
  BY <1>4, <1>5, <1>6, <1>7

(* Watching changes nothing but what is waiting and served. *)
LEMMA PlayKeeps ==
  ASSUME IInv, Play
  PROVE  IInv'
<1> USE DEF IInv, files, time, history
<1>1. /\ waiting' \in [Requests -> Grants \cup {Absent}]
      /\ served' \in Grants \cup {Nobody}
      /\ \A q \in Requests : waiting'[q] # Absent => waiting'[q] \in delivered
      /\ UNCHANGED <<files, time, pc, stopping, history>>
  <2>1. CASE \E g \in Grants : Fetch(g)
    BY <2>1 DEF Fetch, TypeOK, Handed
  <2>2. ASSUME NEW q \in Requests, NEW g \in Grants, PlaylistWait(q, g)
        PROVE  <1>1!1 /\ <1>1!2 /\ <1>1!3 /\ <1>1!4
    BY <2>2 DEF PlaylistWait, TypeOK, Handed
  <2>3. ASSUME NEW q \in Requests, PlaylistAnswer(q)
        PROVE  <1>1!1 /\ <1>1!2 /\ <1>1!3 /\ <1>1!4
    BY <2>3 DEF PlaylistAnswer, TypeOK, Handed
  <2> QED
    BY <2>1, <2>2, <2>3 DEF Play
<1>2. TypeOK'
  BY <1>1 DEF TypeOK
<1>3. ClockSane' /\ FitsToken' /\ UsedRemembered' /\ SingleUse' /\ BarredDead'
  BY <1>1 DEF ClockSane, FitsToken, UsedRemembered, SingleUse, BarredDead
<1>4. EpochsPast' /\ HandlerSound' /\ Handed'
  BY <1>1 DEF EpochsPast, Closing, HandlerSound, GrantsOf, Handed
<1> QED
  BY <1>2, <1>3, <1>4

(* A process that dies forgets its handler, its waiting requests and stops. *)
LEMMA CrashKeeps ==
  ASSUME IInv, Crash
  PROVE  IInv'
<1> USE DEF IInv, Crash, files, time, history
<1>1. TypeOK'
  BY DEF TypeOK, Pc
<1>2. ClockSane' /\ FitsToken' /\ UsedRemembered' /\ SingleUse' /\ BarredDead'
  BY DEF ClockSane, FitsToken, UsedRemembered, SingleUse, BarredDead
<1>3. EpochsPast' /\ HandlerSound' /\ Handed'
  BY DEF EpochsPast, Closing, HandlerSound, Handed, Idle
<1> QED
  BY <1>1, <1>2, <1>3

(* The arithmetic of a clock that may be set back. *)
LEMMA LatestGrows ==
  ASSUME NEW now \in Nat, NEW last \in Nat, NEW back \in Nat, now + back >= last,
         NEW next, next = IF now > last THEN now ELSE last
  PROVE  now <= next /\ next <= now + back /\ last <= next /\ next \in Nat
  OBVIOUS

(* The clock is never set back so far that ClockSane breaks. *)
LEMMA ClockMovesKeeps ==
  ASSUME IInv, ClockMoves
  PROVE  IInv'
<1> USE DEF IInv, ClockMoves, files, history
<1>1. clock \in Nat /\ latest \in Nat
  BY DEF TypeOK
<1>2. MaxTime \in Nat /\ Leeway \in Nat /\ Skew \in Nat
  BY ClockAssumption
<1>3. /\ clock' \in Nat /\ clock' + Skew >= latest
      /\ latest' = IF clock' > latest THEN clock' ELSE latest
  BY <1>2
<1>4. ClockSane' /\ latest <= latest' /\ latest' \in Nat
  BY <1>1, <1>2, <1>3, LatestGrows DEF ClockSane
<1>5. TypeOK'
  BY <1>3, <1>4 DEF TypeOK
<1>6. UsedRemembered'
  <2> SUFFICES ASSUME NEW g \in Grants, grant[g] # Absent, grant[g].token \notin consumed
               PROVE  grant[g].exp + Leeway < latest'
    BY DEF UsedRemembered
  <2>1. grant[g].exp \in Nat /\ grant[g].exp + Leeway < latest
    BY GrantTyped DEF UsedRemembered
  <2> QED
    BY <1>1, <1>2, <1>4, <2>1
<1>7. FitsToken' /\ SingleUse' /\ BarredDead'
  BY DEF FitsToken, SingleUse, BarredDead
<1>8. EpochsPast' /\ HandlerSound' /\ Handed'
  BY DEF EpochsPast, Closing, HandlerSound, GrantsOf, Handed
<1> QED
  BY <1>4, <1>5, <1>6, <1>7, <1>8

-----------------------------------------------------------------------------
(***************************************************************************)
(* Part 2: safety                                                          *)
(***************************************************************************)

LEMMA NextKeeps == IInv /\ [Next]_vars => IInv'
<1> SUFFICES ASSUME IInv, [Next]_vars PROVE IInv'
  OBVIOUS
<1>1. CASE Exchange
  BY <1>1, IssueTokenKeeps, ExchangeAccessKeeps, ExchangeIndexKeeps,
     ExchangeAnswerKeeps DEF Exchange
<1>2. CASE Revoke
  BY <1>2, RevokeGrantAccessKeeps, RevokeGrantIndexKeeps, RevokeGrantAnswerKeeps,
     RevokeSessionKeeps, StopSessionKeeps, RevokeAllAccessKeeps,
     RevokeAllIndexKeeps, RevokeAllAnswerKeeps, StopAnswerKeeps, CloseKeeps
     DEF Revoke
<1>3. CASE Play
  BY <1>3, PlayKeeps
<1>4. CASE Crash \/ ClockMoves
  BY <1>4, CrashKeeps, ClockMovesKeeps
<1>5. CASE UNCHANGED vars
  BY <1>5 DEF vars, IInv, TypeOK, ClockSane, FitsToken, UsedRemembered, EpochsPast,
              Closing, BarredDead, HandlerSound, GrantsOf, Handed, SingleUse
<1> QED
  BY <1>1, <1>2, <1>3, <1>4, <1>5 DEF Next

(* The files, the index and the answers given agree at every write.  *)
THEOREM GrantsInvariant == Spec => []IInv
<1> QED
  BY InitIInv, NextKeeps, PTL DEF Spec

(* Every variable keeps its type. *)
THEOREM GrantsTyped == Spec => []TypeOK
<1>1. IInv => TypeOK
  BY DEF IInv
<1> QED
  BY <1>1, GrantsInvariant, PTL

(* A token buys at most one grant. *)
THEOREM TokensAreSingleUse == Spec => []SingleUse
<1>1. IInv => SingleUse
  BY DEF IInv
<1> QED
  BY <1>1, GrantsInvariant, PTL

(* A token that is barred authorizes nobody. *)
LEMMA BarredUnauthorized == IInv => RevocationIsFinal
<1> SUFFICES ASSUME IInv, NEW g \in Grants, grant[g] # Absent,
                    grant[g].token \in barred, Authorized(g)
             PROVE  FALSE
  BY DEF RevocationIsFinal
<1> USE DEF IInv
<1>1. /\ ~ grant[g].revoked
      /\ token[grant[g].token].epoch = session[token[grant[g].token].session].epoch
  BY DEF Authorized, FitsToken
<1>2. /\ grant[g].token \in Tokens /\ token[grant[g].token] # Absent
      /\ token[grant[g].token].epoch \in Nat
  BY GrantTyped, TokenTyped DEF FitsToken
<1>3. PICK h \in Grants : /\ grant[h] # Absent /\ grant[h].token = grant[g].token
                          /\ grant[h].revoked
  BY <1>1, <1>2 DEF BarredDead
<1>4. h = g
  BY <1>3 DEF SingleUse
<1> QED
  BY <1>1, <1>3, <1>4

(* After an answered revocation nothing it covers is authorized again. *)
THEOREM RevocationHolds == Spec => []RevocationIsFinal
<1> QED
  BY BarredUnauthorized, GrantsInvariant, PTL

(* A viewer's grant works until it expires or is revoked. *)
THEOREM DeliveredGrantsWork == Spec => []DeliveredWorks
<1>1. IInv => DeliveredWorks
  BY DEF IInv, DeliveredWorks, Handed, Authorized, TypeOK
<1> QED
  BY <1>1, GrantsInvariant, PTL

-----------------------------------------------------------------------------
(***************************************************************************)
(* Part 3: the grants implement PlaybackAccess                             *)
(***************************************************************************)

Admitted == {<<g, grant[g].token>> : g \in delivered}

LEMMA InitAccess == Init => Access!Init
  BY DEF Init, Access!Init

(* A step that serves nobody and hands out nothing is the Bar of            *)
(* PlaybackAccess, of no token in most cases.                               *)
LEMMA QuietAccess ==
  ASSUME IInv, GrantsKept, served' = Nobody, delivered' = delivered,
         barred \subseteq barred', barred' \subseteq Tokens
  PROVE  Access!Next
<1>1. Admitted' = Admitted
  BY DEF Admitted, IInv, Handed, GrantsKept, TypeOK
<1>2. PICK revoked \in SUBSET Tokens : revoked = barred'
  OBVIOUS
<1>3. Access!Bar(revoked)
  BY <1>1, <1>2 DEF Access!Bar, Admitted
<1> QED
  BY <1>3 DEF Access!Next

(* The same for a step that touches neither the grants nor what is barred. *)
LEMMA ClearAccess ==
  ASSUME IInv, UNCHANGED <<grant, delivered, barred>>, served' = Nobody
  PROVE  Access!Next
<1>1. GrantsKept
  BY DEF GrantsKept
<1> QED
  BY <1>1, QuietAccess DEF IInv, TypeOK

(* Handing out a grant is the Admit of PlaybackAccess. *)
LEMMA AnswerAdmits ==
  ASSUME IInv, ExchangeAnswer
  PROVE  Access!Next
<1> USE DEF IInv
<1>1. PICK g \in Grants : g = pc.grant
  BY HandlerTyped DEF ExchangeAnswer
<1>2. grant[g] # Absent /\ g \notin delivered /\ grant[g].token \notin barred
  BY <1>1 DEF ExchangeAnswer, HandlerSound
<1>3. PICK t \in Tokens : t = grant[g].token
  BY <1>2, GrantTyped
<1>4. \A a \in Admitted : a[1] # g /\ a[2] # t
  BY <1>2, <1>3 DEF Admitted, Handed, SingleUse, TypeOK
<1>5. Admitted' = Admitted \cup {<<g, t>>}
  BY <1>1, <1>3 DEF Admitted, ExchangeAnswer, files
<1>6. Access!Admit(g, t)
  BY <1>2, <1>3, <1>4, <1>5 DEF Access!Admit, Admitted, ExchangeAnswer, Quietly
<1> QED
  BY <1>6 DEF Access!Next

(* What is served is served to an admitted viewer whose token is not barred. *)
LEMMA ServedMayWatch ==
  ASSUME IInv, NEW g \in delivered, Authorized(g), served' = g,
         UNCHANGED <<grant, delivered, barred>>
  PROVE  Access!Next
<1> DEFINE t == grant[g].token
<1>1. g \in Grants /\ grant[g] # Absent
  BY DEF IInv, TypeOK, Handed
<1>2. t \in Tokens \ barred
  BY <1>1, GrantTyped, BarredUnauthorized DEF RevocationIsFinal, IInv
<1>3. <<g, t>> \in Admitted /\ UNCHANGED Admitted
  BY DEF Admitted
<1>4. Access!Watch(g)
  BY <1>2, <1>3 DEF Access!Watch, Admitted
<1> QED
  BY <1>1, <1>4 DEF Access!Next

LEMMA StepAccess == IInv /\ [Next]_vars => [Access!Next]_(Access!vars)
<1> SUFFICES ASSUME IInv, [Next]_vars
             PROVE  Access!Next \/ UNCHANGED Access!vars
  OBVIOUS
<1>1. CASE Exchange
  <2>1. CASE \E t \in Tokens, s \in Sessions : IssueToken(t, s)
    BY <2>1, ClearAccess DEF IssueToken, Quietly, history
  <2>2. ASSUME NEW t \in Tokens, NEW g \in Grants, ExchangeAccess(t, g)
        PROVE  Access!Next
    <3>1. GrantsKept
      BY <2>2 DEF GrantsKept, ExchangeAccess, IInv, TypeOK
    <3> QED
      BY <2>2, <3>1, QuietAccess DEF ExchangeAccess, Quietly, history, IInv, TypeOK
  <2>3. CASE ExchangeIndex
    BY <2>3, ClearAccess DEF ExchangeIndex, Quietly, history
  <2>4. CASE ExchangeAnswer
    BY <2>4, AnswerAdmits
  <2> QED
    BY <1>1, <2>1, <2>2, <2>3, <2>4 DEF Exchange
<1>2. CASE Revoke
  <2>1. ASSUME NEW g \in Grants, RevokeGrantAccess(g) PROVE Access!Next
    <3>1. GrantsKept
      <4>1. /\ grant'[g] = [grant[g] EXCEPT !.revoked = TRUE] /\ grant[g] \in Grant
            /\ \A h \in Grants \ {g} : grant'[h] = grant[h]
        BY <2>1, GrantTyped DEF RevokeGrantAccess, IInv, TypeOK
      <4>2. grant'[g] \in Grant
        BY <4>1 DEF Grant
      <4>3. /\ grant'[g].session = grant[g].session
            /\ grant'[g].token = grant[g].token
            /\ grant'[g].epoch = grant[g].epoch /\ grant'[g].exp = grant[g].exp
            /\ grant'[g].revoked
        BY <4>1 DEF Grant
      <4> QED
        BY <4>1, <4>2, <4>3, SentinelAssumption DEF GrantsKept
    <3> QED
      BY <2>1, <3>1, QuietAccess DEF RevokeGrantAccess, Quietly, history, IInv, TypeOK
  <2>2. CASE RevokeGrantIndex
    BY <2>2, ClearAccess DEF RevokeGrantIndex, Quietly, history
  <2>3. CASE RevokeGrantAnswer
    <3>1. grant[pc.grant].token \in Tokens
      BY <2>3, HandlerTyped, GrantTyped DEF IInv, HandlerSound, RevokeGrantAnswer
    <3>2. barred \subseteq barred' /\ barred' \subseteq Tokens
      BY <2>3, <3>1 DEF RevokeGrantAnswer, IInv, TypeOK
    <3>3. UNCHANGED <<grant, delivered>> /\ served' = Nobody
      BY <2>3 DEF RevokeGrantAnswer, Quietly, files
    <3> QED
      BY <3>2, <3>3, QuietAccess DEF GrantsKept
  <2>4. CASE \E s \in Sessions : RevokeSession(s) \/ StopSession(s)
    BY <2>4, ClearAccess
       DEF RevokeSession, StopSession, Quietly, history
  <2>5. CASE RevokeAllAccess
    <3>1. GrantsKept
      <4> SUFFICES ASSUME NEW g \in Grants, grant[g] # Absent
                   PROVE  /\ grant'[g] # Absent
                          /\ grant'[g].session = grant[g].session
                          /\ grant'[g].token = grant[g].token
                          /\ grant'[g].epoch = grant[g].epoch
                          /\ grant'[g].exp = grant[g].exp
                          /\ grant[g].revoked => grant'[g].revoked
        BY DEF GrantsKept
      <4>1. grant[g] \in Grant
        BY GrantTyped DEF IInv
      <4>2. CASE g \in GrantsOf(pc.session)
        <5>1. grant'[g] = [grant[g] EXCEPT !.revoked = TRUE]
          BY <2>5, <4>2 DEF RevokeAllAccess
        <5>2. grant'[g] \in Grant
          BY <4>1, <5>1 DEF Grant
        <5> QED
          BY <4>1, <5>1, <5>2, SentinelAssumption DEF Grant
      <4>3. CASE g \notin GrantsOf(pc.session)
        BY <2>5, <4>3 DEF RevokeAllAccess
      <4> QED
        BY <4>2, <4>3
    <3> QED
      BY <2>5, <3>1, QuietAccess DEF RevokeAllAccess, Quietly, history, IInv, TypeOK
  <2>6. CASE RevokeAllIndex
    BY <2>6, ClearAccess DEF RevokeAllIndex, Quietly, history
  <2>7. CASE RevokeAllAnswer
    <3>1. barred \subseteq barred' /\ barred' \subseteq Tokens
      BY <2>7 DEF RevokeAllAnswer, Issued, IInv, TypeOK
    <3>2. UNCHANGED <<grant, delivered>> /\ served' = Nobody
      BY <2>7 DEF RevokeAllAnswer, Quietly, files
    <3> QED
      BY <3>1, <3>2, QuietAccess DEF GrantsKept
  <2>8. ASSUME NEW s \in Sessions, StopAnswer(s) PROVE Access!Next
    <3>1. barred \subseteq barred' /\ barred' \subseteq Tokens
      BY <2>8 DEF StopAnswer, Issued, IInv, TypeOK
    <3>2. UNCHANGED <<grant, delivered>> /\ served' = Nobody
      BY <2>8 DEF StopAnswer, Quietly
    <3> QED
      BY <3>1, <3>2, QuietAccess DEF GrantsKept
  <2>9. CASE \E s \in Sessions : Close(s)
    BY <2>9, ClearAccess DEF Close, Quietly, history
  <2> QED
    BY <1>2, <2>1, <2>2, <2>3, <2>4, <2>5, <2>6, <2>7, <2>8, <2>9 DEF Revoke
<1>3. CASE Play
  <2>1. ASSUME NEW g \in Grants, Fetch(g) PROVE Access!Next
    BY <2>1, ServedMayWatch DEF Fetch, files, history
  <2>2. CASE \E q \in Requests, g \in Grants : PlaylistWait(q, g)
    BY <2>2, ClearAccess DEF PlaylistWait, files, history
  <2>3. ASSUME NEW q \in Requests, PlaylistAnswer(q) PROVE Access!Next
    <3>1. CASE Authorized(waiting[q])
      BY <2>3, <3>1, ServedMayWatch DEF PlaylistAnswer, files, history, IInv, Handed
    <3>2. CASE ~ Authorized(waiting[q])
      BY <2>3, <3>2, ClearAccess DEF PlaylistAnswer, files, history
    <3> QED
      BY <3>1, <3>2
  <2> QED
    BY <1>3, <2>1, <2>2, <2>3 DEF Play
<1>4. CASE Crash \/ ClockMoves
  BY <1>4, ClearAccess DEF Crash, ClockMoves, files, history
<1>5. CASE UNCHANGED vars
  BY <1>5 DEF vars, Access!vars
<1> QED
  BY <1>1, <1>2, <1>3, <1>4, <1>5 DEF Next

(* Every behaviour of the grant store is one of PlaybackAccess. *)
THEOREM GrantsImplementAccess == Spec => ImplementsAccess
<1>1. Spec => Access!Spec
  BY InitAccess, StepAccess, GrantsInvariant, PTL DEF Spec, Access!Spec
<1> QED
  BY <1>1 DEF ImplementsAccess
=============================================================================
