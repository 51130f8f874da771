------------------------------- MODULE LiveHops -------------------------------
(***************************************************************************)
(* The rows of a live traceroute: stream_mtr_live folds the lines of       *)
(* `mtr --raw` into one _LiveHopState per hop and emits a row for some of  *)
(* them; stream_mtr_cached keeps the last row of each hop (latest_hops)    *)
(* and stores those as the result.                                         *)
(*                                                                         *)
(* mtr is external: it probes hops in any order, a probe is answered late, *)
(* never, or from another address than the last one (load balancing).      *)
(***************************************************************************)
EXTENDS Integers

CONSTANTS
  Pos,        \* hop numbers
  Addr,       \* addresses a hop may answer from
  None,       \* Python's None
  MaxProbes   \* bound: mtr -c, probes per hop

VARIABLES
  owed,    \* mtr: probes of a hop that no reply has come for
  seen,    \* mtr: addresses a hop has answered from
  host,    \* mtr: the hop whose host lines were just printed, None otherwise
  states,  \* stream_mtr_live's states, None for a hop without one
  latest,  \* last row emitted for a hop, None when there is none
  phase    \* of the generator

mtrVars == <<owed, seen, host>>
vars == <<owed, seen, host, states, latest, phase>>

HopState == [ip : Addr \union {None}, sent : Nat, received : Nat, samples : Nat,
             named : Addr \union {None}, labels : SUBSET Addr]
Row == [ip : Addr \union {None}, loss : 0..1000, samples : Nat,
        named : Addr \union {None}, labels : SUBSET Addr]

ASSUME LiveHopsAssumption ==
  /\ None \notin Addr \union Pos \union HopState \union Row
  /\ MaxProbes \in Nat

TypeOK == /\ owed \in [Pos -> 0..MaxProbes]
          /\ seen \in [Pos -> SUBSET Addr]
          /\ host \in Pos \union {None}
          /\ states \in [Pos -> HopState \union {None}]
          /\ latest \in [Pos -> Row \union {None}]
          /\ phase \in {"reading", "done", "cut"}

-------------------------------------------------------------------------------
(* _LiveHopState.                                                          *)

NewHop == [ip |-> None, sent |-> 0, received |-> 0, samples |-> 0,
           named |-> None, labels |-> {}]

\* states.setdefault(pos, _LiveHopState(pos=pos))
HopAt(h) == IF states[h] = None THEN NewHop ELSE states[h]

\* Mutant of Loss: what came back minus what was sent.
LossNegated(sent, received) ==
  IF sent = 0 THEN 0
  ELSE (2000 * (received - sent) + sent) \div (2 * sent)

\* Loss in tenths of a percent, rounded.
Loss(sent, received) ==
  IF sent = 0 THEN 0
  ELSE (2000 * (sent - received) + sent) \div (2 * sent)

\* to_hop()
ToHop(s) == [ip |-> s.ip, loss |-> Loss(s.sent, s.received), samples |-> s.samples,
             named |-> s.named, labels |-> s.labels]

\* rDNS and ASN are looked up once per hop, for the address known by then.
Enrich(s) == IF s.ip # None /\ s.named = None THEN [s EXCEPT !.named = s.ip] ELSE s

Update(h, s) == states' = [states EXCEPT ![h] = s]
Emit(h, s)   == latest' = [latest EXCEPT ![h] = ToHop(s)]

-------------------------------------------------------------------------------
(* One action per kind of line.                                            *)

\* "h": the hop has a new address.
HostLine(h, a) ==
  /\ phase = "reading" /\ host = None
  /\ owed[h] > 0 /\ a \notin seen[h]
  /\ seen' = [seen EXCEPT ![h] = @ \union {a}]
  /\ host' = h
  /\ LET s == Enrich([HopAt(h) EXCEPT !.ip = a])
     IN Update(h, s) /\ Emit(h, s)
  /\ UNCHANGED <<owed, phase>>

\* "m": a label of the address just named; shown once the hop has one.
LabelLine(h) ==
  /\ phase = "reading" /\ host = h
  /\ LET s == [HopAt(h) EXCEPT !.labels = @ \union {HopAt(h).ip}]
     IN /\ Update(h, s)
        /\ IF s.ip # None THEN Emit(h, s) ELSE UNCHANGED latest
  /\ UNCHANGED <<owed, seen, host, phase>>

\* "x": a probe is sent.  Counted, not shown.
ProbeLine(h) ==
  /\ phase = "reading" /\ host = None
  /\ HopAt(h).sent < MaxProbes
  /\ owed' = [owed EXCEPT ![h] = @ + 1]
  /\ Update(h, [HopAt(h) EXCEPT !.sent = @ + 1])
  /\ UNCHANGED <<seen, host, latest, phase>>

\* mtr prints the reply to a probe: after the host lines of a new address, or
\* alone for an address it has printed before.
Replies(h) ==
  /\ phase = "reading"
  /\ owed[h] > 0
  /\ host = h \/ (host = None /\ seen[h] # {})
  /\ owed' = [owed EXCEPT ![h] = @ - 1]
  /\ host' = None
  /\ UNCHANGED <<seen, phase>>

\* Mutant of ReplyLine: the row is taken before the reply is counted.
ReplyLineShownFirst(h) ==
  /\ Replies(h)
  /\ Emit(h, HopAt(h))
  /\ Update(h, Enrich([HopAt(h) EXCEPT !.received = @ + 1, !.samples = @ + 1]))

\* Mutant of ReplyLine: the time is kept and the reply not counted.
ReplyLineUncounted(h) ==
  /\ Replies(h)
  /\ LET s == Enrich([HopAt(h) EXCEPT !.samples = @ + 1])
     IN Update(h, s) /\ Emit(h, s)

\* "p": a reply and its time.
ReplyLine(h) ==
  /\ Replies(h)
  /\ LET s == Enrich([HopAt(h) EXCEPT !.received = @ + 1, !.samples = @ + 1])
     IN Update(h, s) /\ Emit(h, s)

\* The time does not parse: the reply is already counted, the line skipped.
GarbledReplyLine(h) ==
  /\ Replies(h)
  /\ Update(h, [HopAt(h) EXCEPT !.received = @ + 1])
  /\ UNCHANGED latest

\* Mutant of Flush: a hop probed once is not shown.
FlushOffByOne ==
  /\ phase = "reading" /\ host = None
  /\ latest' = [h \in Pos |->
                  IF states[h] # None /\ HopAt(h).ip = None /\ HopAt(h).sent > 1
                  THEN ToHop(HopAt(h)) ELSE latest[h]]
  /\ phase' = "done"
  /\ UNCHANGED <<states, mtrVars>>

\* End of the lines: the hops that were probed and never answered are shown.
Flush ==
  /\ phase = "reading" /\ host = None
  /\ latest' = [h \in Pos |->
                  IF states[h] # None /\ HopAt(h).ip = None /\ HopAt(h).sent > 0
                  THEN ToHop(HopAt(h)) ELSE latest[h]]
  /\ phase' = "done"
  /\ UNCHANGED <<states, mtrVars>>

\* mtr fails or times out, or the client goes: nothing is stored.
Cut ==
  /\ phase = "reading"
  /\ phase' = "cut"
  /\ UNCHANGED <<states, latest, mtrVars>>

Init == /\ owed = [h \in Pos |-> 0]
        /\ seen = [h \in Pos |-> {}]
        /\ host = None
        /\ states = [h \in Pos |-> None]
        /\ latest = [h \in Pos |-> None]
        /\ phase = "reading"

Next == \/ \E h \in Pos : \/ \E a \in Addr : HostLine(h, a)
                          \/ LabelLine(h) \/ ProbeLine(h) \/ ReplyLine(h) \/ GarbledReplyLine(h)
        \/ Flush \/ Cut

Spec == Init /\ [][Next]_vars

-------------------------------------------------------------------------------
(* Properties.                                                             *)

Shown(h) == latest[h] # None

\* Every reply line of the hop so far had a time.
Clean(h) == HopAt(h).received = HopAt(h).samples

\* Except for the loss, which lags by the probes sent and the replies without a
\* time since, the row a client has of a hop says what the accumulator knows,
\* after every single line.
RowsCurrent ==
  \A h \in Pos : Shown(h) => latest[h] = [ToHop(HopAt(h)) EXCEPT !.loss = latest[h].loss]

\* When every probe of a hop has been answered its row is exact, whatever the
\* order in which the probes and replies of all hops came and whatever the
\* lines of the others looked like: no loss, and as many samples as probes.
AnsweredHopsExact ==
  \A h \in Pos : HopAt(h).sent > 0 /\ owed[h] = 0 /\ Clean(h) =>
    /\ Shown(h)
    /\ latest[h].loss = 0 /\ latest[h].samples = HopAt(h).sent

\* A finished trace has a row for each hop that was probed, and the rows of
\* the silent ones carry their final loss.
EveryProbedHopListed ==
  phase = "done" => \A h \in Pos : states[h] # None /\ HopAt(h).sent > 0 =>
                      /\ Shown(h)
                      /\ HopAt(h).ip = None => latest[h] = ToHop(HopAt(h))
===============================================================================
