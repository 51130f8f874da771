------------------------------ MODULE TracePane -------------------------------
(***************************************************************************)
(* The traceroute card of the home page: static/app.js probes both stacks, *)
(* wires one tab per usable stack and streams a trace into its pane.       *)
(*                                                                         *)
(* The script is single-threaded: an action is one callback.  The browser, *)
(* the network and the server are external.  EventSource delivers its      *)
(* events in order and none after close(); when a connection ends it goes  *)
(* back to connecting and, after a pause, asks again, unless it was closed.*)
(* An answer of the server to one request is hop rows, then done or error, *)
(* cut off anywhere; its status line only rewords the one of "open".       *)
(***************************************************************************)
EXTENDS Naturals, Sequences

CONSTANTS
  Unknown,      \* no current stack: data-protocol is empty
  Hop,          \* hop numbers
  MaxRequests,  \* bound: requests of each pane
  MaxRows,      \* bound: rows sent to each pane
  MaxQueue      \* bound: events of one EventSource waiting for the script

Stack == {"ipv4", "ipv6"}

ASSUME PaneAssumption ==
  /\ MaxRequests \in [Stack -> Nat \ {0}]
  /\ MaxRows \in [Stack -> Nat]
  /\ MaxQueue \in Nat \ {0}
  /\ Unknown \notin Stack

VARIABLES
  current, local,  \* the visitor's stack; the page is on localhost
  page,            \* where DOMContentLoaded's coroutine is
  unprobed,        \* stacks detectDualStack has yet to ask
  found,           \* stacks whose data-ds cell shows an address
  tabs, checked,   \* offered stacks; the selected one
  ready,           \* readyState; "none" while sources[stack] is unset
  opened, timer,   \* of wireTraceroutePane
  message, pulse,  \* what the pane's status line says; is-running
  rows,            \* per hop: the row on the screen, 0 for none
  net,             \* the server's side of the pane's connection
  queue,           \* EventSource events not yet delivered
  reqs, sent,      \* requests and rows so far
  last             \* history: per hop, the last row the current answer sent

pageVars == <<current, local, page, unprobed, found, tabs>>
shown == <<message, pulse, rows>>
paneVars == <<checked, ready, opened, timer, shown, net, queue, reqs, sent, last>>
vars == <<pageVars, paneVars>>

Event(s) == [ev : {"open", "done", "error", "end", "fail"}]
              \union [ev : {"hop"}, hop : Hop, row : 1..MaxRows[s]]

TypeOK ==
  /\ current \in Stack \union {Unknown} /\ local \in BOOLEAN
  /\ page \in {"probing", "enriching", "waiting", "wired", "unavailable"}
  /\ unprobed \in SUBSET Stack /\ found \in SUBSET Stack /\ tabs \in SUBSET Stack
  /\ checked \in tabs \union {Unknown}
  /\ ready \in [Stack -> {"none", "connecting", "open", "closed"}]
  /\ opened \in [Stack -> BOOLEAN]
  /\ timer \in [Stack -> {"off", "armed", "over"}]
  /\ message \in [Stack -> {"connecting", "opened", "done", "error", "noresponse"}]
  /\ pulse \in [Stack -> BOOLEAN]
  /\ net \in [Stack -> {"none", "dialing", "flowing", "answered", "over", "pausing"}]
  /\ {reqs, sent} \subseteq [Stack -> Nat] /\ {rows, last} \subseteq [Stack -> [Hop -> Nat]]
  /\ \A s \in Stack :
       /\ queue[s] \in Seq(Event(s)) /\ Len(queue[s]) <= MaxQueue
       /\ reqs[s] <= MaxRequests[s] /\ sent[s] <= MaxRows[s]
       /\ \A h \in Hop : rows[s][h] <= sent[s] /\ last[s][h] <= sent[s]

Set(f, s, value) == [f EXCEPT ![s] = value]
NoRows == [h \in Hop |-> 0]

-------------------------------------------------------------------------------
(* From DOMContentLoaded to the tabs.                                      *)

\* detectDualStack asks the stacks in turn; a failed probe leaves its cell as
\* it was, and there is a cell only for the stack the page did not come by.
Probe(s, answered) ==
  /\ s \in unprobed
  /\ s = "ipv6" => "ipv4" \notin unprobed
  /\ unprobed' = unprobed \ {s}
  /\ found' = IF answered /\ s # current THEN found \union {s} ELSE found
  /\ UNCHANGED <<current, local, page, tabs, paneVars>>

\* Mutant of Detected: the wiring does not wait for the probes.
DetectedEarly ==
  /\ page = "probing"
  /\ page' = "enriching"
  /\ UNCHANGED <<current, local, unprobed, found, tabs, paneVars>>

\* await detectDualStack()
Detected ==
  /\ page = "probing" /\ unprobed = {}
  /\ page' = "enriching"
  /\ UNCHANGED <<current, local, unprobed, found, tabs, paneVars>>

\* await enrichDualStackInfo(), then the timer of 1.2 s.
Enriched ==
  /\ page = "enriching"
  /\ page' = "waiting"
  /\ UNCHANGED <<current, local, unprobed, found, tabs, paneVars>>

\* Stacks a trace can be had for, the visitor's own first.
Usable == {s \in Stack : local \/ s = current \/ s \in found}
FirstOf(stacks) == IF current \in stacks THEN current
                   ELSE IF "ipv4" \in stacks THEN "ipv4" ELSE "ipv6"

\* new EventSource(url), and the 5 s timer of the pane.
WirePane(s) ==
  /\ ready' = Set(ready, s, "connecting")
  /\ opened' = Set(opened, s, FALSE)
  /\ timer' = Set(timer, s, "armed")
  /\ pulse' = Set(pulse, s, TRUE)
  /\ net' = Set(net, s, "dialing")
  /\ reqs' = Set(reqs, s, reqs[s] + 1)
  /\ last' = Set(last, s, NoRows)
  /\ UNCHANGED <<message, rows, queue, sent>>

\* Mutant of StartStack: a pane that is shown again is wired again.
StartStackAgain(s) ==
  /\ checked' = s
  /\ reqs[s] < MaxRequests[s]
  /\ WirePane(s)

\* A stack that has a source keeps it, dead or alive.
StartStack(s) ==
  /\ checked' = s
  /\ \/ ready[s] = "none" /\ WirePane(s)
     \/ /\ ready[s] # "none"
        /\ UNCHANGED <<ready, opened, timer, shown, net, queue, reqs, sent, last>>

\* Mutant of WireTabs: the first stack is started whether there is one or not.
WireTabsUnchecked ==
  /\ page = "waiting"
  /\ tabs' = Usable
  /\ page' = "wired"
  /\ StartStack(FirstOf(Usable))
  /\ UNCHANGED <<current, local, unprobed, found>>

\* wireTracerouteTabs offers the usable stacks and starts the first.
WireTabs ==
  /\ page = "waiting"
  /\ tabs' = Usable
  /\ \/ /\ Usable # {}
        /\ page' = "wired"
        /\ StartStack(FirstOf(Usable))
     \/ /\ Usable = {}
        /\ page' = "unavailable"
        /\ UNCHANGED paneVars
  /\ UNCHANGED <<current, local, unprobed, found>>

\* The visitor picks another tab; the hidden pane goes on.
SelectTab(s) ==
  /\ page = "wired" /\ s \in tabs \ {checked}
  /\ StartStack(s)
  /\ UNCHANGED pageVars

-------------------------------------------------------------------------------
(* The event handlers of a pane.                                           *)

\* source.close(): no more events, no more requests.
Close(s) ==
  /\ ready' = Set(ready, s, "closed")
  /\ net' = Set(net, s, "none")
  /\ queue' = Set(queue, s, <<>>)

Takes(s, ev) == queue[s] # <<>> /\ Head(queue[s]).ev = ev
Pop(s) == queue' = Set(queue, s, Tail(queue[s]))

OnOpen(s) ==
  /\ Takes(s, "open") /\ Pop(s)
  /\ ready' = Set(ready, s, "open")
  /\ opened' = Set(opened, s, TRUE)
  /\ message' = Set(message, s, "opened")
  /\ UNCHANGED <<checked, timer, pulse, rows, net, reqs, sent, last>>

\* Mutant of SwapHop: a row that is already there stays.
SwapHopKeeps(s, h, row) ==
  rows' = [rows EXCEPT ![s][h] = IF rows[s][h] = 0 THEN row ELSE rows[s][h]]

\* The row replaces the one with its id, whichever request that came from.
SwapHop(s, h, row) == rows' = [rows EXCEPT ![s][h] = row]

OnHop(s) ==
  /\ Takes(s, "hop") /\ Pop(s)
  /\ SwapHop(s, Head(queue[s]).hop, Head(queue[s]).row)
  /\ UNCHANGED <<checked, ready, opened, timer, message, pulse, net, reqs, sent, last>>

\* Mutant of OnDone: the source stays open.
OnDoneStaysOpen(s) ==
  /\ Takes(s, "done") /\ Pop(s)
  /\ message' = Set(message, s, "done")
  /\ pulse' = Set(pulse, s, FALSE)
  /\ UNCHANGED <<checked, ready, opened, timer, rows, net, reqs, sent, last>>

OnDone(s) ==
  /\ Takes(s, "done")
  /\ message' = Set(message, s, "done")
  /\ pulse' = Set(pulse, s, FALSE)
  /\ Close(s)
  /\ UNCHANGED <<checked, opened, timer, rows, reqs, sent, last>>

\* An error of the server is shown and the source stays open, so the same trace
\* is asked for again when the connection ends.
OnError(s) ==
  /\ Takes(s, "error") /\ Pop(s)
  /\ message' = Set(message, s, "error")
  /\ pulse' = Set(pulse, s, FALSE)
  /\ UNCHANGED <<checked, ready, opened, timer, rows, net, reqs, sent, last>>

\* The browser's own error events carry no data and show nothing: it either
\* tries again after a pause or has given up.
OnConnectionError(s) ==
  \/ /\ Takes(s, "end") /\ Pop(s)
     /\ ready' = Set(ready, s, "connecting")
     /\ net' = Set(net, s, "pausing")
     /\ UNCHANGED <<checked, opened, timer, shown, reqs, sent, last>>
  \/ /\ Takes(s, "fail") /\ Close(s)
     /\ UNCHANGED <<checked, opened, timer, shown, reqs, sent, last>>

\* Mutant of GiveUp: a source that the browser has closed is left alone.
GiveUpConnecting(s) ==
  /\ timer[s] = "armed"
  /\ timer' = Set(timer, s, "over")
  /\ IF opened[s] \/ ready[s] = "closed" THEN UNCHANGED <<ready, message, pulse, net, queue>>
     ELSE /\ message' = Set(message, s, "noresponse")
          /\ pulse' = Set(pulse, s, FALSE)
          /\ Close(s)
  /\ UNCHANGED <<checked, opened, rows, reqs, sent, last>>

\* The timer: a source that has not opened by now is closed.
GiveUp(s) ==
  /\ timer[s] = "armed"
  /\ timer' = Set(timer, s, "over")
  /\ \/ opened[s] /\ UNCHANGED <<ready, message, pulse, net, queue>>
     \/ /\ ~opened[s]
        /\ message' = Set(message, s, "noresponse")
        /\ pulse' = Set(pulse, s, FALSE)
        /\ Close(s)
  /\ UNCHANGED <<checked, opened, rows, reqs, sent, last>>

-------------------------------------------------------------------------------
(* The browser, the network and the server.                                *)

Push(s, event) == /\ Len(queue[s]) < MaxQueue
                  /\ queue' = Set(queue, s, Append(queue[s], event))

Server(s) == UNCHANGED <<pageVars, checked, ready, opened, timer, shown, reqs>>

\* The stream is accepted, refused for good, or lost on the way.
Accept(s) ==
  /\ net[s] = "dialing"
  /\ \/ net' = Set(net, s, "flowing") /\ Push(s, [ev |-> "open"])
     \/ \E ev \in {"end", "fail"} : net' = Set(net, s, "over") /\ Push(s, [ev |-> ev])
  /\ Server(s) /\ UNCHANGED <<sent, last>>

SendHop(s, h) ==
  /\ net[s] = "flowing" /\ sent[s] < MaxRows[s]
  /\ sent' = Set(sent, s, sent[s] + 1)
  /\ last' = [last EXCEPT ![s][h] = sent[s] + 1]
  /\ Push(s, [ev |-> "hop", hop |-> h, row |-> sent[s] + 1])
  /\ Server(s) /\ UNCHANGED net

Finish(s) ==
  /\ net[s] = "flowing"
  /\ net' = Set(net, s, "answered")
  /\ \E ev \in {"done", "error"} : Push(s, [ev |-> ev])
  /\ Server(s) /\ UNCHANGED <<sent, last>>

\* The response ends, or is cut off.
Hangup(s) ==
  /\ net[s] \in {"flowing", "answered"}
  /\ net' = Set(net, s, "over")
  /\ Push(s, [ev |-> "end"])
  /\ Server(s) /\ UNCHANGED <<sent, last>>

\* The browser's reconnection time is over.
Reconnect(s) ==
  /\ net[s] = "pausing" /\ reqs[s] < MaxRequests[s]
  /\ net' = Set(net, s, "dialing")
  /\ reqs' = Set(reqs, s, reqs[s] + 1)
  /\ last' = Set(last, s, NoRows)
  /\ UNCHANGED <<pageVars, checked, ready, opened, timer, shown, queue, sent>>

-------------------------------------------------------------------------------

Init ==
  /\ current \in Stack \union {Unknown} /\ local \in BOOLEAN
  /\ page = "probing"
  /\ unprobed = (IF local THEN {} ELSE Stack)
  /\ found = {} /\ tabs = {} /\ checked = Unknown
  /\ ready = [s \in Stack |-> "none"]
  /\ opened = [s \in Stack |-> FALSE]
  /\ timer = [s \in Stack |-> "off"]
  /\ message = [s \in Stack |-> "connecting"]
  /\ pulse = [s \in Stack |-> FALSE]
  /\ rows = [s \in Stack |-> NoRows]
  /\ net = [s \in Stack |-> "none"]
  /\ queue = [s \in Stack |-> <<>>]
  /\ reqs = [s \in Stack |-> 0]
  /\ sent = [s \in Stack |-> 0]
  /\ last = [s \in Stack |-> NoRows]

Loading == \/ \E s \in Stack, answered \in BOOLEAN : Probe(s, answered)
           \/ Detected \/ Enriched \/ WireTabs

Handle(s) ==
  /\ OnOpen(s) \/ OnHop(s) \/ OnDone(s) \/ OnError(s) \/ OnConnectionError(s)
  /\ UNCHANGED pageVars

TimeOut(s) == GiveUp(s) /\ UNCHANGED pageVars

Next ==
  \/ Loading
  \/ \E s \in Stack :
       \/ SelectTab(s) \/ Handle(s) \/ TimeOut(s)
       \/ Accept(s) \/ Finish(s) \/ Hangup(s) \/ Reconnect(s)
       \/ \E h \in Hop : SendHop(s, h)

\* Timers fire.  Nobody has to answer, not even to fail.
Fairness == \A s \in Stack : WF_vars(TimeOut(s))

Spec == Init /\ [][Next]_vars /\ Fairness

-------------------------------------------------------------------------------
(* Properties.                                                             *)

\* A pane has one request under way at most: a tab that is left and picked
\* again does not ask beside a stream that runs, opens or waits to reconnect.
OneAtATime == [][\A s \in Stack : reqs'[s] > reqs[s] => net[s] \in {"none", "pausing"}
                                                        /\ ready[s] # "closed"]_vars

\* What is over stays over: after "done", or after the pane has given up, no
\* answer that was under way changes it and no reconnection asks again.
SettledForGood ==
  [][\A s \in Stack : message[s] \in {"done", "noresponse"} =>
       /\ message'[s] = message[s] /\ pulse'[s] = pulse[s]
       /\ rows'[s] = rows[s] /\ reqs'[s] = reqs[s]]_vars

\* A finished pane shows, for every hop of the answer that finished it, that
\* answer's last row, whatever earlier answers left on the screen.
DoneShowsTrace ==
  \A s \in Stack : message[s] = "done" =>
    \A h \in Hop : last[s][h] # 0 => rows[s][h] = last[s][h]

\* The tabs are wired once and for all: no probe finds its stack afterwards.
ProbedStacksOffered == page = "wired" => found \subseteq tabs

\* static/app.js:801-803: a pane does not stay "stuck on 'Connecting...'",
\* whether the server is silent, refuses, or drops each attempt.
ConnectingMovesOn ==
  \A s \in Stack : ready[s] # "none" /\ message[s] = "connecting" ~> message[s] # "connecting"
===============================================================================
