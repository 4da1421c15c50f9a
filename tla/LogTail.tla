------------------------------ MODULE LogTail -------------------------------
(***************************************************************************)
(* The request log as one browser tab reads it (internal/web/log.go): the  *)
(* page of handleLogList, its Older link, and the live tail, which is the  *)
(* server-sent events of handleLogStream and the EventSource of            *)
(* static/js/logtail.js.  The log itself is RequestLog, which Recorder     *)
(* implements: batches are stored while the tab reads, and an exchange may *)
(* be stored after a later one, since two handlers, or two instances, do   *)
(* not write in the order of their created_at.                             *)
(*                                                                         *)
(* An exchange is its place in the log, a number standing for its cursor   *)
(* (created_at, id); the zero cursor, which stands for none, is 0.         *)
(***************************************************************************)
EXTENDS Naturals, Sequences, FiniteSets, SequencesExt

CONSTANTS
    MaxExchanges,       \* how many exchanges the log is ever handed
    PageSize,           \* DefaultExchangeLimit
    StreamBatch,        \* streamBatch
    MaxConnections      \* how often one page connects its stream

Exchanges == 1..MaxExchanges

NoCursor == 0

ASSUME MaxExchangesAssumption == MaxExchanges \in Nat
ASSUME PageSizeAssumption == PageSize \in Nat \ {0}
ASSUME StreamBatchAssumption == StreamBatch \in Nat \ {0}
ASSUME MaxConnectionsAssumption == MaxConnections \in Nat \ {0}
-----------------------------------------------------------------------------
VARIABLES
    handedOver, waiting, stored, lostCount,     \* the log
    page,           \* the page in the tab: its rows, and its two cursors
    visible,        \* the rows in the tab, those the tail prepended included
    tail,           \* where the tab's stream is
    cursor,         \* the cursor of the handler serving it
    sent,           \* what that handler has sent, in order
    connections,    \* how often this page has connected
    walked,         \* the rows of the pages walked so far, from the newest on
    present         \* what was stored when that walk began

log == <<handedOver, waiting, stored, lostCount>>

stream == <<tail, cursor, sent, connections>>

tab == <<page, visible, stream, walked, present>>

tailVars == <<log, tab>>

Log == INSTANCE RequestLog

Tails == {"off", "connecting", "open", "refused"}

NoPage == [rows |-> <<>>, newest |-> NoCursor, older |-> NoCursor]
-----------------------------------------------------------------------------
(* The statements: one page newest first, and a poll's rows oldest first.  *)
Ascending(rows) ==
    CHOOSE s \in [1..Cardinality(rows) -> rows] :
        \A i, j \in 1..Cardinality(rows) : i < j => s[i] < s[j]

FirstOf(rows, limit) == SubSeq(rows, 1, IF limit < Len(rows) THEN limit ELSE Len(rows))

ExchangesByProject(before, limit) ==
    FirstOf(Reverse(Ascending({e \in stored : before = NoCursor \/ e < before})), limit)

ExchangesSinceInclusive(after, limit) ==
    IF after = NoCursor THEN <<>>
    ELSE FirstOf(Ascending({e \in stored : e >= after}), limit)

ExchangesSince(after, limit) ==
    IF after = NoCursor THEN <<>>
    ELSE FirstOf(Ascending({e \in stored : e > after}), limit)

LatestExchangeCursor ==
    IF stored = {} THEN NoCursor ELSE ExchangesByProject(NoCursor, 1)[1]

(* handleLogList asks for one row more than the page shows, to know        *)
(* whether there is an older page; that page begins after the last row     *)
(* shown.                                                                  *)
OlderCursorAtNextRow(rows) == rows[PageSize + 1]
OlderCursor(rows) == rows[PageSize]

PageFor(before) ==
    LET rows == ExchangesByProject(before, PageSize + 1)
        more == Len(rows) > PageSize
    IN  [rows   |-> FirstOf(rows, PageSize),
         newest |-> IF rows = <<>> THEN NoCursor ELSE rows[1],
         older  |-> IF more THEN OlderCursor(rows) ELSE NoCursor]

(* A page that has loaded starts its script, which opens the stream.       *)
Load(p) ==
    /\ page' = p
    /\ visible' = ToSet(p.rows)
    /\ tail' = "connecting"
    /\ cursor' = NoCursor
    /\ sent' = <<>>
    /\ connections' = 0

OpenLog ==
    /\ Load(PageFor(NoCursor))
    /\ walked' = page'.rows
    /\ present' = stored
    /\ UNCHANGED log

OpenOlder ==
    /\ page.older # NoCursor
    /\ Load(PageFor(page.older))
    /\ walked' = walked \o page'.rows
    /\ UNCHANGED <<present, log>>

CloseTab ==
    /\ tail # "off"
    /\ page' = NoPage
    /\ visible' = {}
    /\ tail' = "off"
    /\ cursor' = NoCursor
    /\ sent' = <<>>
    /\ connections' = 0
    /\ walked' = <<>>
    /\ present' = {}
    /\ UNCHANGED log
-----------------------------------------------------------------------------
(* handleLogStream begins at the cursor of the URL, which the page fixed,  *)
(* or, when the URL has none, at the end of what is stored.  EventSource   *)
(* reconnects to the same URL.                                             *)
StartOfStream(after) == IF after = NoCursor THEN LatestExchangeCursor ELSE after

Connect ==
    /\ tail = "connecting"
    /\ tail' = "open"
    /\ cursor' = StartOfStream(page.newest)
    /\ sent' = <<>>
    /\ connections' = connections + 1
    /\ UNCHANGED <<page, visible, walked, present, log>>

(* An answer that is not 200 is the end of an EventSource.                 *)
Refused ==
    /\ tail = "connecting"
    /\ tail' = "refused"
    /\ UNCHANGED <<page, visible, cursor, sent, connections, walked, present, log>>

CursorAfter(rows) == Last(rows)

Poll ==
    /\ tail = "open"
    /\ LET rows == ExchangesSince(cursor, StreamBatch)
       IN  /\ rows # <<>>
           /\ sent' = sent \o rows
           /\ visible' = visible \union ToSet(rows)
           /\ cursor' = CursorAfter(rows)
    /\ UNCHANGED <<page, tail, connections, walked, present, log>>

(* The stream's lifetime, a failed poll, a write that finds nobody: the    *)
(* handler returns, and the browser connects again.                        *)
Disconnect ==
    /\ tail = "open"
    /\ connections < MaxConnections
    /\ tail' = "connecting"
    /\ cursor' = NoCursor
    /\ sent' = <<>>
    /\ UNCHANGED <<page, visible, connections, walked, present, log>>
-----------------------------------------------------------------------------
TailInit ==
    /\ Log!Init
    /\ page = NoPage
    /\ visible = {}
    /\ tail = "off"
    /\ cursor = NoCursor
    /\ sent = <<>>
    /\ connections = 0
    /\ walked = <<>>
    /\ present = {}

Record == Log!HandOver /\ UNCHANGED tab

Flush == Log!Settle /\ UNCHANGED tab

TailNext ==
    \/ Record \/ Flush
    \/ OpenLog \/ OpenOlder \/ CloseTab
    \/ Connect \/ Refused \/ Poll \/ Disconnect

TailSpec == TailInit /\ [][TailNext]_tailVars
-----------------------------------------------------------------------------
TailTypeOK ==
    /\ handedOver \in SUBSET Exchanges
    /\ waiting \in SUBSET handedOver
    /\ stored \in SUBSET handedOver
    /\ lostCount \in 0..MaxExchanges
    /\ page.rows \in Seq(Exchanges) /\ Len(page.rows) <= PageSize
    /\ {page.newest, page.older, cursor} \subseteq Exchanges \union {NoCursor}
    /\ visible \in SUBSET Exchanges
    /\ tail \in Tails
    /\ sent \in Seq(Exchanges)
    /\ connections \in 0..MaxConnections
    /\ walked \in Seq(Exchanges)
    /\ present \in SUBSET Exchanges

(* "A log being written to while it is read still returns each exchange    *)
(* exactly once" (DESIGN.md): no page of a walk repeats a row of another,  *)
(* and a walk that reached the last page has shown all that was stored     *)
(* when it began, whatever was stored meanwhile.                           *)
PagingExactlyOnce ==
    /\ IsInjective(walked)
    /\ tail # "off" /\ page.older = NoCursor => present \subseteq ToSet(walked)

(* One connection sends its rows in the order they happened and none       *)
(* twice, though rows are stored behind its cursor while it runs.  Those   *)
(* it never sends: TailMissesNothing.                                      *)
StreamInOrder ==
    /\ \A i, j \in DOMAIN sent : i < j => sent[i] < sent[j]
    /\ page.newest # NoCursor => \A i \in DOMAIN sent : sent[i] > page.newest

(* An exchange counted as lost is one that no longer waits.                *)
CountedAreSettled == lostCount + Cardinality(waiting) <= Cardinality(handedOver)

(* A walk goes down the log, and what it has not shown of what was there   *)
(* when it began lies below the cursor of its Older link.                  *)
WalkGoesDown ==
    /\ present \subseteq stored
    /\ \A i, j \in DOMAIN walked : i < j => walked[i] > walked[j]
    /\ \A i \in DOMAIN walked : walked[i] >= page.older
    /\ \A e \in present : e \in ToSet(walked) \/ e < page.older

(* A stream's cursor is at the last row it sent, or where it began.        *)
CursorLeads ==
    /\ \A i \in DOMAIN sent : sent[i] <= cursor
    /\ tail = "open" => cursor >= page.newest
    /\ tail # "open" => sent = <<>>
    /\ tail = "connecting" => connections < MaxConnections

TailIInv ==
    /\ TailTypeOK /\ PagingExactlyOnce /\ StreamInOrder
    /\ CountedAreSettled /\ WalkGoesDown /\ CursorLeads
-----------------------------------------------------------------------------
(* What the code and its page say, and the code does not do.               *)

(* The stream sends "a rendered row for every exchange recorded after the  *)
(* cursor it started from", and when it ends and is opened again "nothing  *)
(* is missed" (handleLogStream, log.go); a page without a row says "Send a *)
(* request to this project's mock URL and it appears here without a        *)
(* refresh" (log_list.html).  So a stream that finds nothing more to send  *)
(* has nothing left to send: all that is stored beyond the newest row of   *)
(* the page is in the tab.                                                 *)
TailMissesNothing ==
    tail = "open" /\ ExchangesSince(cursor, StreamBatch) = <<>> =>
        \A e \in stored : e > page.newest => e \in visible
=============================================================================
