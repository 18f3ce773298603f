----------------------------- MODULE PinnedFetch -----------------------------
(***************************************************************************)
(* How the server fetches from a host that somebody else names: the card   *)
(* of an agent (server/prooflock/identity/card.ts), with redirects, and    *)
(* the compute provider (compute/safe-https.ts), without.  A host name is  *)
(* resolved for every request and the connection pinned to an address that *)
(* was looked at; a deadline cuts off whatever is under way.               *)
(***************************************************************************)
EXTENDS Naturals, Sequences, FiniteSets

CONSTANTS
    Urls,          \* that validateHttpsUrl accepts
    BadUrl,        \* one that it does not
    Public, Private, \* addresses
    MaxBytes,
    MaxRedirects   \* of the card loader

VARIABLES
    client,     \* "card" or "compute"
    step,       \* the await that the fetch is at
    url, visited,
    addresses,  \* what the name resolved to
    response,   \* its head
    received,   \* bytes of its body
    aborted,    \* the deadline struck
    transport,  \* whether a connection is open, and to what
    opened,     \* history: the connections, with what their name resolved to
    outcome

vars == <<client, step, url, visited, addresses, response, received, aborted, transport, opened, outcome>>

IpAddresses == Public \cup Private
Closed == [open |-> FALSE]
NoResponse == [status |-> "none"]
Lengths == {"absent", "honest", "large"}
Responses ==
    [status : {"ok"}, length : Lengths, json : BOOLEAN]
    \cup [status : {"redirect"}, location : Urls \cup {BadUrl}]
    \cup [status : {"refused", "busy"}]

Init ==
    /\ client \in {"card", "compute"} /\ url \in Urls \cup {BadUrl}
    /\ step = "validate" /\ visited = {} /\ addresses = << >> /\ response = NoResponse /\ received = 0
    /\ aborted = FALSE /\ transport = Closed /\ opened = << >> /\ outcome = "none"

At(s) == step = s /\ UNCHANGED client

\* Whatever the transport says after the first outcome finds its promise settled.
Settle(what) == step' = "settled" /\ outcome' = what /\ transport' = Closed

\* validateHttpsUrl, validateComputeUrl; a URL that was asked already is a loop.
Validate ==
    /\ At("validate")
    /\ IF url = BadUrl \/ url \in visited THEN Settle("rejected") /\ UNCHANGED visited
       ELSE step' = "resolve" /\ visited' = visited \cup {url} /\ UNCHANGED <<outcome, transport>>
    /\ UNCHANGED <<url, addresses, response, received, aborted, opened>>

\* A slip: the first address is looked at, and any may be taken.
SomeAddressIsPublic(answer) == answer # << >> /\ answer[Len(answer)] \in Public

\* Every address that the name stands for, the one that is pinned among them.
AllAddressesPublic(answer) == answer # << >> /\ \A i \in DOMAIN answer : answer[i] \in Public

\* The deadline is looked at behind the answer: a late one opens nothing.
ResolveAddresses(answer) ==
    /\ At("resolve")
    /\ addresses' = answer
    /\ IF aborted THEN Settle("aborted") /\ UNCHANGED opened
       ELSE IF ~AllAddressesPublic(answer) THEN Settle("rejected") /\ UNCHANGED opened
       ELSE /\ step' = "head" /\ transport' = [open |-> TRUE, to |-> answer[1]]
            /\ opened' = Append(opened, [url |-> url, to |-> answer[1]])
            /\ UNCHANGED outcome
    /\ UNCHANGED <<url, visited, response, received, aborted>>

\* The head: a length that is announced too large ends it, a redirect to the compute provider too.
ReceiveHead(head) ==
    /\ At("head")
    /\ response' = head /\ received' = 0
    /\ IF \/ head.status = "ok" /\ head.length = "large"
          \/ head.status = "redirect" /\ client = "compute"
       THEN Settle("rejected") ELSE step' = "body" /\ UNCHANGED <<outcome, transport>>
    /\ UNCHANGED <<url, visited, addresses, aborted, opened>>

\* collectBoundedBody: what arrives is counted, whatever was announced.
CollectBody ==
    /\ At("body")
    /\ received' = received + 1
    /\ IF received' > MaxBytes THEN Settle("rejected") ELSE UNCHANGED <<step, transport, outcome>>
    /\ UNCHANGED <<url, visited, addresses, response, aborted, opened>>

\* The compute client hands any response on; the loader follows it or looks at it.
BodyEnds ==
    /\ At("body")
    /\ IF client = "compute" THEN Settle("delivered") /\ UNCHANGED url
       ELSE IF response.status = "redirect"
       THEN IF response.location \in visited \cup {BadUrl} \/ Cardinality(visited) > MaxRedirects
            THEN Settle("rejected") /\ UNCHANGED url
            ELSE step' = "validate" /\ transport' = Closed /\ url' = response.location /\ UNCHANGED outcome
       ELSE IF response.status = "ok" /\ response.json THEN Settle("delivered") /\ UNCHANGED url
       ELSE Settle(IF response.status = "busy" THEN "retryable" ELSE "rejected") /\ UNCHANGED url
    /\ UNCHANGED <<visited, addresses, response, received, aborted, opened>>

\* The name does not resolve, the host is not there, or hangs up.
FetchFails ==
    /\ step \in {"resolve", "head", "body"} /\ UNCHANGED client
    /\ Settle("retryable")
    /\ UNCHANGED <<url, visited, addresses, response, received, aborted, opened>>

\* The deadline: the card loader's caller has its answer at once, and the transport of either is destroyed.
DeadlineStrikes ==
    /\ ~aborted /\ step # "settled" /\ aborted' = TRUE
    /\ IF client = "card" \/ step \in {"head", "body"} THEN Settle("aborted")
       ELSE UNCHANGED <<step, outcome, transport>>
    /\ UNCHANGED <<client, url, visited, addresses, response, received, opened>>

Answers == UNION {[1..n -> IpAddresses] : n \in 0..2}

Next ==
    \/ Validate \/ CollectBody \/ BodyEnds \/ FetchFails \/ DeadlineStrikes
    \/ \E answer \in Answers : ResolveAddresses(answer)
    \/ \E head \in Responses : ReceiveHead(head)

Spec == Init /\ [][Next]_vars

-----------------------------------------------------------------------------
(* Properties *)

\* Through redirects, names that resolve differently each time, lengths that are not what
\* they say and a deadline between any two of these, a fetch stays what it may be: it
\* connects to public addresses only, asks no URL twice and no more than the redirects
\* allow, delivers no more bytes than it may, and behind its outcome nothing stays open
\* (card.ts:112-193, safe-https.ts:73-150).
FetchStaysInBounds ==
    /\ \A i \in DOMAIN opened : opened[i].to \in Public
    /\ \A i, j \in DOMAIN opened : i # j => opened[i].url # opened[j].url
    /\ Len(opened) <= 1 + (IF client = "card" THEN MaxRedirects ELSE 0)
    /\ outcome = "delivered" =>
         /\ received <= MaxBytes /\ ~aborted
         /\ client = "card" => response.status = "ok" /\ response.json
    /\ step = "settled" <=> outcome # "none"
    /\ transport.open => step \in {"head", "body"} /\ ~aborted
=============================================================================
