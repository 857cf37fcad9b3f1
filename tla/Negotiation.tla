---------------------------- MODULE Negotiation ----------------------------
(* The negotiation of capabilities between two peers (Transport/negotiation.c,
   registry.c, reco_engine.cpp, KT_Configuration::negotiation).

   A context (neg_ctx_t) is a program's view: its own capabilities, in the order
   in which they were set, what others told it, the decisions it has made and
   the ones it has taken over.  A program offers its capabilities to a peer with
   PUT; the peer decides and answers with its decisions.  When PUT is refused
   the program asks with GET for the peer's capabilities and decides itself.
   A peer is another context that serves, or a web site that has a file of
   capabilities and refuses PUT.

   A document is the set of the entries of a JSON object: group, type and value;
   a group stands for the first two parts of a key ("network.transport-port").
   A body that is not JSON is the empty document, as json_loads makes of it.

   neg_negotiate is a loop over the local capabilities, one step for each, so
   that what it has decided half way can be stated.                           *)
EXTENDS Integers, Sequences, FiniteSets

CONSTANTS Ctx,        \* the contexts, one for each program
          Server,     \* those whose program may serve
          Site,       \* web sites that know nothing of PUT
          SiteDocs,   \* what such a site may answer to GET
          Capability, \* the capabilities a program may set
          Profile,    \* the sequences of capabilities a program sets in a row
          Any,        \* the type "*"
          Number,     \* the values that atoi() finds positive
          None,
          MaxCaps,    \* bound: capabilities of one context
          MaxOffers   \* bound: offers made by one context

ASSUME BoundsAssumption == MaxCaps \in Nat /\ MaxOffers \in Nat
ASSUME NoneAssumption == None \notin Ctx
ASSUME ProfileAssumption == Profile \subseteq Seq(Capability)

VARIABLES hash,       \* hash: the local capabilities, in the order they were set
          sub,        \* dict_collection: what the peers offered, under one identifier
          decided,    \* root_response: the document of decisions
          final,      \* final_capabilities: pairs of a group and a type
          clientNego, \* client_nego: this side decides
          endpoint,   \* kiara_endpoint: FALSE when the last offer found no peer
          pc,         \* where the program is
          peer,       \* the peer of the offer under way
          response,   \* the document the program got for its offer
          work,       \* the locals of neg_negotiate while it runs for a context
          config,     \* the transport, port, ... of KT_Configuration
          offers,     \* the number of offers made (bound)
          heard,      \* history: what a context was told, and by whom
          fromPeer    \* history: who decided what is final: <<peer, those it had heard>>

vars == <<hash, sub, decided, final, clientNego, endpoint, pc, peer, response,
          work, config, offers, heard, fromPeer>>
-----------------------------------------------------------------------------
Entries(doc) == {[group |-> e.group, type |-> e.type] : e \in doc}
OwnEntries(s) == Entries({s[i] : i \in DOMAIN s})

\* _prec_to_int: a value it does not know counts as MUST
PrecToInt(value) == CASE value = "MUST"       -> 4
                      [] value = "SHOULD"     -> 3
                      [] value = "SHOULD NOT" -> 2
                      [] value = "MUST NOT"   -> 1
                      [] value = "NONE"       -> 0
                      [] OTHER                -> 4

\* neg_value for what this side says, l, and what the other side says, r
Weigh(l, r) == PrecToInt(l) * PrecToInt(r) + (PrecToInt(l) - PrecToInt(r))

\* reg_get_local_capability_json: json_object_update() does not change a string
\* that is there, so the first value that was set for a key is the one told
Document(s) == {s[i] : i \in {j \in DOMAIN s :
                 \A k \in 1..j-1 : s[k].group # s[j].group \/ s[k].type # s[j].type}}

\* The type a decision names: for "*" the number this side asks for, or else the
\* value of the other side
TypeOf(l, r) == IF l.type # Any THEN l.type
                ELSE IF l.value \in Number THEN l.value ELSE r.value

Groups == {e.group : e \in Capability}
NoDecision == [g \in Groups |-> None]

\* reg_set_remote_capability and reg_get_remote_dict.  The dictionary keeps a
\* pointer into a temporary string as its key: with a library that shares the
\* characters of a copied string the next look-up finds it, with another the
\* memory has been used again and the look-up makes a new dictionary.
Told(c, doc) == {sub[c] \cup doc, doc}
FoundAgain(c) == {sub'[c], {}}

\* The answer of neg_negotiate with the decisions of its loop
Decisions(w) == {[group |-> g, type |-> w.dec[g].type, value |-> "1"] :
                   g \in {h \in Groups : w.dec[h] # None}}
-----------------------------------------------------------------------------
Init == /\ hash = [c \in Ctx |-> <<>>]
        /\ sub = [c \in Ctx |-> {}]
        /\ decided = [c \in Ctx |-> {}]
        /\ final = [c \in Ctx |-> {}]
        /\ clientNego = [c \in Ctx |-> FALSE]
        /\ endpoint = [c \in Ctx |-> TRUE]
        /\ pc = [c \in Ctx |-> "idle"]
        /\ peer = [c \in Ctx |-> None]
        /\ response = [c \in Ctx |-> {}]
        /\ work = [c \in Ctx |-> None]
        /\ config = [c \in Ctx |-> {}]
        /\ offers = [c \in Ctx |-> 0]
        /\ heard = [c \in Ctx |-> {}]
        /\ fromPeer = [c \in Ctx |-> {}]

\* neg_set_local_capability, for one capability or a whole profile
\* (neg_set_local_profile): a key is added whether it is there or not
SetLocalCapabilities(c, caps) ==
  /\ pc[c] = "idle" /\ Len(hash[c]) + Len(caps) <= MaxCaps
  /\ hash' = [hash EXCEPT ![c] = @ \o caps]
  /\ UNCHANGED <<sub, decided, final, clientNego, endpoint, pc, peer, response,
                 work, config, offers, heard, fromPeer>>

\* neg_run_server, RecoServer::RunServer: the socket is bound and the poller runs
\* before the session gets the context
RunServer(c) ==
  /\ c \in Server /\ pc[c] = "idle"
  /\ pc' = [pc EXCEPT ![c] = "bound"]
  /\ UNCHANGED <<hash, sub, decided, final, clientNego, endpoint, peer, response,
                 work, config, offers, heard, fromPeer>>

SetUserData(c) ==
  /\ pc[c] = "bound"
  /\ pc' = [pc EXCEPT ![c] = "serving"]
  /\ UNCHANGED <<hash, sub, decided, final, clientNego, endpoint, peer, response,
                 work, config, offers, heard, fromPeer>>
-----------------------------------------------------------------------------
\* neg_send_offer: nobody listens at the peer's address
NoEndpoint(c, p) ==
  /\ pc[c] = "idle" /\ offers[c] < MaxOffers
  /\ p \in Ctx => pc[p] \notin {"bound", "serving"}
  /\ endpoint' = [endpoint EXCEPT ![c] = FALSE]
  /\ response' = [response EXCEPT ![c] = {}]
  /\ offers' = [offers EXCEPT ![c] = @ + 1]
  /\ UNCHANGED <<hash, sub, decided, final, clientNego, pc, peer, work, config,
                 heard, fromPeer>>

\* neg_send_offer, RecoClient: the offer goes to the peer with PUT
SendOffer(c, p) ==
  /\ pc[c] = "idle" /\ offers[c] < MaxOffers /\ p # c
  /\ p \in Ctx => pc[p] \in {"bound", "serving"}
  /\ pc' = [pc EXCEPT ![c] = "put"]
  /\ peer' = [peer EXCEPT ![c] = p]
  /\ offers' = [offers EXCEPT ![c] = @ + 1]
  /\ UNCHANGED <<hash, sub, decided, final, clientNego, endpoint, response, work,
                 config, heard, fromPeer>>

\* Mutant: a refused offer leaves the decision to the peer
RefusedAsBefore(c) ==
  /\ pc' = [pc EXCEPT ![c] = "get"]
  /\ UNCHANGED <<hash, sub, decided, final, clientNego, endpoint, peer, response,
                 work, config, offers, heard, fromPeer>>

\* RecoClient: a status outside 200 to 300 makes this side the one that decides;
\* it asks with GET
Refused(c) ==
  /\ pc' = [pc EXCEPT ![c] = "get"]
  /\ clientNego' = [clientNego EXCEPT ![c] = TRUE]
  /\ UNCHANGED <<hash, sub, decided, final, endpoint, peer, response, work, config,
                 offers, heard, fromPeer>>

\* RecoClient: the body of the answer is the response
Answered(c, doc) ==
  /\ pc' = [pc EXCEPT ![c] = "apply"]
  /\ response' = [response EXCEPT ![c] = doc]
  /\ fromPeer' = [fromPeer EXCEPT ![c] = @ \cup
       {<<peer[c], IF peer[c] \in Ctx THEN {h[1] : h \in heard[peer[c]]} ELSE {}>>}]
  /\ UNCHANGED <<hash, final, clientNego, endpoint, peer, config, offers>>

\* A web site: PUT is refused, GET yields its file
SiteRefuses(c) == pc[c] = "put" /\ peer[c] \in Site /\ Refused(c)
SiteAnswers(c) ==
  /\ pc[c] = "get" /\ peer[c] \in Site
  /\ \E doc \in SiteDocs : Answered(c, doc)
  /\ UNCHANGED <<sub, decided, work, heard>>
-----------------------------------------------------------------------------
\* callback_handler_reco before the session has its context: the null context is
\* used and the process ends
HandleUnready(s, c) ==
  /\ pc[s] = "bound" /\ peer[c] = s /\ pc[c] \in {"put", "get"}
  /\ pc' = [pc EXCEPT ![s] = "crashed"]
  /\ UNCHANGED <<hash, sub, decided, final, clientNego, endpoint, peer, response,
                 work, config, offers, heard, fromPeer>>

\* callback_handler_reco: GET, and PUT when this context has itself been refused
HandleGet(s, c) ==
  /\ pc[s] = "serving" /\ work[s] = None /\ peer[c] = s /\ pc[c] = "get"
  /\ Answered(c, Document(hash[s]))
  /\ UNCHANGED <<sub, decided, work, heard>>

HandleRefuse(s, c) ==
  /\ pc[s] = "serving" /\ work[s] = None /\ peer[c] = s /\ pc[c] = "put"
  /\ clientNego[s]
  /\ Refused(c)

\* callback_handler_reco: PUT, up to the loop of neg_negotiate
HandlePut(s, c) ==
  /\ pc[s] = "serving" /\ work[s] = None /\ peer[c] = s /\ pc[c] = "put"
  /\ ~clientNego[s]
  /\ \E told \in Told(s, Document(hash[c])) : sub' = [sub EXCEPT ![s] = told]
  /\ \E rem \in FoundAgain(s) :
       work' = [work EXCEPT ![s] = [for |-> c, i |-> 1, rem |-> rem, dec |-> NoDecision]]
  /\ heard' = [heard EXCEPT ![s] = @ \cup {<<c, e>> : e \in Document(hash[c])}]
  /\ UNCHANGED <<hash, decided, final, clientNego, endpoint, pc, peer, response,
                 config, offers, fromPeer>>

\* Mutant: a later capability replaces the decision of its group
BetterThanFirst(d, w) == w > 0

\* neg_negotiate: does neg_value replace what the group has?  The inner loop
\* removes a smaller decision and sets neg_value to 0 behind a larger one.
Better(d, w) == w > 0 /\ (d = None \/ w > d.weight)

\* neg_negotiate: one pass of the loop over hash
Consider(s) ==
  /\ work[s] # None /\ work[s].i <= Len(hash[s])
  /\ LET l == hash[s][work[s].i]
         matches == {r \in work[s].rem : r.group = l.group /\ r.type = l.type}
     IN  IF matches = {}
           THEN work' = [work EXCEPT ![s].i = @ + 1]
           ELSE \E r \in matches :
                  LET w == Weigh(l.value, r.value)
                      d == work[s].dec[l.group]
                  IN  work' = [work EXCEPT ![s].i = @ + 1,
                         ![s].dec[l.group] = IF Better(d, w)
                                             THEN [type |-> TypeOf(l, r), weight |-> w]
                                             ELSE d]
  /\ UNCHANGED <<hash, sub, decided, final, clientNego, endpoint, pc, peer, response,
                 config, offers, heard, fromPeer>>

\* Mutant: the document of decisions is made anew
DecidedAnew(s) == Decisions(work[s])

\* neg_negotiate: the decisions are added to root_response, whose older entries stay
DecidedAfter(s) == decided[s] \cup Decisions(work[s])

\* The end of neg_negotiate in a server's callback: its document is the answer
HandlePutEnd(s) ==
  /\ work[s] # None /\ work[s].i > Len(hash[s]) /\ work[s].for # s
  /\ decided' = [decided EXCEPT ![s] = DecidedAfter(s)]
  /\ work' = [work EXCEPT ![s] = None]
  /\ Answered(work[s].for, DecidedAfter(s))
  /\ UNCHANGED <<sub, heard>>

\* reg_set_final_capabilities: one entry more for each group and type
Finally(c, doc) == final' = [final EXCEPT ![c] = @ \cup Entries(doc)]

\* The program takes over what the peer decided (neg_set_final_capabilities) ...
SetFinal(c) ==
  /\ pc[c] = "apply" /\ ~clientNego[c]
  /\ Finally(c, response[c])
  /\ pc' = [pc EXCEPT ![c] = "idle"]
  /\ peer' = [peer EXCEPT ![c] = None]
  /\ UNCHANGED <<hash, sub, decided, clientNego, endpoint, response, work, config,
                 offers, heard, fromPeer>>

\* ... or decides with what it was told (neg_negotiate_remote)
NegotiateRemote(c) ==
  /\ pc[c] = "apply" /\ clientNego[c]
  /\ \E told \in Told(c, response[c]) :
       /\ sub' = [sub EXCEPT ![c] = told]
       /\ work' = [work EXCEPT ![c] = [for |-> c, i |-> 1, rem |-> told, dec |-> NoDecision]]
  /\ heard' = [heard EXCEPT ![c] = @ \cup {<<peer[c], e>> : e \in response[c]}]
  /\ pc' = [pc EXCEPT ![c] = "deciding"]
  /\ UNCHANGED <<hash, decided, final, clientNego, endpoint, peer, response, config,
                 offers, fromPeer>>

NegotiateRemoteEnd(c) ==
  /\ pc[c] = "deciding" /\ work[c].i > Len(hash[c])
  /\ decided' = [decided EXCEPT ![c] = DecidedAfter(c)]
  /\ work' = [work EXCEPT ![c] = None]
  /\ Finally(c, DecidedAfter(c))
  /\ pc' = [pc EXCEPT ![c] = "idle"]
  /\ peer' = [peer EXCEPT ![c] = None]
  /\ UNCHANGED <<hash, sub, clientNego, endpoint, response, config, offers, heard,
                 fromPeer>>
-----------------------------------------------------------------------------
\* neg_get_best_local_capability: the first of those with the highest value
BestLocal(c, g) ==
  CHOOSE i \in DOMAIN hash[c] :
    /\ hash[c][i].group = g
    /\ \A j \in DOMAIN hash[c] : hash[c][j].group = g =>
         \/ PrecToInt(hash[c][j].value) < PrecToInt(hash[c][i].value)
         \/ PrecToInt(hash[c][j].value) = PrecToInt(hash[c][i].value) /\ i <= j

\* KT_Configuration::negotiation, one group: a final capability (of several the
\* hash table finds one), or else the best of this side
Settings(c, g) ==
  IF \E e \in final[c] : e.group = g
    THEN {e.type : e \in {f \in final[c] : f.group = g}}
    ELSE {hash[c][BestLocal(c, g)].type}

\* The program sets up its connection, which ends its part here.  A group of which
\* it knows nothing leaves it with a null string: it does not get further.
Configure(c) ==
  /\ pc[c] = "idle"
  /\ \A g \in Groups : \E e \in final[c] \cup OwnEntries(hash[c]) : e.group = g
  /\ \E f \in [Groups -> UNION {Settings(c, g) : g \in Groups}] :
       /\ \A g \in Groups : f[g] \in Settings(c, g)
       /\ config' = [config EXCEPT ![c] = {[group |-> g, type |-> f[g]] : g \in Groups}]
  /\ pc' = [pc EXCEPT ![c] = "configured"]
  /\ UNCHANGED <<hash, sub, decided, final, clientNego, endpoint, peer, response,
                 work, offers, heard, fromPeer>>
-----------------------------------------------------------------------------
Handle(s) == \/ \E c \in Ctx : \/ HandleUnready(s, c) \/ HandleGet(s, c)
                               \/ HandleRefuse(s, c) \/ HandlePut(s, c)
             \/ Consider(s) \/ HandlePutEnd(s)

Offer(c) == \/ \E p \in Ctx \cup Site : NoEndpoint(c, p) \/ SendOffer(c, p)
            \/ SiteRefuses(c) \/ SiteAnswers(c)
            \/ SetFinal(c) \/ NegotiateRemote(c) \/ NegotiateRemoteEnd(c)

Next == \E c \in Ctx : \/ \E caps \in Profile : SetLocalCapabilities(c, caps)
                       \/ RunServer(c) \/ SetUserData(c) \/ Handle(c)
                       \/ Offer(c) \/ Configure(c)

Spec == Init /\ [][Next]_vars
-----------------------------------------------------------------------------
\* What a document may tell, and what neg_negotiate may make of it
Values == {e.value : e \in Capability \cup UNION SiteDocs} \cup {"1"}
Types == {e.type : e \in Capability} \cup Values
Offered == Capability \cup (UNION SiteDocs)
           \cup [group : Groups, type : Types, value : {"1"}]
Decision == [type : Types, weight : Int]
Work == [for : Ctx, i : Nat \ {0}, rem : SUBSET Offered,
         dec : [Groups -> Decision \cup {None}]]

\* None is not a decision, and a web site is not a program of the model
ASSUME DecisionAssumption == None \notin Decision /\ None \notin Work
ASSUME SiteAssumption == Ctx \cap Site = {}

\* The types of the variables
TypeOK ==
  /\ hash \in [Ctx -> Seq(Capability)]
  /\ sub \in [Ctx -> SUBSET Offered] /\ decided \in [Ctx -> SUBSET Offered]
  /\ response \in [Ctx -> SUBSET Offered] /\ work \in [Ctx -> Work \cup {None}]
  /\ heard \in [Ctx -> SUBSET ((Ctx \cup Site) \X Offered)]
  /\ DOMAIN final = Ctx /\ DOMAIN fromPeer = Ctx
  /\ clientNego \in [Ctx -> BOOLEAN] /\ endpoint \in [Ctx -> BOOLEAN]
  /\ pc \in [Ctx -> {"idle", "bound", "serving", "crashed", "put", "get", "apply", "deciding", "configured"}]
  /\ peer \in [Ctx -> Ctx \cup Site \cup {None}]
  /\ offers \in [Ctx -> 0..MaxOffers]

\* What neg_negotiate has decided so far is a pair of its inputs, and no pair it
\* has considered weighs more: the nested loop over the decisions of a group
\* (negotiation.c:200-235) finds the best.  A key the other side told twice is
\* left out: the hash table finds either.
BestDecision ==
  \A c \in Ctx : work[c] # None =>
    LET seen == {hash[c][i] : i \in 1..work[c].i - 1}
        pairs == {p \in seen \X work[c].rem :
                    p[1].group = p[2].group /\ p[1].type = p[2].type}
    IN  \A g \in Groups :
          /\ work[c].dec[g] # None =>
               \E p \in pairs : /\ p[1].group = g
                                /\ work[c].dec[g].type = TypeOf(p[1], p[2])
                                /\ work[c].dec[g].weight = Weigh(p[1].value, p[2].value)
                                /\ work[c].dec[g].weight > 0
          /\ \A p \in pairs :
               /\ p[1].group = g
               /\ \A q \in work[c].rem :
                    q.group = g /\ q.type = p[1].type => q = p[2]
               /\ Weigh(p[1].value, p[2].value) > 0
               => /\ work[c].dec[g] # None
                  /\ work[c].dec[g].weight >= Weigh(p[1].value, p[2].value)

\* A context or a site has a capability that can lead to the decision e
Has(p, e) == IF p \in Ctx
               THEN \E i \in DOMAIN hash[p] : hash[p][i].group = e.group
                                             /\ hash[p][i].type \in {e.type, Any}
               ELSE \E f \in UNION SiteDocs : f.group = e.group /\ f.type \in {e.type, Any}

\* What a context takes for final, and configures its connection with, a peer it
\* asked can do; and it can do so itself, unless its peer had negotiated with
\* others: their decisions are in the same document (registry.c:236).
AgreedIsShared ==
  \A c \in Ctx : \A e \in final[c] :
    /\ \E p \in fromPeer[c] : Has(p[1], e)
    /\ (\A p \in fromPeer[c] : p[2] \subseteq {c}) => Has(c, e)

\* A decision that was made or taken over is never withdrawn, whatever is
\* negotiated later (registry.c:236, 104)
DecisionsStay ==
  [][\A c \in Ctx : decided[c] \subseteq decided'[c] /\ final[c] \subseteq final'[c]]_vars

=============================================================================
