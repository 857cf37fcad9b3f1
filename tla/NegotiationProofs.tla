------------------------- MODULE NegotiationProofs -------------------------
(***************************************************************************)
(* Proofs about Negotiation.tla for any number of programs, sites,         *)
(* capabilities and offers.                                                *)
(***************************************************************************)
EXTENDS Negotiation, TLAPS

(* While neg_negotiate runs for a context its program serves, and the      *)
(* client it decides for waits, or it decides on its own.                  *)
WorkOK ==
  \A c \in Ctx :
    /\ work[c] # None => pc[c] \in {"serving", "deciding"}
    /\ pc[c] = "deciding" => work[c] # None /\ work[c].for = c
    /\ pc[c] = "serving" /\ work[c] # None =>
         pc[work[c].for] = "put" /\ peer[work[c].for] = c

(* The loop stays within the capabilities of the context.                  *)
PassOK == \A c \in Ctx : work[c] # None => work[c].i <= Len(hash[c]) + 1

(* What a context was told comes from somebody who can do it.              *)
ToldOK ==
  \A c \in Ctx :
    /\ \A e \in sub[c] : \E h \in heard[c] : h[2] = e
    /\ \A h \in heard[c] : Has(h[1], h[2])
    /\ work[c] # None => \A r \in work[c].rem : \E h \in heard[c] : h[2] = r

(* What a context has decided it can do itself, and so can somebody whom   *)
(* it has heard.                                                           *)
DecidedOK ==
  \A c \in Ctx : \A e \in decided[c] :
    Has(c, e) /\ \E h \in heard[c] : Has(h[1], e)

(* The answer to an offer is something that the peer can do; where the     *)
(* peer has decided, those it had heard can do it as well.                 *)
AnswerOf(c) ==
  /\ pc[c] = "get" => clientNego[c]
  /\ pc[c] \in {"put", "get", "apply", "deciding"} => peer[c] \in Ctx \cup Site
  /\ pc[c] = "apply" =>
       /\ \A e \in response[c] : Has(peer[c], e)
       /\ \E p \in fromPeer[c] :
            /\ p[1] = peer[c]
            /\ clientNego[c] \/ \A e \in response[c] : \E x \in p[2] : Has(x, e)

AnswerOK == \A c \in Ctx : AnswerOf(c)

(* A program that has not served has heard only the peers it asked.        *)
HeardOK ==
  \A c \in Ctx : pc[c] \notin {"bound", "serving", "crashed"} =>
    \A h \in heard[c] : \E p \in fromPeer[c] : p[1] = h[1]

IInv == /\ TypeOK /\ WorkOK /\ PassOK /\ ToldOK /\ DecidedOK /\ AnswerOK
        /\ HeardOK /\ BestDecision /\ AgreedIsShared

-----------------------------------------------------------------------------
(* The weights are numbers.                                                *)
LEMMA WeighInt == \A l, r : Weigh(l, r) \in Int
<1>1. \A v : PrecToInt(v) \in 0..4
  BY DEF PrecToInt
<1>2. \A m, n \in 0..4 : m * n + (m - n) \in Int
  OBVIOUS
<1>. QED BY <1>1, <1>2 DEF Weigh

(* Whatever is offered has a value that a decision may take for a type.    *)
LEMMA OfferedIs ==
  \A e : e \in Offered <=> \/ e \in Capability \cup UNION SiteDocs
                           \/ e \in [group : Groups, type : Types, value : {"1"}]
<1> DEFINE made == [group : Groups, type : Types, value : {"1"}]
<1>1. Offered = Capability \cup (UNION SiteDocs) \cup made
  BY DEF Offered
<1> HIDE DEF made
<1>2. \A e : e \in Offered <=> e \in Capability \cup UNION SiteDocs \/ e \in made
  BY <1>1
<1>. QED BY <1>2 DEF made

LEMMA OfferedValue == \A e \in Offered : e.value \in Values
<1>1. \A e \in Capability \cup UNION SiteDocs : e.value \in Values
  BY DEF Values
<1>2. ASSUME NEW e \in [group : Groups, type : Types, value : {"1"}]
      PROVE  e.value \in Values
  <2>1. e.value = "1"
    OBVIOUS
  <2>. QED BY <2>1 DEF Values
<1>. QED BY <1>1, <1>2, OfferedIs

LEMMA TypeOfTyped ==
  ASSUME NEW l \in Capability, NEW r \in Offered
  PROVE  TypeOf(l, r) \in Types
<1>1. r.value \in Values /\ l.value \in Values
  BY OfferedValue DEF Values
<1>. QED BY <1>1 DEF TypeOf, Types

(* A document that is told holds capabilities that were set.               *)
LEMMA DocumentTold ==
  ASSUME NEW s \in Seq(Capability)
  PROVE  /\ Document(s) \in SUBSET Offered
         /\ \A e \in Document(s) : \E i \in DOMAIN s : s[i] = e
<1>1. \A e \in Document(s) : \E i \in DOMAIN s : s[i] = e
  BY DEF Document
<1>2. \A i \in DOMAIN s : s[i] \in Capability
  OBVIOUS
<1>. QED BY <1>1, <1>2 DEF Offered

LEMMA DecisionsTyped ==
  ASSUME NEW w \in Work
  PROVE  /\ Decisions(w) \in SUBSET Offered
         /\ \A e \in Decisions(w) : /\ e.group \in Groups /\ w.dec[e.group] # None
                                    /\ e.type = w.dec[e.group].type
<1> SUFFICES ASSUME NEW e \in Decisions(w)
             PROVE  /\ e \in Offered /\ e.group \in Groups /\ w.dec[e.group] # None
                    /\ e.type = w.dec[e.group].type
  OBVIOUS
<1>1. PICK g \in Groups : /\ w.dec[g] # None
                          /\ e = [group |-> g, type |-> w.dec[g].type, value |-> "1"]
  BY DEF Decisions
<1>2. w.dec[g] \in Decision
  BY <1>1 DEF Work
<1>3. w.dec[g].type \in Types
  BY <1>2 DEF Decision
<1>4. e \in [group : Groups, type : Types, value : {"1"}]
  BY <1>1, <1>3
<1>5. e \in Offered
  BY <1>4, OfferedIs
<1>6. e.group = g /\ e.type = w.dec[g].type
  BY <1>1
<1>. QED BY <1>1, <1>5, <1>6

-----------------------------------------------------------------------------
(* Which steps change what a context knows and decides.                    *)
LEMMA Cases ==
  ASSUME [Next]_vars
  PROVE  \/ UNCHANGED <<hash, sub, decided, work, heard>>
         \/ \E c \in Ctx, caps \in Profile : SetLocalCapabilities(c, caps)
         \/ \E s \in Ctx, c \in Ctx : HandlePut(s, c)
         \/ \E s \in Ctx : Consider(s)
         \/ \E s \in Ctx : HandlePutEnd(s)
         \/ \E c \in Ctx : NegotiateRemote(c)
         \/ \E c \in Ctx : NegotiateRemoteEnd(c)
<1>1. ASSUME NEW c \in Ctx, NEW d \in Ctx,
             HandleUnready(c, d) \/ HandleGet(c, d) \/ HandleRefuse(c, d)
      PROVE  UNCHANGED <<hash, sub, decided, work, heard>>
  BY <1>1 DEF HandleUnready, HandleGet, HandleRefuse, Answered, Refused
<1>2. ASSUME NEW c \in Ctx, NEW p \in Ctx \cup Site,
             NoEndpoint(c, p) \/ SendOffer(c, p)
      PROVE  UNCHANGED <<hash, sub, decided, work, heard>>
  BY <1>2 DEF NoEndpoint, SendOffer
<1>3. ASSUME NEW c \in Ctx,
             RunServer(c) \/ SetUserData(c) \/ SiteRefuses(c) \/ SiteAnswers(c) \/ SetFinal(c)
      PROVE  UNCHANGED <<hash, sub, decided, work, heard>>
  BY <1>3 DEF RunServer, SetUserData, SiteRefuses, SiteAnswers, SetFinal, Answered, Refused
<1>4. ASSUME NEW c \in Ctx, Configure(c)
      PROVE  UNCHANGED <<hash, sub, decided, work, heard>>
  BY <1>4 DEF Configure
<1>5. CASE UNCHANGED vars
  BY <1>5 DEF vars
<1>. QED BY <1>1, <1>2, <1>3, <1>4, <1>5 DEF Next, Handle, Offer

(* A context's capabilities only grow in number.                           *)
LEMMA HashSteps ==
  ASSUME [Next]_vars
  PROVE  \/ hash' = hash
         \/ \E c \in Ctx, caps \in Profile : SetLocalCapabilities(c, caps)
<1>1. ASSUME NEW s \in Ctx, NEW c \in Ctx,
             HandlePut(s, c) \/ Consider(s) \/ HandlePutEnd(s)
      PROVE  hash' = hash
  BY <1>1 DEF HandlePut, Consider, HandlePutEnd, Answered, Refused
<1>2. ASSUME NEW c \in Ctx, NegotiateRemote(c) \/ NegotiateRemoteEnd(c)
      PROVE  hash' = hash
  BY <1>2 DEF NegotiateRemote, NegotiateRemoteEnd
<1>. QED BY <1>1, <1>2, Cases

(* What somebody could do he can do later.                                 *)
LEMMA HasStays ==
  ASSUME TypeOK, [Next]_vars
  PROVE  \A p, e : Has(p, e) => Has(p, e)'
<1> SUFFICES ASSUME NEW p, NEW e, Has(p, e)
             PROVE  Has(p, e)'
  OBVIOUS
<1>1. CASE hash' = hash
  BY <1>1 DEF Has
<1>2. ASSUME NEW c \in Ctx, NEW caps \in Profile, SetLocalCapabilities(c, caps)
      PROVE  Has(p, e)'
  <2>1. hash' = [hash EXCEPT ![c] = hash[c] \o caps] /\ DOMAIN hash = Ctx
        /\ hash[c] \in Seq(Capability) /\ caps \in Seq(Capability)
    BY <1>2, ProfileAssumption DEF SetLocalCapabilities, TypeOK
  <2>2. \A i \in DOMAIN hash[c] :
          i \in DOMAIN (hash[c] \o caps) /\ (hash[c] \o caps)[i] = hash[c][i]
    BY <2>1
  <2>3. CASE p \in Ctx
    <3>1. PICK i \in DOMAIN hash[p] : hash[p][i].group = e.group
                                      /\ hash[p][i].type \in {e.type, Any}
      BY <2>3 DEF Has
    <3>2. i \in DOMAIN hash'[p] /\ hash'[p][i] = hash[p][i]
      BY <2>1, <2>2, <2>3
    <3>. QED BY <2>3, <3>1, <3>2 DEF Has
  <2>4. CASE p \notin Ctx
    BY <2>4 DEF Has
  <2>. QED BY <2>3, <2>4
<1>. QED BY <1>1, <1>2, HashSteps

(* What a context tells it can do.                                         *)
LEMMA TellsWhatItHas ==
  ASSUME TypeOK, NEW c \in Ctx
  PROVE  /\ Document(hash[c]) \in SUBSET Offered
         /\ \A e \in Document(hash[c]) : Has(c, e)
<1>1. hash[c] \in Seq(Capability)
  BY DEF TypeOK
<1>. QED BY <1>1, DocumentTold DEF Has

-----------------------------------------------------------------------------
(* One pass of the loop of neg_negotiate.                                  *)
Matches(l, w) == {r \in w.rem : r.group = l.group /\ r.type = l.type}

Stepped(w, dec) == [w EXCEPT !.i = @ + 1, !.dec = dec]

Chosen(l, w, r) ==
  [w.dec EXCEPT ![l.group] = IF Better(w.dec[l.group], Weigh(l.value, r.value))
                             THEN [type |-> TypeOf(l, r), weight |-> Weigh(l.value, r.value)]
                             ELSE w.dec[l.group]]

LEMMA ChosenTyped ==
  ASSUME NEW l \in Capability, NEW w \in Work, NEW r \in Matches(l, w)
  PROVE  Chosen(l, w, r) \in [Groups -> Decision \cup {None}]
<1>1. r \in Offered /\ l.group \in Groups /\ w.dec \in [Groups -> Decision \cup {None}]
  BY DEF Work, Matches, Groups
<1>2. TypeOf(l, r) \in Types /\ Weigh(l.value, r.value) \in Int
  BY <1>1, TypeOfTyped, WeighInt
<1>3. [type |-> TypeOf(l, r), weight |-> Weigh(l.value, r.value)] \in Decision
  BY <1>2 DEF Decision
<1>. QED BY <1>1, <1>3 DEF Chosen

LEMMA SteppedTyped ==
  ASSUME NEW w \in Work, NEW dec \in [Groups -> Decision \cup {None}]
  PROVE  /\ Stepped(w, dec) \in Work
         /\ Stepped(w, dec).for = w.for /\ Stepped(w, dec).i = w.i + 1
         /\ Stepped(w, dec).rem = w.rem /\ Stepped(w, dec).dec = dec
<1>1. /\ w.for \in Ctx /\ w.i \in Nat \ {0} /\ w.rem \in SUBSET Offered
      /\ w.i + 1 \in Nat \ {0}
  BY DEF Work
<1>2. Stepped(w, dec) = [for |-> w.for, i |-> w.i + 1, rem |-> w.rem, dec |-> dec]
  <2>1. w = [for |-> w.for, i |-> w.i, rem |-> w.rem, dec |-> w.dec]
    BY DEF Work
  <2>2. [w EXCEPT !.i = @ + 1] = [for |-> w.for, i |-> w.i + 1, rem |-> w.rem, dec |-> w.dec]
    BY <2>1
  <2>3. [[for |-> w.for, i |-> w.i + 1, rem |-> w.rem, dec |-> w.dec] EXCEPT !.dec = dec]
          = [for |-> w.for, i |-> w.i + 1, rem |-> w.rem, dec |-> dec]
    OBVIOUS
  <2>4. Stepped(w, dec) = [[w EXCEPT !.i = @ + 1] EXCEPT !.dec = dec]
    BY DEF Stepped
  <2>. QED BY <2>2, <2>3, <2>4
<1>3. [for |-> w.for, i |-> w.i + 1, rem |-> w.rem, dec |-> dec] \in Work
  BY <1>1 DEF Work
<1>. QED BY <1>2, <1>3

LEMMA ConsiderStep ==
  ASSUME TypeOK, NEW s \in Ctx, Consider(s)
  PROVE  LET w == work[s]
             l == hash[s][w.i]
         IN  /\ w \in Work /\ w.i \in 1..Len(hash[s]) /\ l \in Capability
             /\ \/ Matches(l, w) = {} /\ work' = [work EXCEPT ![s] = Stepped(w, w.dec)]
                \/ \E r \in Matches(l, w) :
                     work' = [work EXCEPT ![s] = Stepped(w, Chosen(l, w, r))]
<1> DEFINE w == work[s]
           l == hash[s][w.i]
<1>1. w \in Work /\ w.i \in Nat \ {0} /\ w.i <= Len(hash[s])
  BY DEF Consider, TypeOK, Work
<1>2. hash[s] \in Seq(Capability) /\ Len(hash[s]) \in Nat
  BY DEF TypeOK
<1>3. w.i \in 1..Len(hash[s]) /\ l \in Capability
  BY <1>1, <1>2
<1>4. CASE Matches(l, w) = {}
  <2>1. work' = [work EXCEPT ![s].i = @ + 1]
    BY <1>4 DEF Consider, Matches
  <2>2. Stepped(w, w.dec) = [w EXCEPT !.i = @ + 1]
    BY <1>1 DEF Stepped, Work
  <2>. QED BY <1>1, <1>3, <1>4, <2>1, <2>2
<1>5. CASE Matches(l, w) # {}
  <2>1. PICK r \in Matches(l, w) :
          work' = [work EXCEPT ![s].i = @ + 1,
                     ![s].dec[l.group] = IF Better(w.dec[l.group], Weigh(l.value, r.value))
                                         THEN [type |-> TypeOf(l, r),
                                               weight |-> Weigh(l.value, r.value)]
                                         ELSE w.dec[l.group]]
    BY <1>5 DEF Consider, Matches
  <2>2. work' = [work EXCEPT ![s] = Stepped(w, Chosen(l, w, r))]
    BY <1>1, <2>1 DEF Stepped, Chosen, TypeOK, Work
  <2>. QED BY <1>1, <1>3, <2>2
<1>. QED BY <1>4, <1>5

-----------------------------------------------------------------------------
(* The decisions of the loop are the best of the pairs it has considered.  *)
Considered(h, w) ==
  {p \in {h[i] : i \in 1..w.i - 1} \X w.rem : p[1].group = p[2].group /\ p[1].type = p[2].type}

FromAPair(w, pairs, g) ==
  w.dec[g] # None =>
    \E p \in pairs : /\ p[1].group = g
                     /\ w.dec[g].type = TypeOf(p[1], p[2])
                     /\ w.dec[g].weight = Weigh(p[1].value, p[2].value)
                     /\ w.dec[g].weight > 0

NoneBetter(w, pairs, g) ==
  \A p \in pairs :
    /\ p[1].group = g
    /\ \A q \in w.rem : q.group = g /\ q.type = p[1].type => q = p[2]
    /\ Weigh(p[1].value, p[2].value) > 0
    => /\ w.dec[g] # None
       /\ w.dec[g].weight >= Weigh(p[1].value, p[2].value)

BestOf(h, w) ==
  \A g \in Groups : FromAPair(w, Considered(h, w), g) /\ NoneBetter(w, Considered(h, w), g)

LEMMA BestIs == BestDecision <=> \A c \in Ctx : work[c] # None => BestOf(hash[c], work[c])
  BY Zenon DEF BestDecision, BestOf, Considered, FromAPair, NoneBetter

LEMMA BestStart ==
  ASSUME NEW h, NEW w, w.i = 1, w.dec = NoDecision
  PROVE  BestOf(h, w)
<1>1. Considered(h, w) = {}
  BY DEF Considered
<1>2. \A g \in Groups : w.dec[g] = None
  BY DEF NoDecision
<1>. QED BY <1>1, <1>2 DEF BestOf, FromAPair, NoneBetter

(* One pass adds the pairs of one capability.                              *)
LEMMA ConsideredStep ==
  ASSUME NEW h \in Seq(Capability), NEW w \in Work, w.i \in 1..Len(h),
         NEW x, x.i = w.i + 1, x.rem = w.rem
  PROVE  /\ Considered(h, w) \subseteq Considered(h, x)
         /\ \A r \in Matches(h[w.i], w) : <<h[w.i], r>> \in Considered(h, x)
         /\ \A p \in Considered(h, x) :
              p \in Considered(h, w) \/ (p[1] = h[w.i] /\ p[2] \in Matches(h[w.i], w))
<1>1. 1..x.i - 1 = (1..w.i - 1) \cup {w.i}
  BY DEF Work
<1>2. {h[i] : i \in 1..x.i - 1} = {h[i] : i \in 1..w.i - 1} \cup {h[w.i]}
  BY <1>1
<1>. QED BY <1>2 DEF Considered, Matches

LEMMA BestSkipped ==
  ASSUME NEW h \in Seq(Capability), NEW w \in Work, w.i \in 1..Len(h), BestOf(h, w),
         Matches(h[w.i], w) = {}
  PROVE  BestOf(h, Stepped(w, w.dec))
<1> DEFINE x == Stepped(w, w.dec)
<1>1. x.i = w.i + 1 /\ x.rem = w.rem /\ x.dec = w.dec
  BY SteppedTyped DEF Work
<1> HIDE DEF x
<1>2. Considered(h, x) = Considered(h, w)
  BY <1>1, ConsideredStep
<1>3. BestOf(h, x)
  BY <1>1, <1>2 DEF BestOf, FromAPair, NoneBetter
<1>. QED BY <1>3 DEF x

LEMMA BestChosen ==
  ASSUME NEW h \in Seq(Capability), NEW w \in Work, w.i \in 1..Len(h), BestOf(h, w),
         NEW r \in Matches(h[w.i], w)
  PROVE  BestOf(h, Stepped(w, Chosen(h[w.i], w, r)))
<1> DEFINE l == h[w.i]
           x == Stepped(w, Chosen(l, w, r))
           v == Weigh(l.value, r.value)
           d == w.dec[l.group]
           new == [type |-> TypeOf(l, r), weight |-> v]
<1>1. l \in Capability /\ l.group \in Groups
  BY DEF Groups
<1>2. Chosen(l, w, r) \in [Groups -> Decision \cup {None}]
  BY <1>1, ChosenTyped
<1>3. x.i = w.i + 1 /\ x.rem = w.rem /\ x.dec = Chosen(l, w, r)
  BY <1>2, SteppedTyped
<1>4. w.dec \in [Groups -> Decision \cup {None}] /\ r \in w.rem /\ r \in Offered
      /\ r.group = l.group /\ r.type = l.type
  BY DEF Work, Matches
<1>5. v \in Int /\ \A p : Weigh(p[1].value, p[2].value) \in Int
  BY WeighInt
<1>6. new \in Decision /\ new # None /\ new.type = TypeOf(l, r) /\ new.weight = v
  BY <1>1, <1>4, <1>5, TypeOfTyped, DecisionAssumption DEF Decision
<1>7. \A g \in Groups : w.dec[g] # None => w.dec[g].weight \in Int
  BY <1>4 DEF Decision
<1>8. /\ Considered(h, w) \subseteq Considered(h, x)
      /\ <<l, r>> \in Considered(h, x)
      /\ \A p \in Considered(h, x) :
           p \in Considered(h, w) \/ (p[1] = l /\ p[2] \in Matches(l, w))
  BY <1>3, ConsideredStep
<1>9. /\ \A g \in Groups : g # l.group => x.dec[g] = w.dec[g]
      /\ x.dec[l.group] = IF Better(d, v) THEN new ELSE d
  BY <1>1, <1>3, <1>4 DEF Chosen
<1> HIDE DEF x, new, v
<1>10. ASSUME NEW g \in Groups
       PROVE  FromAPair(x, Considered(h, x), g)
  <2>1. FromAPair(w, Considered(h, w), g)
    BY DEF BestOf
  <2>2. CASE x.dec[g] = w.dec[g]
    BY <1>8, <2>1, <2>2 DEF FromAPair
  <2>3. CASE x.dec[g] # w.dec[g]
    <3>1. g = l.group /\ Better(d, v) /\ x.dec[g] = new
      BY <1>9, <2>3
    <3>2. v > 0
      BY <3>1 DEF Better
    <3>3. <<l, r>>[1] = l /\ <<l, r>>[2] = r
      OBVIOUS
    <3>. QED BY <1>6, <1>8, <3>1, <3>2, <3>3 DEF FromAPair, v
  <2>. QED BY <2>2, <2>3
<1>11. ASSUME NEW g \in Groups
       PROVE  NoneBetter(x, Considered(h, x), g)
  <2> SUFFICES ASSUME NEW p \in Considered(h, x), p[1].group = g,
                      \A q \in x.rem : q.group = g /\ q.type = p[1].type => q = p[2],
                      Weigh(p[1].value, p[2].value) > 0
               PROVE  /\ x.dec[g] # None
                      /\ x.dec[g].weight >= Weigh(p[1].value, p[2].value)
    BY DEF NoneBetter
  <2> DEFINE u == Weigh(p[1].value, p[2].value)
  <2>1. ASSUME p \in Considered(h, w)
        PROVE  w.dec[g] # None /\ w.dec[g].weight >= u
    <3>1. NoneBetter(w, Considered(h, w), g)
      BY DEF BestOf
    <3>. QED BY <1>3, <2>1, <3>1 DEF NoneBetter
  <2>2. ASSUME p \notin Considered(h, w)
        PROVE  g = l.group /\ u = v
    <3>1. p[1] = l /\ p[2] \in Matches(l, w)
      BY <1>8, <2>2
    <3>2. r = p[2]
      BY <1>3, <1>4, <3>1
    <3>. QED BY <3>1, <3>2 DEF v
  <2>3. u \in Int /\ u > 0
    BY <1>5
  <2> HIDE DEF u
  <2>4. CASE g # l.group
    <3>1. x.dec[g] = w.dec[g]
      BY <1>9, <2>4
    <3>. QED BY <2>1, <2>2, <2>4, <3>1 DEF u
  <2>5. CASE g = l.group /\ Better(d, v)
    <3>1. x.dec[g] = new /\ (d = None \/ v > d.weight)
      BY <1>9, <2>5 DEF Better
    <3>2. new.weight >= u
      <4>1. CASE p \in Considered(h, w)
        <5>1. d # None /\ d.weight >= u /\ d.weight \in Int
          BY <1>7, <2>1, <2>5, <4>1
        <5>2. v > d.weight
          BY <3>1, <5>1
        <5>3. v >= u
          <6>1. \A a, b, m \in Int : a > m /\ m >= b => a >= b
            OBVIOUS
          <6>2. v \in Int /\ u \in Int
            BY <1>5, <2>3
          <6>. QED BY <5>1, <5>2, <6>1, <6>2
        <5>. QED BY <1>6, <5>3
      <4>2. CASE p \notin Considered(h, w)
        BY <1>5, <1>6, <2>2, <4>2
      <4>. QED BY <4>1, <4>2
    <3>. QED BY <1>6, <3>1, <3>2 DEF u
  <2>6. CASE g = l.group /\ ~Better(d, v)
    <3>1. x.dec[g] = d /\ w.dec[g] = d
      BY <1>9, <2>6
    <3>2. ~(v > 0) \/ (d # None /\ ~(v > d.weight))
      BY <2>6 DEF Better
    <3>3. d # None /\ d.weight >= u
      <4>1. CASE p \in Considered(h, w)
        BY <2>1, <2>6, <4>1
      <4>2. CASE p \notin Considered(h, w)
        <5>1. u = v
          BY <2>2, <4>2
        <5>2. d # None /\ ~(v > d.weight)
          BY <2>3, <3>2, <5>1
        <5>3. d.weight \in Int
          BY <1>7, <2>6, <5>2
        <5>4. \A a, m \in Int : ~(a > m) => m >= a
          OBVIOUS
        <5>5. v \in Int
          BY <1>5
        <5>. QED BY <5>1, <5>2, <5>3, <5>4, <5>5
      <4>. QED BY <4>1, <4>2
    <3>. QED BY <3>1, <3>3 DEF u
  <2>. QED BY <2>4, <2>5, <2>6
<1>12. BestOf(h, x)
  BY <1>10, <1>11 DEF BestOf
<1>. QED BY <1>12 DEF x

-----------------------------------------------------------------------------
(* What neg_negotiate starts with.                                         *)
LEMMA WorkStarts ==
  ASSUME TypeOK, NEW f \in Ctx, NEW rem \in SUBSET Offered
  PROVE  LET w == [for |-> f, i |-> 1, rem |-> rem, dec |-> NoDecision]
         IN  w \in Work /\ w # None /\ w.for = f /\ w.i = 1 /\ w.rem = rem /\ w.dec = NoDecision
<1> DEFINE w == [for |-> f, i |-> 1, rem |-> rem, dec |-> NoDecision]
<1>1. NoDecision \in [Groups -> Decision \cup {None}]
  BY DEF NoDecision
<1>2. w \in Work
  BY <1>1 DEF Work
<1>. QED BY <1>2, DecisionAssumption

(* What the offer of a client becomes at the server.                       *)
LEMMA PutTaken ==
  ASSUME TypeOK, NEW s \in Ctx, NEW c \in Ctx, HandlePut(s, c)
  PROVE  /\ sub'[s] \in SUBSET (sub[s] \cup Document(hash[c]))
         /\ sub' = [sub EXCEPT ![s] = sub'[s]]
         /\ \E rem \in SUBSET sub'[s] :
              work' = [work EXCEPT ![s] = [for |-> c, i |-> 1, rem |-> rem, dec |-> NoDecision]]
<1>1. PICK told \in Told(s, Document(hash[c])) : sub' = [sub EXCEPT ![s] = told]
  BY DEF HandlePut
<1>2. told = sub[s] \cup Document(hash[c]) \/ told = Document(hash[c])
  BY DEF Told
<1>3. sub'[s] = told
  BY <1>1 DEF TypeOK
<1>4. PICK rem \in FoundAgain(s) :
        work' = [work EXCEPT ![s] = [for |-> c, i |-> 1, rem |-> rem, dec |-> NoDecision]]
  BY DEF HandlePut
<1>5. rem \in SUBSET sub'[s]
  BY DEF FoundAgain
<1>. QED BY <1>1, <1>2, <1>3, <1>4, <1>5

LEMMA RemoteTaken ==
  ASSUME TypeOK, NEW c \in Ctx, NegotiateRemote(c)
  PROVE  /\ sub'[c] \in SUBSET (sub[c] \cup response[c])
         /\ sub' = [sub EXCEPT ![c] = sub'[c]]
         /\ work' = [work EXCEPT ![c] = [for |-> c, i |-> 1, rem |-> sub'[c],
                                         dec |-> NoDecision]]
<1>1. PICK told \in Told(c, response[c]) :
        /\ sub' = [sub EXCEPT ![c] = told]
        /\ work' = [work EXCEPT ![c] = [for |-> c, i |-> 1, rem |-> told, dec |-> NoDecision]]
  BY DEF NegotiateRemote
<1>2. told = sub[c] \cup response[c] \/ told = response[c]
  BY DEF Told
<1>3. sub'[c] = told
  BY <1>1 DEF TypeOK
<1>. QED BY <1>1, <1>2, <1>3

(* Every step of the loop keeps its decisions the best.                    *)
LEMMA BestKept ==
  ASSUME TypeOK, WorkOK, BestDecision, [Next]_vars
  PROVE  BestDecision'
<1> SUFFICES ASSUME NEW c \in Ctx, work'[c] # None
             PROVE  BestOf(hash'[c], work'[c])
  BY Zenon DEF BestDecision, BestOf, Considered, FromAPair, NoneBetter
<1>0. \A x \in Ctx : work[x] # None => BestOf(hash[x], work[x])
  BY BestIs
<1>1. ASSUME hash'[c] = hash[c], work'[c] = work[c]
      PROVE  BestOf(hash'[c], work'[c])
  BY <1>0, <1>1
<1>2. ASSUME NEW d \in Ctx, NEW caps \in Profile, SetLocalCapabilities(d, caps)
      PROVE  BestOf(hash'[c], work'[c])
  <2>1. work' = work /\ pc[d] = "idle" /\ hash' = [hash EXCEPT ![d] = hash[d] \o caps]
    BY <1>2 DEF SetLocalCapabilities
  <2>2. c # d
    BY <2>1 DEF WorkOK
  <2>. QED BY <1>1, <2>1, <2>2 DEF TypeOK
<1>3. ASSUME NEW s \in Ctx, NEW d \in Ctx, HandlePut(s, d)
      PROVE  BestOf(hash'[c], work'[c])
  <2>1. hash' = hash /\ \A x \in Ctx : x # s => work'[x] = work[x]
    BY <1>3, PutTaken DEF HandlePut, TypeOK
  <2>2. CASE c = s
    <3>1. work'[s].i = 1 /\ work'[s].dec = NoDecision
      BY <1>3, PutTaken DEF TypeOK
    <3>. QED BY <2>2, <3>1, BestStart
  <2>. QED BY <1>1, <2>1, <2>2
<1>4. ASSUME NEW s \in Ctx, Consider(s)
      PROVE  BestOf(hash'[c], work'[c])
  <2> DEFINE w == work[s]
             l == hash[s][w.i]
  <2>1. /\ w \in Work /\ w.i \in 1..Len(hash[s]) /\ l \in Capability
        /\ \/ Matches(l, w) = {} /\ work' = [work EXCEPT ![s] = Stepped(w, w.dec)]
           \/ \E r \in Matches(l, w) :
                work' = [work EXCEPT ![s] = Stepped(w, Chosen(l, w, r))]
    BY <1>4, ConsiderStep
  <2>2. hash' = hash /\ hash[s] \in Seq(Capability) /\ DOMAIN work = Ctx /\ w # None
    BY <1>4 DEF Consider, TypeOK
  <2>3. BestOf(hash[s], w)
    BY <1>0, <2>2
  <2>4. CASE c = s
    <3>1. CASE Matches(l, w) = {} /\ work' = [work EXCEPT ![s] = Stepped(w, w.dec)]
      <4>1. BestOf(hash[s], Stepped(w, w.dec))
        BY <2>1, <2>2, <2>3, <3>1, BestSkipped
      <4>. QED BY <2>2, <2>4, <3>1, <4>1
    <3>2. ASSUME NEW r \in Matches(l, w),
                 work' = [work EXCEPT ![s] = Stepped(w, Chosen(l, w, r))]
          PROVE  BestOf(hash'[c], work'[c])
      <4>1. BestOf(hash[s], Stepped(w, Chosen(l, w, r)))
        BY <2>1, <2>2, <2>3, BestChosen
      <4>. QED BY <2>2, <2>4, <3>2, <4>1
    <3>. QED BY <2>1, <3>1, <3>2
  <2>5. CASE c # s
    <3>1. work'[c] = work[c]
      BY <2>1, <2>2, <2>5
    <3>. QED BY <1>1, <2>2, <3>1
  <2>. QED BY <2>4, <2>5
<1>5. ASSUME NEW s \in Ctx, HandlePutEnd(s) \/ NegotiateRemoteEnd(s)
      PROVE  BestOf(hash'[c], work'[c])
  <2>1. hash' = hash /\ work' = [work EXCEPT ![s] = None]
    BY <1>5 DEF HandlePutEnd, NegotiateRemoteEnd, Answered
  <2>2. c # s /\ work'[c] = work[c]
    BY <2>1 DEF TypeOK
  <2>. QED BY <1>1, <2>1, <2>2
<1>6. ASSUME NEW d \in Ctx, NegotiateRemote(d)
      PROVE  BestOf(hash'[c], work'[c])
  <2>1. hash' = hash /\ \A x \in Ctx : x # d => work'[x] = work[x]
    BY <1>6, RemoteTaken DEF NegotiateRemote, TypeOK
  <2>2. CASE c = d
    <3>1. work'[d].i = 1 /\ work'[d].dec = NoDecision
      BY <1>6, RemoteTaken DEF TypeOK
    <3>. QED BY <2>2, <3>1, BestStart
  <2>. QED BY <1>1, <2>1, <2>2
<1>. QED BY <1>1, <1>2, <1>3, <1>4, <1>5, <1>6, Cases

-----------------------------------------------------------------------------
(* A program for which nobody decides, and which does not decide, goes on. *)
LEMMA MoveKept ==
  ASSUME TypeOK, WorkOK, NEW d \in Ctx, work[d] = None,
         \A s \in Ctx : work[s] # None /\ pc[s] = "serving" => work[s].for # d,
         NEW v, v # "deciding", pc' = [pc EXCEPT ![d] = v], work' = work,
         peer' = peer \/ \E q : peer' = [peer EXCEPT ![d] = q]
  PROVE  WorkOK'
<1> SUFFICES ASSUME NEW c \in Ctx
             PROVE  /\ work[c] # None => pc'[c] \in {"serving", "deciding"}
                    /\ pc'[c] = "deciding" => work[c] # None /\ work[c].for = c
                    /\ pc'[c] = "serving" /\ work[c] # None =>
                         pc'[work[c].for] = "put" /\ peer'[work[c].for] = c
  BY DEF WorkOK
<1>1. DOMAIN pc = Ctx /\ DOMAIN peer = Ctx
  BY DEF TypeOK
<1>2. CASE c = d
  BY <1>1, <1>2
<1>3. CASE c # d
  <2>1. pc'[c] = pc[c]
    BY <1>1, <1>3
  <2>2. work[c] # None => work[c].for \in Ctx
    BY DEF TypeOK, Work
  <2>3. \A x \in Ctx : x # d => pc'[x] = pc[x] /\ peer'[x] = peer[x]
    BY <1>1
  <2>. QED BY <2>1, <2>2, <2>3 DEF WorkOK
<1>. QED BY <1>2, <1>3

(* Nobody decides for a program that does not wait for its answer.         *)
LEMMA NobodyWaits ==
  ASSUME WorkOK, NEW d \in Ctx,
         \/ pc[d] # "put" /\ pc[d] \notin {"serving", "deciding"}
         \/ pc[d] = "put" /\ (peer[d] \in Ctx => work[peer[d]] = None)
  PROVE  /\ work[d] = None
         /\ \A s \in Ctx : work[s] # None /\ pc[s] = "serving" => work[s].for # d
  BY DEF WorkOK

(* The work of one context begins or goes on.                              *)
LEMMA WorkOnKept ==
  ASSUME TypeOK, WorkOK, NEW s \in Ctx, NEW w \in Work, w # None,
         work' = [work EXCEPT ![s] = w], UNCHANGED <<pc, peer>>,
         \/ work[s] # None /\ w.for = work[s].for
         \/ pc[s] = "serving" /\ w.for \in Ctx /\ pc[w.for] = "put" /\ peer[w.for] = s
  PROVE  WorkOK'
<1> SUFFICES ASSUME NEW c \in Ctx
             PROVE  /\ work'[c] # None => pc[c] \in {"serving", "deciding"}
                    /\ pc[c] = "deciding" => work'[c] # None /\ work'[c].for = c
                    /\ pc[c] = "serving" /\ work'[c] # None =>
                         pc[work'[c].for] = "put" /\ peer[work'[c].for] = c
  BY DEF WorkOK
<1>1. DOMAIN work = Ctx
  BY DEF TypeOK
<1>2. CASE c = s
  <2>1. work'[c] = w
    BY <1>1, <1>2
  <2>. QED BY <1>2, <2>1 DEF WorkOK
<1>3. CASE c # s
  <2>1. work'[c] = work[c]
    BY <1>1, <1>3
  <2>. QED BY <2>1 DEF WorkOK
<1>. QED BY <1>2, <1>3

(* The work of a context ends.                                             *)
LEMMA WorkEndKept ==
  ASSUME TypeOK, WorkOK, NEW s \in Ctx, NEW d \in Ctx, NEW v \in {"idle", "apply"},
         work[s] # None, work[s].for = d, d # s \/ pc[s] = "deciding",
         work' = [work EXCEPT ![s] = None], pc' = [pc EXCEPT ![d] = v],
         peer' = peer \/ \E q : peer' = [peer EXCEPT ![d] = q]
  PROVE  WorkOK'
<1> SUFFICES ASSUME NEW c \in Ctx
             PROVE  /\ work'[c] # None => pc'[c] \in {"serving", "deciding"}
                    /\ pc'[c] = "deciding" => work'[c] # None /\ work'[c].for = c
                    /\ pc'[c] = "serving" /\ work'[c] # None =>
                         pc'[work'[c].for] = "put" /\ peer'[work'[c].for] = c
  BY DEF WorkOK
<1>1. DOMAIN work = Ctx /\ DOMAIN pc = Ctx /\ DOMAIN peer = Ctx
  BY DEF TypeOK
<1>2. d # s => pc[s] = "serving" /\ pc[d] = "put" /\ peer[d] = s /\ work[d] = None
  BY DEF WorkOK
<1>3. CASE c = d
  <2>1. pc'[c] = v /\ work'[c] = None
    BY <1>1, <1>2, <1>3
  <2>. QED BY <2>1
<1>4. CASE c # d /\ c = s
  <2>1. pc'[c] = pc[c] /\ work'[c] = None /\ pc[c] = "serving"
    BY <1>1, <1>2, <1>4
  <2>. QED BY <2>1
<1>5. CASE c # d /\ c # s
  <2>1. pc'[c] = pc[c] /\ work'[c] = work[c]
    BY <1>1, <1>5
  <2>2. ASSUME pc[c] = "serving", work[c] # None
        PROVE  pc'[work[c].for] = "put" /\ peer'[work[c].for] = c
    <3>1. pc[work[c].for] = "put" /\ peer[work[c].for] = c /\ work[c].for \in Ctx
      BY <2>2 DEF WorkOK, TypeOK, Work
    <3>2. work[c].for # d
      BY <1>2, <1>5, <3>1
    <3>3. \A x \in Ctx : x # d => pc'[x] = pc[x] /\ peer'[x] = peer[x]
      BY <1>1
    <3>. QED BY <3>1, <3>2, <3>3
  <2>. QED BY <2>1, <2>2 DEF WorkOK
<1>. QED BY <1>3, <1>4, <1>5

LEMMA WorkKept ==
  ASSUME TypeOK, WorkOK, [Next]_vars
  PROVE  WorkOK'
<1>1. ASSUME UNCHANGED <<work, pc, peer>>
      PROVE  WorkOK'
  BY <1>1 DEF WorkOK
<1>2. ASSUME NEW c \in Ctx,
             RunServer(c) \/ SetUserData(c) \/ SetFinal(c) \/ Configure(c) \/ SiteAnswers(c)
      PROVE  WorkOK'
  <2>1. /\ pc[c] \in {"idle", "bound", "apply", "get"} /\ work' = work
        /\ \E v : v # "deciding" /\ pc' = [pc EXCEPT ![c] = v]
        /\ peer' = peer \/ \E q : peer' = [peer EXCEPT ![c] = q]
    BY <1>2 DEF RunServer, SetUserData, SetFinal, Configure, SiteAnswers, Answered
  <2>. QED BY <2>1, NobodyWaits, MoveKept
<1>3. ASSUME NEW c \in Ctx, NEW p \in Ctx \cup Site, SendOffer(c, p)
      PROVE  WorkOK'
  <2>1. /\ pc[c] = "idle" /\ work' = work /\ pc' = [pc EXCEPT ![c] = "put"]
        /\ peer' = [peer EXCEPT ![c] = p]
    BY <1>3 DEF SendOffer
  <2>. QED BY <2>1, NobodyWaits, MoveKept
<1>4. ASSUME NEW c \in Ctx, SiteRefuses(c) \/ \E s \in Ctx : HandleRefuse(s, c)
      PROVE  WorkOK'
  <2>1. pc[c] = "put" /\ work' = work /\ peer' = peer /\ pc' = [pc EXCEPT ![c] = "get"]
    BY <1>4 DEF SiteRefuses, HandleRefuse, Refused
  <2>2. peer[c] \in Ctx => work[peer[c]] = None
    BY <1>4, SiteAssumption DEF SiteRefuses, HandleRefuse
  <2>. QED BY <2>1, <2>2, NobodyWaits, MoveKept
<1>5. ASSUME NEW c \in Ctx, NEW s \in Ctx, HandleGet(s, c)
      PROVE  WorkOK'
  <2>1. pc[c] = "get" /\ work' = work /\ peer' = peer /\ pc' = [pc EXCEPT ![c] = "apply"]
    BY <1>5 DEF HandleGet, Answered
  <2>. QED BY <2>1, NobodyWaits, MoveKept
<1>6. ASSUME NEW c \in Ctx, NEW s \in Ctx, HandleUnready(s, c)
      PROVE  WorkOK'
  <2>1. pc[s] = "bound" /\ work' = work /\ peer' = peer /\ pc' = [pc EXCEPT ![s] = "crashed"]
    BY <1>6 DEF HandleUnready
  <2>. QED BY <2>1, NobodyWaits, MoveKept
<1>7. ASSUME NEW c \in Ctx, NEW s \in Ctx, HandlePut(s, c)
      PROVE  WorkOK'
  <2>1. /\ pc[s] = "serving" /\ peer[c] = s /\ pc[c] = "put" /\ UNCHANGED <<pc, peer>>
        /\ sub'[s] \in SUBSET Offered
    <3>1. Document(hash[c]) \in SUBSET Offered /\ sub[s] \in SUBSET Offered
      BY TellsWhatItHas DEF TypeOK
    <3>. QED BY <1>7, <3>1, PutTaken DEF HandlePut
  <2>2. PICK rem \in SUBSET sub'[s] :
          work' = [work EXCEPT ![s] = [for |-> c, i |-> 1, rem |-> rem, dec |-> NoDecision]]
    BY <1>7, PutTaken
  <2>3. PICK w \in Work : w # None /\ w.for = c /\ work' = [work EXCEPT ![s] = w]
    BY <2>1, <2>2, WorkStarts
  <2>. QED BY <2>1, <2>3, WorkOnKept
<1>8. ASSUME NEW s \in Ctx, Consider(s)
      PROVE  WorkOK'
  <2>1. UNCHANGED <<pc, peer>> /\ work[s] # None /\ work[s] \in Work
    BY <1>8, ConsiderStep DEF Consider
  <2>2. \E dec \in [Groups -> Decision \cup {None}] :
           work' = [work EXCEPT ![s] = Stepped(work[s], dec)]
    BY <1>8, <2>1, ConsiderStep, ChosenTyped DEF Work
  <2>3. PICK w \in Work : w.for = work[s].for /\ work' = [work EXCEPT ![s] = w]
    BY <2>1, <2>2, SteppedTyped
  <2>. QED BY <2>1, <2>3, WorkOnKept, DecisionAssumption
<1>9. ASSUME NEW s \in Ctx, HandlePutEnd(s)
      PROVE  WorkOK'
  <2>1. /\ work[s] # None /\ work[s].for # s /\ work' = [work EXCEPT ![s] = None]
        /\ pc' = [pc EXCEPT ![work[s].for] = "apply"] /\ peer' = peer
    BY <1>9 DEF HandlePutEnd, Answered
  <2>2. work[s].for \in Ctx
    BY <2>1 DEF TypeOK, Work
  <2>. QED BY <2>1, <2>2, WorkEndKept
<1>10. ASSUME NEW c \in Ctx, NegotiateRemote(c)
       PROVE  WorkOK'
  <2>1. /\ pc[c] = "apply" /\ pc' = [pc EXCEPT ![c] = "deciding"] /\ peer' = peer
        /\ DOMAIN pc = Ctx /\ DOMAIN work = Ctx
    BY <1>10 DEF NegotiateRemote, TypeOK
  <2>2. sub'[c] \in SUBSET Offered
    BY <1>10, RemoteTaken DEF TypeOK
  <2>3. PICK w \in Work : w # None /\ w.for = c /\ work' = [work EXCEPT ![c] = w]
    <3> DEFINE n == [for |-> c, i |-> 1, rem |-> sub'[c], dec |-> NoDecision]
    <3>1. n \in Work /\ n # None /\ n.for = c
      BY <2>2, WorkStarts
    <3>2. work' = [work EXCEPT ![c] = n]
      BY <1>10, RemoteTaken
    <3> HIDE DEF n
    <3>. QED BY <3>1, <3>2
  <2>4. \A x \in Ctx : x # c => pc'[x] = pc[x] /\ work'[x] = work[x]
    BY <2>1, <2>3
  <2>5. pc'[c] = "deciding" /\ work'[c] = w
    BY <2>1, <2>3
  <2>6. ASSUME NEW x \in Ctx, x # c, pc[x] = "serving", work[x] # None
        PROVE  pc'[work[x].for] = "put" /\ peer'[work[x].for] = x
    <3>1. pc[work[x].for] = "put" /\ peer[work[x].for] = x /\ work[x].for \in Ctx
      BY <2>6 DEF WorkOK, TypeOK, Work
    <3>. QED BY <2>1, <2>4, <3>1
  <2>. QED BY <2>3, <2>4, <2>5, <2>6 DEF WorkOK
<1>11. ASSUME NEW c \in Ctx, NegotiateRemoteEnd(c)
       PROVE  WorkOK'
  <2>1. /\ pc[c] = "deciding" /\ work' = [work EXCEPT ![c] = None]
        /\ pc' = [pc EXCEPT ![c] = "idle"] /\ peer' = [peer EXCEPT ![c] = None]
    BY <1>11 DEF NegotiateRemoteEnd
  <2>2. work[c] # None /\ work[c].for = c
    BY <2>1 DEF WorkOK
  <2>. QED BY <2>1, <2>2, WorkEndKept
<1>12. ASSUME NEW c \in Ctx, (\E caps \in Profile : SetLocalCapabilities(c, caps))
                             \/ \E p \in Ctx \cup Site : NoEndpoint(c, p)
       PROVE  WorkOK'
  BY <1>1, <1>12 DEF SetLocalCapabilities, NoEndpoint
<1>13. CASE UNCHANGED vars
  BY <1>1, <1>13 DEF vars
<1>. QED BY <1>2, <1>3, <1>4, <1>5, <1>6, <1>7, <1>8, <1>9, <1>10, <1>11, <1>12, <1>13
         DEF Next, Handle, Offer

(* Every pass of the loop looks at a capability of the context.            *)
LEMMA PassKept ==
  ASSUME TypeOK, WorkOK, PassOK, [Next]_vars
  PROVE  PassOK'
<1> SUFFICES ASSUME NEW c \in Ctx, work'[c] # None
             PROVE  work'[c].i <= Len(hash'[c]) + 1
  BY DEF PassOK
<1>0. hash[c] \in Seq(Capability) /\ Len(hash[c]) \in Nat
  BY DEF TypeOK
<1>1. ASSUME hash'[c] = hash[c], work'[c] = work[c]
      PROVE  work'[c].i <= Len(hash'[c]) + 1
  BY <1>1 DEF PassOK
<1>2. ASSUME NEW d \in Ctx, NEW caps \in Profile, SetLocalCapabilities(d, caps)
      PROVE  work'[c].i <= Len(hash'[c]) + 1
  <2>1. work' = work /\ pc[d] = "idle" /\ hash' = [hash EXCEPT ![d] = hash[d] \o caps]
    BY <1>2 DEF SetLocalCapabilities
  <2>2. c # d
    BY <2>1 DEF WorkOK
  <2>. QED BY <1>1, <2>1, <2>2 DEF TypeOK
<1>3. ASSUME hash' = hash, work'[c].i = 1
      PROVE  work'[c].i <= Len(hash'[c]) + 1
  BY <1>0, <1>3
<1>4. ASSUME NEW s \in Ctx, NEW d \in Ctx, HandlePut(s, d)
      PROVE  work'[c].i <= Len(hash'[c]) + 1
  <2>1. hash' = hash /\ \A x \in Ctx : x # s => work'[x] = work[x]
    BY <1>4, PutTaken DEF HandlePut, TypeOK
  <2>2. work'[s].i = 1
    BY <1>4, PutTaken DEF TypeOK
  <2>. QED BY <1>1, <1>3, <2>1, <2>2
<1>5. ASSUME NEW d \in Ctx, NegotiateRemote(d)
      PROVE  work'[c].i <= Len(hash'[c]) + 1
  <2>1. hash' = hash /\ \A x \in Ctx : x # d => work'[x] = work[x]
    BY <1>5, RemoteTaken DEF NegotiateRemote, TypeOK
  <2>2. work'[d].i = 1
    BY <1>5, RemoteTaken DEF TypeOK
  <2>. QED BY <1>1, <1>3, <2>1, <2>2
<1>6. ASSUME NEW s \in Ctx, Consider(s)
      PROVE  work'[c].i <= Len(hash'[c]) + 1
  <2>1. work[s] \in Work /\ work[s].i \in 1..Len(hash[s]) /\ hash' = hash
    BY <1>6, ConsiderStep DEF Consider
  <2>2. \E dec \in [Groups -> Decision \cup {None}] :
           work' = [work EXCEPT ![s] = Stepped(work[s], dec)]
    BY <1>6, <2>1, ConsiderStep, ChosenTyped DEF Work
  <2>3. PICK w \in Work : w.i = work[s].i + 1 /\ work' = [work EXCEPT ![s] = w]
    BY <2>1, <2>2, SteppedTyped
  <2>4. CASE c = s
    <3>1. work'[c].i = work[s].i + 1
      BY <2>3, <2>4 DEF TypeOK
    <3>. QED BY <1>0, <2>1, <2>4, <3>1
  <2>5. CASE c # s
    BY <1>1, <2>1, <2>3, <2>5
  <2>. QED BY <2>4, <2>5
<1>7. ASSUME NEW s \in Ctx, HandlePutEnd(s) \/ NegotiateRemoteEnd(s)
      PROVE  work'[c].i <= Len(hash'[c]) + 1
  <2>1. hash' = hash /\ work' = [work EXCEPT ![s] = None]
    BY <1>7 DEF HandlePutEnd, NegotiateRemoteEnd, Answered
  <2>2. c # s /\ work'[c] = work[c]
    BY <2>1 DEF TypeOK
  <2>. QED BY <1>1, <2>1, <2>2
<1>. QED BY <1>1, <1>2, <1>4, <1>5, <1>6, <1>7, Cases

-----------------------------------------------------------------------------
(* What a context is told comes from somebody who can do it.               *)
LEMMA ToldMore ==
  ASSUME TypeOK, ToldOK, [Next]_vars, NEW c \in Ctx, NEW q, NEW D,
         \A e \in D : Has(q, e),
         heard'[c] = heard[c] \cup {<<q, e>> : e \in D},
         sub'[c] \subseteq sub[c] \cup D,
         work'[c] # None => work'[c].rem \subseteq sub'[c]
  PROVE  /\ \A e \in sub'[c] : \E h \in heard'[c] : h[2] = e
         /\ \A h \in heard'[c] : Has(h[1], h[2])'
         /\ work'[c] # None => \A r \in work'[c].rem : \E h \in heard'[c] : h[2] = r
<1>1. \A e \in sub'[c] : \E h \in heard'[c] : h[2] = e
  <2> SUFFICES ASSUME NEW e \in sub'[c]
               PROVE  \E h \in heard'[c] : h[2] = e
    OBVIOUS
  <2>1. CASE e \in sub[c]
    BY <2>1 DEF ToldOK
  <2>2. CASE e \in D
    <3>1. <<q, e>> \in heard'[c] /\ <<q, e>>[2] = e
      BY <2>2
    <3>. QED BY <3>1
  <2>. QED BY <2>1, <2>2
<1>2. \A h \in heard'[c] : Has(h[1], h[2])'
  <2> SUFFICES ASSUME NEW h \in heard'[c]
               PROVE  Has(h[1], h[2])'
    OBVIOUS
  <2>1. Has(h[1], h[2])
    <3>1. CASE h \in heard[c]
      BY <3>1 DEF ToldOK
    <3>2. ASSUME NEW e \in D, h = <<q, e>>
          PROVE  Has(h[1], h[2])
      <4>1. h[1] = q /\ h[2] = e
        BY <3>2
      <4>. QED BY <4>1
    <3>. QED BY <3>1, <3>2
  <2>. QED BY <2>1, HasStays
<1>. QED BY <1>1, <1>2

LEMMA ToldKept ==
  ASSUME TypeOK, ToldOK, AnswerOK, [Next]_vars
  PROVE  ToldOK'
<1> DEFINE Goal(c) ==
             /\ \A e \in sub'[c] : \E h \in heard'[c] : h[2] = e
             /\ \A h \in heard'[c] : Has(h[1], h[2])'
             /\ work'[c] # None => \A r \in work'[c].rem : \E h \in heard'[c] : h[2] = r
<1> SUFFICES ASSUME NEW c \in Ctx
             PROVE  Goal(c)
  BY DEF ToldOK
<1>0. /\ DOMAIN sub = Ctx /\ DOMAIN heard = Ctx /\ DOMAIN work = Ctx
  BY DEF TypeOK
<1>1. ASSUME sub'[c] = sub[c], heard'[c] = heard[c],
             work'[c] \in {work[c], None}
             \/ (work[c] # None /\ work'[c].rem = work[c].rem)
      PROVE  Goal(c)
  <2>1. \A h \in heard'[c] : Has(h[1], h[2])'
    <3> SUFFICES ASSUME NEW h \in heard'[c]
                 PROVE  Has(h[1], h[2])'
      OBVIOUS
    <3>1. Has(h[1], h[2])
      BY <1>1 DEF ToldOK
    <3>. QED BY <3>1, HasStays
  <2>. QED BY <1>1, <2>1 DEF ToldOK
<1>2. ASSUME NEW d \in Ctx, NEW caps \in Profile, SetLocalCapabilities(d, caps)
      PROVE  Goal(c)
  <2>1. UNCHANGED <<sub, heard, work>>
    BY <1>2 DEF SetLocalCapabilities
  <2>. QED BY <1>1, <2>1
<1>3. ASSUME NEW s \in Ctx, NEW d \in Ctx, HandlePut(s, d)
      PROVE  Goal(c)
  <2>1. heard' = [heard EXCEPT ![s] = heard[s] \cup {<<d, e>> : e \in Document(hash[d])}]
    BY <1>3 DEF HandlePut
  <2>2. /\ sub'[s] \subseteq sub[s] \cup Document(hash[d])
        /\ sub' = [sub EXCEPT ![s] = sub'[s]]
        /\ \E rem \in SUBSET sub'[s] :
             work' = [work EXCEPT ![s] = [for |-> d, i |-> 1, rem |-> rem, dec |-> NoDecision]]
    BY <1>3, PutTaken
  <2>3. CASE c = s
    <3>1. work'[s].rem \subseteq sub'[s]
      BY <1>0, <2>2
    <3>2. \A e \in Document(hash[d]) : Has(d, e)
      BY TellsWhatItHas
    <3>3. heard'[s] = heard[s] \cup {<<d, e>> : e \in Document(hash[d])}
      BY <1>0, <2>1
    <3>. QED BY <2>2, <2>3, <3>1, <3>2, <3>3, ToldMore
  <2>4. CASE c # s
    <3>1. sub'[c] = sub[c] /\ heard'[c] = heard[c] /\ work'[c] = work[c]
      BY <1>0, <2>1, <2>2, <2>4
    <3>. QED BY <1>1, <3>1
  <2>. QED BY <2>3, <2>4
<1>4. ASSUME NEW s \in Ctx, Consider(s)
      PROVE  Goal(c)
  <2>1. UNCHANGED <<sub, heard>> /\ work[s] # None /\ work[s] \in Work
    BY <1>4, ConsiderStep DEF Consider
  <2>2. \E dec \in [Groups -> Decision \cup {None}] :
           work' = [work EXCEPT ![s] = Stepped(work[s], dec)]
    BY <1>4, <2>1, ConsiderStep, ChosenTyped DEF Work
  <2>3. PICK w \in Work : w.rem = work[s].rem /\ work' = [work EXCEPT ![s] = w]
    BY <2>1, <2>2, SteppedTyped
  <2>4. work'[c] = work[c] \/ (work[c] # None /\ work'[c].rem = work[c].rem)
    BY <1>0, <2>1, <2>3
  <2>. QED BY <1>1, <2>1, <2>4
<1>5. ASSUME NEW s \in Ctx, HandlePutEnd(s) \/ NegotiateRemoteEnd(s)
      PROVE  Goal(c)
  <2>1. UNCHANGED <<sub, heard>> /\ work' = [work EXCEPT ![s] = None]
    BY <1>5 DEF HandlePutEnd, NegotiateRemoteEnd
  <2>2. work'[c] \in {work[c], None}
    BY <1>0, <2>1
  <2>. QED BY <1>1, <2>1, <2>2
<1>6. ASSUME NEW d \in Ctx, NegotiateRemote(d)
      PROVE  Goal(c)
  <2>1. /\ heard' = [heard EXCEPT ![d] = heard[d] \cup {<<peer[d], e>> : e \in response[d]}]
        /\ pc[d] = "apply"
    BY <1>6 DEF NegotiateRemote
  <2>2. /\ sub'[d] \subseteq sub[d] \cup response[d]
        /\ sub' = [sub EXCEPT ![d] = sub'[d]]
        /\ work' = [work EXCEPT ![d] = [for |-> d, i |-> 1, rem |-> sub'[d],
                                        dec |-> NoDecision]]
    BY <1>6, RemoteTaken
  <2>3. CASE c = d
    <3>1. work'[d].rem \subseteq sub'[d]
      BY <1>0, <2>2
    <3>2. \A e \in response[d] : Has(peer[d], e)
      BY <2>1 DEF AnswerOK, AnswerOf
    <3>3. heard'[d] = heard[d] \cup {<<peer[d], e>> : e \in response[d]}
      BY <1>0, <2>1
    <3>. QED BY <2>2, <2>3, <3>1, <3>2, <3>3, ToldMore
  <2>4. CASE c # d
    <3>1. sub'[c] = sub[c] /\ heard'[c] = heard[c] /\ work'[c] = work[c]
      BY <1>0, <2>1, <2>2, <2>4
    <3>. QED BY <1>1, <3>1
  <2>. QED BY <2>3, <2>4
<1>. QED BY <1>1, <1>2, <1>3, <1>4, <1>5, <1>6, Cases

-----------------------------------------------------------------------------
(* Nobody forgets what he was told, or who answered him.                   *)
LEMMA HistoryGrows ==
  ASSUME TypeOK, [Next]_vars
  PROVE  \A c \in Ctx : heard[c] \subseteq heard'[c] /\ fromPeer[c] \subseteq fromPeer'[c]
<1>0. DOMAIN heard = Ctx /\ DOMAIN fromPeer = Ctx
  BY DEF TypeOK
<1>1. \A c \in Ctx : heard[c] \subseteq heard'[c]
  <2>1. ASSUME NEW s \in Ctx, NEW D, heard' = [heard EXCEPT ![s] = heard[s] \cup D]
        PROVE  \A c \in Ctx : heard[c] \subseteq heard'[c]
    BY <1>0, <2>1
  <2>2. ASSUME NEW s \in Ctx, NEW c \in Ctx, HandlePut(s, c) \/ NegotiateRemote(s)
        PROVE  \E D : heard' = [heard EXCEPT ![s] = heard[s] \cup D]
    BY <2>2 DEF HandlePut, NegotiateRemote
  <2>3. ASSUME NEW s \in Ctx, \/ \E caps \in Profile : SetLocalCapabilities(s, caps)
                              \/ Consider(s) \/ HandlePutEnd(s) \/ NegotiateRemoteEnd(s)
        PROVE  heard' = heard
    BY <2>3 DEF SetLocalCapabilities, Consider, HandlePutEnd, NegotiateRemoteEnd
  <2>. QED BY <2>1, <2>2, <2>3, Cases
<1>2. \A c \in Ctx : fromPeer[c] \subseteq fromPeer'[c]
  <2>1. ASSUME NEW d, NEW doc, Answered(d, doc)
        PROVE  \A c \in Ctx : fromPeer[c] \subseteq fromPeer'[c]
    <3>1. \E D : fromPeer' = [fromPeer EXCEPT ![d] = fromPeer[d] \cup D]
      BY <2>1 DEF Answered
    <3>. QED BY <1>0, <3>1
  <2>2. fromPeer' = fromPeer \/ \E d, doc : Answered(d, doc)
    <3>1. ASSUME NEW c \in Ctx, NEW d \in Ctx, HandleGet(c, d) \/ HandlePutEnd(c) \/ SiteAnswers(c)
          PROVE  \E x, doc : Answered(x, doc)
      BY <3>1 DEF HandleGet, HandlePutEnd, SiteAnswers
    <3>2. ASSUME NEW c \in Ctx, NEW d \in Ctx,
                 HandleUnready(c, d) \/ HandleRefuse(c, d) \/ HandlePut(c, d) \/ Consider(c)
          PROVE  fromPeer' = fromPeer
      BY <3>2 DEF HandleUnready, HandleRefuse, HandlePut, Consider, Refused
    <3>3. ASSUME NEW c \in Ctx, NEW p \in Ctx \cup Site,
                 \/ NoEndpoint(c, p) \/ SendOffer(c, p) \/ SiteRefuses(c) \/ SetFinal(c)
                 \/ NegotiateRemote(c) \/ NegotiateRemoteEnd(c)
          PROVE  fromPeer' = fromPeer
      BY <3>3 DEF NoEndpoint, SendOffer, SiteRefuses, SetFinal, NegotiateRemote,
                  NegotiateRemoteEnd, Refused
    <3>4. ASSUME NEW c \in Ctx,
                 \/ \E caps \in Profile : SetLocalCapabilities(c, caps)
                 \/ RunServer(c) \/ SetUserData(c) \/ Configure(c)
          PROVE  fromPeer' = fromPeer
      BY <3>4 DEF SetLocalCapabilities, RunServer, SetUserData, Configure
    <3>5. CASE UNCHANGED vars
      BY <3>5 DEF vars
    <3>. QED BY <3>1, <3>2, <3>3, <3>4, <3>5 DEF Next, Handle, Offer
  <2>. QED BY <2>1, <2>2
<1>. QED BY <1>1, <1>2

-----------------------------------------------------------------------------
(* A decision is one of the context and of somebody it has heard.          *)
LEMMA DecisionsMade ==
  ASSUME TypeOK, PassOK, ToldOK, BestDecision, NEW s \in Ctx, work[s] # None,
         NEW e \in Decisions(work[s])
  PROVE  Has(s, e) /\ \E h \in heard[s] : Has(h[1], e)
<1> DEFINE w == work[s]
           g == e.group
<1>1. w \in Work /\ hash[s] \in Seq(Capability) /\ Len(hash[s]) \in Nat
  BY DEF TypeOK
<1>2. g \in Groups /\ w.dec[g] # None /\ e.type = w.dec[g].type
  BY <1>1, DecisionsTyped
<1>3. FromAPair(w, Considered(hash[s], w), g)
  BY <1>2, BestIs DEF BestOf
<1>4. PICK p \in Considered(hash[s], w) : p[1].group = g /\ e.type = TypeOf(p[1], p[2])
  BY <1>2, <1>3 DEF FromAPair
<1>5. /\ p[1] \in {hash[s][i] : i \in 1..w.i - 1} /\ p[2] \in w.rem
      /\ p[1].group = p[2].group /\ p[1].type = p[2].type
  BY <1>4 DEF Considered
<1>6. PICK i \in 1..w.i - 1 : p[1] = hash[s][i]
  BY <1>5
<1>7. i \in DOMAIN hash[s]
  <2>1. w.i <= Len(hash[s]) + 1 /\ w.i \in Nat
    BY <1>1 DEF PassOK, Work
  <2>. QED BY <1>1, <1>6, <2>1
<1>8. p[1].type \in {e.type, Any}
  BY <1>4 DEF TypeOf
<1>9. Has(s, e)
  BY <1>4, <1>6, <1>7, <1>8 DEF Has
<1>10. PICK h \in heard[s] : h[2] = p[2]
  BY <1>5 DEF ToldOK
<1>11. Has(h[1], p[2])
  BY <1>10 DEF ToldOK
<1>12. \A x : x \in {p[2].type, Any} => x \in {e.type, Any}
  BY <1>5, <1>8
<1>13. Has(h[1], e)
  <2>1. p[2].group = e.group
    BY <1>4, <1>5
  <2> HIDE DEF g, w
  <2>2. CASE h[1] \in Ctx
    BY <1>11, <1>12, <2>1, <2>2 DEF Has
  <2>3. CASE h[1] \notin Ctx
    BY <1>11, <1>12, <2>1, <2>3 DEF Has
  <2>. QED BY <2>2, <2>3
<1>. QED BY <1>9, <1>10, <1>13

LEMMA DecidedAfterOK ==
  ASSUME TypeOK, PassOK, ToldOK, BestDecision, DecidedOK, NEW s \in Ctx, work[s] # None,
         NEW e \in DecidedAfter(s)
  PROVE  Has(s, e) /\ \E h \in heard[s] : Has(h[1], e)
<1>1. e \in decided[s] \/ e \in Decisions(work[s])
  BY DEF DecidedAfter
<1>. QED BY <1>1, DecisionsMade DEF DecidedOK

LEMMA DecidedKept ==
  ASSUME TypeOK, WorkOK, PassOK, ToldOK, BestDecision, DecidedOK, [Next]_vars
  PROVE  DecidedOK'
<1> SUFFICES ASSUME NEW c \in Ctx, NEW e \in decided'[c]
             PROVE  Has(c, e)' /\ \E h \in heard'[c] : Has(h[1], e)'
  BY DEF DecidedOK
<1>1. ASSUME Has(c, e), NEW h \in heard[c], Has(h[1], e)
      PROVE  Has(c, e)' /\ \E x \in heard'[c] : Has(x[1], e)'
  <2>1. Has(c, e)' /\ Has(h[1], e)'
    BY <1>1, HasStays
  <2>2. h \in heard'[c]
    BY HistoryGrows
  <2>. QED BY <2>1, <2>2
<1>2. ASSUME e \in decided[c]
      PROVE  Has(c, e)' /\ \E x \in heard'[c] : Has(x[1], e)'
  <2>1. PICK h \in heard[c] : Has(c, e) /\ Has(h[1], e)
    BY <1>2 DEF DecidedOK
  <2>. QED BY <1>1, <2>1
<1>3. ASSUME NEW s \in Ctx, HandlePutEnd(s) \/ NegotiateRemoteEnd(s)
      PROVE  Has(c, e)' /\ \E x \in heard'[c] : Has(x[1], e)'
  <2>1. decided' = [decided EXCEPT ![s] = DecidedAfter(s)]
    BY <1>3 DEF HandlePutEnd, NegotiateRemoteEnd
  <2>2. work[s] # None
    BY <1>3 DEF HandlePutEnd, NegotiateRemoteEnd, WorkOK
  <2>3. CASE c = s
    <3>1. e \in DecidedAfter(s)
      BY <2>1, <2>3 DEF TypeOK
    <3>2. PICK h \in heard[c] : Has(c, e) /\ Has(h[1], e)
      BY <2>2, <2>3, <3>1, DecidedAfterOK
    <3>. QED BY <1>1, <3>2
  <2>4. CASE c # s
    <3>1. e \in decided[c]
      BY <2>1, <2>4 DEF TypeOK
    <3>. QED BY <1>2, <3>1
  <2>. QED BY <2>3, <2>4
<1>4. ASSUME NEW s \in Ctx, NEW d \in Ctx,
             \/ \E caps \in Profile : SetLocalCapabilities(s, caps)
             \/ HandlePut(s, d) \/ Consider(s) \/ NegotiateRemote(s)
      PROVE  decided' = decided
  BY <1>4 DEF SetLocalCapabilities, HandlePut, Consider, NegotiateRemote
<1>. QED BY <1>2, <1>3, <1>4, Cases

-----------------------------------------------------------------------------
(* Where a program stands with its offer.                                  *)
LEMMA AnswerStays ==
  ASSUME TypeOK, AnswerOK, [Next]_vars, NEW c \in Ctx,
         pc'[c] = pc[c], clientNego'[c] = clientNego[c], peer'[c] = peer[c],
         response'[c] = response[c]
  PROVE  AnswerOf(c)'
<1>1. AnswerOf(c)
  BY DEF AnswerOK
<1>2. ASSUME pc[c] = "apply"
      PROVE  (\A e \in response[c] : Has(peer[c], e))'
  <2>1. \A e \in response[c] : Has(peer[c], e)
    BY <1>1, <1>2 DEF AnswerOf
  <2>2. PICK y : y = peer[c]
    OBVIOUS
  <2>3. \A e \in response[c] : Has(y, e)'
    BY <2>1, <2>2, HasStays
  <2>. QED BY <2>2, <2>3 DEF Has
<1>3. ASSUME pc[c] = "apply"
      PROVE  (\E p \in fromPeer[c] :
                /\ p[1] = peer[c]
                /\ clientNego[c] \/ \A e \in response[c] : \E x \in p[2] : Has(x, e))'
  <2>1. PICK p \in fromPeer[c] :
          /\ p[1] = peer[c]
          /\ clientNego[c] \/ \A e \in response[c] : \E x \in p[2] : Has(x, e)
    BY <1>1, <1>3 DEF AnswerOf
  <2>2. p \in fromPeer'[c]
    BY HistoryGrows
  <2>3. clientNego'[c] \/ \A e \in response'[c] : \E x \in p[2] : Has(x, e)'
    BY <2>1, HasStays
  <2>. QED BY <2>1, <2>2, <2>3
<1>4. /\ pc'[c] = "get" => clientNego'[c]
      /\ pc'[c] \in {"put", "get", "apply", "deciding"} => peer'[c] \in Ctx \cup Site
  BY <1>1 DEF AnswerOf
<1>. QED BY <1>2, <1>3, <1>4 DEF AnswerOf

(* The peer answers.                                                       *)
LEMMA AnswerArrives ==
  ASSUME TypeOK, AnswerOK, [Next]_vars, NEW d \in Ctx, NEW doc, Answered(d, doc),
         peer[d] \in Ctx \cup Site, \A e \in doc : Has(peer[d], e),
         \/ clientNego[d]
         \/ /\ peer[d] \in Ctx
            /\ \A e \in doc : \E h \in heard[peer[d]] : Has(h[1], e),
         NEW c \in Ctx
  PROVE  AnswerOf(c)'
<1>1. /\ pc' = [pc EXCEPT ![d] = "apply"] /\ response' = [response EXCEPT ![d] = doc]
      /\ UNCHANGED <<hash, clientNego, peer>>
      /\ DOMAIN pc = Ctx /\ DOMAIN response = Ctx /\ DOMAIN fromPeer = Ctx
  BY DEF Answered, TypeOK
<1>2. CASE c # d
  <2>1. pc'[c] = pc[c] /\ response'[c] = response[c]
    BY <1>1, <1>2
  <2>. QED BY <1>1, <2>1, AnswerStays
<1>3. CASE c = d
  <2> DEFINE p == <<peer[d], IF peer[d] \in Ctx THEN {h[1] : h \in heard[peer[d]]} ELSE {}>>
  <2>1. pc'[c] = "apply" /\ response'[c] = doc /\ peer'[c] = peer[d]
        /\ clientNego'[c] = clientNego[d]
    BY <1>1, <1>3
  <2>2. p \in fromPeer'[c]
    BY <1>1, <1>3 DEF Answered
  <2>3. p[1] = peer[d] /\ (peer[d] \in Ctx => p[2] = {h[1] : h \in heard[peer[d]]})
    OBVIOUS
  <2> HIDE DEF p
  <2>4. (\A e \in response[c] : Has(peer[c], e))'
    BY <1>1, <2>1 DEF Has
  <2>5. clientNego'[c] \/ \A e \in response'[c] : \E x \in p[2] : Has(x, e)'
    <3> SUFFICES ASSUME ~clientNego[d], NEW e \in doc
                 PROVE  \E x \in p[2] : Has(x, e)'
      BY <2>1
    <3>1. PICK h \in heard[peer[d]] : Has(h[1], e)
      OBVIOUS
    <3>2. h[1] \in p[2]
      BY <2>3
    <3>. QED BY <3>1, <3>2, HasStays
  <2>6. (\E q \in fromPeer[c] :
           /\ q[1] = peer[c]
           /\ clientNego[c] \/ \A e \in response[c] : \E x \in q[2] : Has(x, e))'
    BY <2>1, <2>2, <2>3, <2>5
  <2>7. peer'[c] \in Ctx \cup Site /\ pc'[c] # "get"
    BY <2>1
  <2>. QED BY <2>4, <2>6, <2>7 DEF AnswerOf
<1>. QED BY <1>2, <1>3

LEMMA AnswerKept ==
  ASSUME TypeOK, WorkOK, PassOK, ToldOK, BestDecision, DecidedOK, AnswerOK, [Next]_vars
  PROVE  AnswerOK'
<1> SUFFICES ASSUME NEW c \in Ctx
             PROVE  AnswerOf(c)'
  BY DEF AnswerOK
<1>0. DOMAIN pc = Ctx /\ DOMAIN peer = Ctx /\ DOMAIN clientNego = Ctx /\ DOMAIN response = Ctx
  BY DEF TypeOK
<1>1. ASSUME NEW d \in Ctx,
             \/ \E caps \in Profile : SetLocalCapabilities(d, caps)
             \/ Consider(d) \/ \E s \in Ctx : HandlePut(d, s)
      PROVE  AnswerOf(c)'
  <2>1. UNCHANGED <<pc, clientNego, peer, response>>
    BY <1>1 DEF SetLocalCapabilities, Consider, HandlePut
  <2>. QED BY <2>1, AnswerStays
<1>2. ASSUME NEW d \in Ctx,
             \/ RunServer(d) \/ SetUserData(d) \/ Configure(d) \/ SetFinal(d)
             \/ NegotiateRemoteEnd(d) \/ \E s \in Ctx : HandleUnready(d, s)
      PROVE  AnswerOf(c)'
  <2>1. /\ \E v \in {"idle", "bound", "serving", "configured", "crashed"} :
              pc' = [pc EXCEPT ![d] = v]
        /\ peer' = peer \/ \E q : peer' = [peer EXCEPT ![d] = q]
        /\ UNCHANGED <<clientNego, response>>
    BY <1>2 DEF RunServer, SetUserData, Configure, SetFinal, NegotiateRemoteEnd, HandleUnready
  <2>2. CASE c # d
    <3>1. pc'[c] = pc[c] /\ peer'[c] = peer[c]
      BY <1>0, <2>1, <2>2
    <3>. QED BY <2>1, <3>1, AnswerStays
  <2>3. CASE c = d
    <3>1. pc'[c] \in {"idle", "bound", "serving", "configured", "crashed"}
      BY <1>0, <2>1, <2>3
    <3>. QED BY <3>1 DEF AnswerOf
  <2>. QED BY <2>2, <2>3
<1>3. ASSUME NEW d \in Ctx, NEW p \in Ctx \cup Site, NoEndpoint(d, p)
      PROVE  AnswerOf(c)'
  <2>1. pc[d] = "idle" /\ UNCHANGED <<pc, clientNego, peer>>
        /\ response' = [response EXCEPT ![d] = {}]
    BY <1>3 DEF NoEndpoint
  <2>2. CASE c # d
    <3>1. response'[c] = response[c]
      BY <1>0, <2>1, <2>2
    <3>. QED BY <2>1, <3>1, AnswerStays
  <2>3. CASE c = d
    BY <2>1, <2>3 DEF AnswerOf
  <2>. QED BY <2>2, <2>3
<1>4. ASSUME NEW d \in Ctx, NEW p \in Ctx \cup Site, SendOffer(d, p)
      PROVE  AnswerOf(c)'
  <2>1. /\ pc' = [pc EXCEPT ![d] = "put"] /\ peer' = [peer EXCEPT ![d] = p]
        /\ UNCHANGED <<clientNego, response>>
    BY <1>4 DEF SendOffer
  <2>2. CASE c # d
    <3>1. pc'[c] = pc[c] /\ peer'[c] = peer[c]
      BY <1>0, <2>1, <2>2
    <3>. QED BY <2>1, <3>1, AnswerStays
  <2>3. CASE c = d
    <3>1. pc'[c] = "put" /\ peer'[c] = p
      BY <1>0, <2>1, <2>3
    <3>. QED BY <3>1 DEF AnswerOf
  <2>. QED BY <2>2, <2>3
<1>5. ASSUME NEW d \in Ctx, SiteRefuses(d) \/ \E s \in Ctx : HandleRefuse(s, d)
      PROVE  AnswerOf(c)'
  <2>1. /\ pc[d] = "put" /\ pc' = [pc EXCEPT ![d] = "get"]
        /\ clientNego' = [clientNego EXCEPT ![d] = TRUE] /\ UNCHANGED <<peer, response>>
    BY <1>5 DEF SiteRefuses, HandleRefuse, Refused
  <2>2. CASE c # d
    <3>1. pc'[c] = pc[c] /\ clientNego'[c] = clientNego[c]
      BY <1>0, <2>1, <2>2
    <3>. QED BY <2>1, <3>1, AnswerStays
  <2>3. CASE c = d
    <3>1. pc'[c] = "get" /\ clientNego'[c] = TRUE /\ peer'[c] \in Ctx \cup Site
      BY <1>0, <2>1, <2>3 DEF AnswerOK, AnswerOf
    <3>. QED BY <3>1 DEF AnswerOf
  <2>. QED BY <2>2, <2>3
<1>6. ASSUME NEW d \in Ctx, SiteAnswers(d)
      PROVE  AnswerOf(c)'
  <2>1. PICK doc \in SiteDocs : Answered(d, doc)
    BY <1>6 DEF SiteAnswers
  <2>2. pc[d] = "get" /\ peer[d] \in Site /\ peer[d] \notin Ctx /\ clientNego[d]
    BY <1>6, SiteAssumption DEF SiteAnswers, AnswerOK, AnswerOf
  <2>3. \A e \in doc : Has(peer[d], e)
    BY <2>1, <2>2 DEF Has
  <2>. QED BY <2>1, <2>2, <2>3, AnswerArrives
<1>7. ASSUME NEW s \in Ctx, NEW d \in Ctx, HandleGet(s, d)
      PROVE  AnswerOf(c)'
  <2>1. Answered(d, Document(hash[s])) /\ peer[d] = s /\ pc[d] = "get"
    BY <1>7 DEF HandleGet
  <2>2. clientNego[d]
    BY <2>1 DEF AnswerOK, AnswerOf
  <2>3. \A e \in Document(hash[s]) : Has(s, e)
    BY TellsWhatItHas
  <2>4. peer[d] \in Ctx \cup Site /\ \A e \in Document(hash[s]) : Has(peer[d], e)
    BY <2>1, <2>3
  <2>. QED BY <2>1, <2>2, <2>4, AnswerArrives
<1>8. ASSUME NEW s \in Ctx, HandlePutEnd(s)
      PROVE  AnswerOf(c)'
  <2> DEFINE d == work[s].for
  <2>1. work[s] # None /\ d # s /\ Answered(d, DecidedAfter(s))
    BY <1>8 DEF HandlePutEnd
  <2>2. d \in Ctx /\ peer[d] = s
    BY <2>1 DEF WorkOK, TypeOK, Work
  <2> HIDE DEF d
  <2>3. \A e \in DecidedAfter(s) : Has(s, e) /\ \E h \in heard[s] : Has(h[1], e)
    BY <2>1, DecidedAfterOK
  <2>4. /\ peer[d] \in Ctx /\ \A e \in DecidedAfter(s) : Has(peer[d], e)
        /\ \A e \in DecidedAfter(s) : \E h \in heard[peer[d]] : Has(h[1], e)
    BY <2>2, <2>3
  <2>. QED BY <2>1, <2>2, <2>4, AnswerArrives
<1>9. ASSUME NEW d \in Ctx, NegotiateRemote(d)
      PROVE  AnswerOf(c)'
  <2>1. /\ pc[d] = "apply" /\ pc' = [pc EXCEPT ![d] = "deciding"]
        /\ UNCHANGED <<clientNego, peer, response>>
    BY <1>9 DEF NegotiateRemote
  <2>2. CASE c # d
    <3>1. pc'[c] = pc[c]
      BY <1>0, <2>1, <2>2
    <3>. QED BY <2>1, <3>1, AnswerStays
  <2>3. CASE c = d
    <3>1. pc'[c] = "deciding" /\ peer'[c] \in Ctx \cup Site
      BY <1>0, <2>1, <2>3 DEF AnswerOK, AnswerOf
    <3>. QED BY <3>1 DEF AnswerOf
  <2>. QED BY <2>2, <2>3
<1>10. CASE UNCHANGED vars
  <2>1. UNCHANGED <<pc, clientNego, peer, response>>
    BY <1>10 DEF vars
  <2>. QED BY <2>1, AnswerStays
<1>. QED BY <1>1, <1>2, <1>3, <1>4, <1>5, <1>6, <1>7, <1>8, <1>9, <1>10
         DEF Next, Handle, Offer

-----------------------------------------------------------------------------
(* A program that has begun to serve does not offer any more.              *)
LEMMA ServesForEver ==
  ASSUME TypeOK, WorkOK, [Next]_vars, NEW c \in Ctx, pc[c] \in {"bound", "serving", "crashed"}
  PROVE  pc'[c] \in {"bound", "serving", "crashed"}
<1>0. DOMAIN pc = Ctx
  BY DEF TypeOK
<1>1. ASSUME NEW d \in Ctx, pc[d] \notin {"bound", "serving", "crashed"},
             NEW v, pc' = [pc EXCEPT ![d] = v]
      PROVE  pc'[c] \in {"bound", "serving", "crashed"}
  BY <1>0, <1>1
<1>2. ASSUME NEW d \in Ctx, NEW p \in Ctx \cup Site, NEW s \in Ctx,
             \/ RunServer(d) \/ Configure(d) \/ SetFinal(d) \/ NegotiateRemote(d)
             \/ NegotiateRemoteEnd(d) \/ SendOffer(d, p) \/ SiteRefuses(d) \/ SiteAnswers(d)
             \/ HandleGet(s, d) \/ HandleRefuse(s, d)
      PROVE  /\ pc[d] \notin {"bound", "serving", "crashed"}
             /\ \E v : pc' = [pc EXCEPT ![d] = v]
  BY <1>2 DEF RunServer, Configure, SetFinal, NegotiateRemote, NegotiateRemoteEnd,
              SendOffer, SiteRefuses, SiteAnswers, HandleGet, HandleRefuse, Answered, Refused
<1>3. ASSUME NEW d \in Ctx, SetUserData(d) \/ \E s \in Ctx : HandleUnready(d, s)
      PROVE  pc'[c] \in {"bound", "serving", "crashed"}
  BY <1>0, <1>3 DEF SetUserData, HandleUnready
<1>4. ASSUME NEW d \in Ctx, NEW p \in Ctx \cup Site, NEW s \in Ctx,
             \/ \E caps \in Profile : SetLocalCapabilities(d, caps)
             \/ NoEndpoint(d, p) \/ HandlePut(s, d) \/ Consider(d)
      PROVE  pc' = pc
  BY <1>4 DEF SetLocalCapabilities, NoEndpoint, HandlePut, Consider
<1>5. ASSUME NEW s \in Ctx, HandlePutEnd(s)
      PROVE  pc'[c] \in {"bound", "serving", "crashed"}
  <2>1. work[s] # None /\ work[s].for # s /\ pc' = [pc EXCEPT ![work[s].for] = "apply"]
    BY <1>5 DEF HandlePutEnd, Answered
  <2>2. work[s].for \in Ctx /\ pc[work[s].for] = "put"
    BY <2>1 DEF WorkOK, TypeOK, Work
  <2>. QED BY <1>1, <2>1, <2>2
<1>6. CASE UNCHANGED vars
  BY <1>6 DEF vars
<1>. QED BY <1>1, <1>2, <1>3, <1>4, <1>5, <1>6 DEF Next, Handle, Offer

LEMMA HeardKept ==
  ASSUME TypeOK, WorkOK, AnswerOK, HeardOK, [Next]_vars
  PROVE  HeardOK'
<1> SUFFICES ASSUME NEW c \in Ctx, pc'[c] \notin {"bound", "serving", "crashed"},
                    NEW h \in heard'[c]
             PROVE  \E p \in fromPeer'[c] : p[1] = h[1]
  BY DEF HeardOK
<1>0. DOMAIN heard = Ctx /\ fromPeer[c] \subseteq fromPeer'[c]
  BY HistoryGrows DEF TypeOK
<1>1. pc[c] \notin {"bound", "serving", "crashed"}
  BY ServesForEver
<1>2. CASE h \in heard[c]
  BY <1>0, <1>1, <1>2 DEF HeardOK
<1>3. ASSUME NEW s \in Ctx, NEW d \in Ctx, HandlePut(s, d)
      PROVE  h \in heard[c]
  <2>1. pc[s] = "serving" /\ \E D : heard' = [heard EXCEPT ![s] = D]
    BY <1>3 DEF HandlePut
  <2>. QED BY <1>0, <1>1, <2>1
<1>4. ASSUME NEW d \in Ctx, NegotiateRemote(d)
      PROVE  h \in heard[c] \/ \E p \in fromPeer'[c] : p[1] = h[1]
  <2>1. /\ heard' = [heard EXCEPT ![d] = heard[d] \cup {<<peer[d], e>> : e \in response[d]}]
        /\ pc[d] = "apply"
    BY <1>4 DEF NegotiateRemote
  <2>2. CASE c = d /\ h \notin heard[c]
    <3>1. h \in {<<peer[d], e>> : e \in response[d]}
      BY <1>0, <2>1, <2>2
    <3>2. h[1] = peer[d]
      BY <3>1
    <3>3. \E p \in fromPeer[d] : p[1] = peer[d]
      BY <2>1 DEF AnswerOK, AnswerOf
    <3>. QED BY <1>0, <2>2, <3>2, <3>3
  <2>3. CASE c # d
    BY <1>0, <2>1, <2>3
  <2>. QED BY <2>2, <2>3
<1>5. ASSUME NEW s \in Ctx, \/ \E caps \in Profile : SetLocalCapabilities(s, caps)
                            \/ Consider(s) \/ HandlePutEnd(s) \/ NegotiateRemoteEnd(s)
      PROVE  heard' = heard
  BY <1>5 DEF SetLocalCapabilities, Consider, HandlePutEnd, NegotiateRemoteEnd
<1>. QED BY <1>2, <1>3, <1>4, <1>5, Cases

-----------------------------------------------------------------------------
(* What becomes final.                                                     *)
LEMMA FinalSteps ==
  ASSUME [Next]_vars
  PROVE  \/ final' = final
         \/ \E c \in Ctx : SetFinal(c) \/ NegotiateRemoteEnd(c)
<1>1. ASSUME NEW d \in Ctx, NEW p \in Ctx \cup Site, NEW s \in Ctx,
             \/ RunServer(d) \/ SetUserData(d) \/ NoEndpoint(d, p) \/ SendOffer(d, p)
             \/ SiteRefuses(d) \/ SiteAnswers(d)
             \/ \E caps \in Profile : SetLocalCapabilities(d, caps)
      PROVE  final' = final
  BY <1>1 DEF RunServer, SetUserData, NoEndpoint, SendOffer, SiteRefuses, SiteAnswers,
              SetLocalCapabilities, Answered, Refused
<1>2. ASSUME NEW d \in Ctx, NEW s \in Ctx,
             \/ HandleUnready(s, d) \/ HandleGet(s, d) \/ HandleRefuse(s, d) \/ HandlePut(s, d)
             \/ Consider(s) \/ HandlePutEnd(s) \/ NegotiateRemote(d)
      PROVE  final' = final
  BY <1>2 DEF HandleUnready, HandleGet, HandleRefuse, HandlePut, Consider, HandlePutEnd,
              NegotiateRemote, Answered, Refused
<1>3. ASSUME NEW d \in Ctx, Configure(d)
      PROVE  final' = final
  BY <1>3 DEF Configure
<1>4. CASE UNCHANGED vars
  BY <1>4 DEF vars
<1>. QED BY <1>1, <1>2, <1>3, <1>4 DEF Next, Handle, Offer

(* An entry and the pair that is kept of it come to the same.              *)
LEMMA SameEntry ==
  ASSUME NEW D, NEW e \in Entries(D)
  PROVE  \E f \in D : \A p : (Has(p, f) <=> Has(p, e)) /\ (Has(p, f)' <=> Has(p, e)')
<1>1. PICK f \in D : e = [group |-> f.group, type |-> f.type]
  BY DEF Entries
<1>2. e.group = f.group /\ e.type = f.type
  BY <1>1
<1>. QED BY <1>2 DEF Has

LEMMA AgreedKept ==
  ASSUME TypeOK, WorkOK, PassOK, ToldOK, BestDecision, DecidedOK, AnswerOK, HeardOK,
         AgreedIsShared, [Next]_vars
  PROVE  AgreedIsShared'
<1> SUFFICES ASSUME NEW c \in Ctx, NEW e \in final'[c]
             PROVE  /\ \E p \in fromPeer'[c] : Has(p[1], e)'
                    /\ (\A p \in fromPeer'[c] : p[2] \subseteq {c}) => Has(c, e)'
  BY DEF AgreedIsShared
<1>0. DOMAIN final = Ctx /\ fromPeer[c] \subseteq fromPeer'[c]
  BY HistoryGrows DEF TypeOK
<1>1. ASSUME \E p \in fromPeer[c] : Has(p[1], e),
             (\A p \in fromPeer[c] : p[2] \subseteq {c}) => Has(c, e)
      PROVE  /\ \E p \in fromPeer'[c] : Has(p[1], e)'
             /\ (\A p \in fromPeer'[c] : p[2] \subseteq {c}) => Has(c, e)'
  BY <1>0, <1>1, HasStays
<1>2. CASE e \in final[c]
  BY <1>1, <1>2 DEF AgreedIsShared
<1>3. ASSUME SetFinal(c), e \in Entries(response[c])
      PROVE  /\ \E p \in fromPeer[c] : Has(p[1], e)
             /\ (\A p \in fromPeer[c] : p[2] \subseteq {c}) => Has(c, e)
  <2>1. PICK f \in response[c] : \A p : Has(p, f) <=> Has(p, e)
    BY <1>3, SameEntry
  <2>2. pc[c] = "apply" /\ ~clientNego[c]
    BY <1>3 DEF SetFinal
  <2>3. PICK p \in fromPeer[c] :
          p[1] = peer[c] /\ \A x \in response[c] : \E y \in p[2] : Has(y, x)
    BY <2>2 DEF AnswerOK, AnswerOf
  <2>4. Has(p[1], f)
    BY <2>2, <2>3 DEF AnswerOK, AnswerOf
  <2>5. PICK y \in p[2] : Has(y, f)
    BY <2>3
  <2>6. p[2] \subseteq {c} => Has(c, f)
    BY <2>5
  <2>. QED BY <2>1, <2>4, <2>6
<1>4. ASSUME NegotiateRemoteEnd(c), e \in Entries(DecidedAfter(c))
      PROVE  /\ \E p \in fromPeer[c] : Has(p[1], e)
             /\ (\A p \in fromPeer[c] : p[2] \subseteq {c}) => Has(c, e)
  <2>1. PICK f \in DecidedAfter(c) : \A p : Has(p, f) <=> Has(p, e)
    BY <1>4, SameEntry
  <2>2. pc[c] = "deciding" /\ work[c] # None
    BY <1>4 DEF NegotiateRemoteEnd, WorkOK
  <2>3. PICK h \in heard[c] : Has(c, f) /\ Has(h[1], f)
    BY <2>2, DecidedAfterOK
  <2>4. \E p \in fromPeer[c] : p[1] = h[1]
    BY <2>2 DEF HeardOK
  <2>. QED BY <2>1, <2>3, <2>4
<1>5. ASSUME NEW d \in Ctx, SetFinal(d) \/ NegotiateRemoteEnd(d), e \notin final[c]
      PROVE  /\ \E p \in fromPeer[c] : Has(p[1], e)
             /\ (\A p \in fromPeer[c] : p[2] \subseteq {c}) => Has(c, e)
  <2>1. CASE SetFinal(d)
    <3>1. final' = [final EXCEPT ![d] = final[d] \cup Entries(response[d])]
      BY <2>1 DEF SetFinal, Finally
    <3>2. c = d /\ e \in Entries(response[c])
      BY <1>0, <1>5, <3>1
    <3>. QED BY <1>3, <2>1, <3>2
  <2>2. CASE NegotiateRemoteEnd(d)
    <3>1. final' = [final EXCEPT ![d] = final[d] \cup Entries(DecidedAfter(d))]
      BY <2>2 DEF NegotiateRemoteEnd, Finally
    <3>2. c = d /\ e \in Entries(DecidedAfter(c))
      BY <1>0, <1>5, <3>1
    <3>. QED BY <1>4, <2>2, <3>2
  <2>. QED BY <1>5, <2>1, <2>2
<1>6. CASE final' = final
  BY <1>2, <1>6
<1>. QED BY <1>1, <1>2, <1>5, <1>6, FinalSteps

-----------------------------------------------------------------------------
(* The types of the variables.                                             *)
LEMMA AnsweredTyped ==
  ASSUME TypeOK, NEW d \in Ctx, NEW doc \in SUBSET Offered, Answered(d, doc)
  PROVE  /\ UNCHANGED <<hash, clientNego, endpoint, peer, offers, final>>
         /\ response' \in [Ctx -> SUBSET Offered]
         /\ pc' \in [Ctx -> {"idle", "bound", "serving", "crashed", "put", "get", "apply",
                             "deciding", "configured"}]
         /\ DOMAIN fromPeer' = Ctx
  BY DEF Answered, TypeOK

LEMMA TypeKept ==
  ASSUME TypeOK, WorkOK, AnswerOK, [Next]_vars
  PROVE  TypeOK'
<1>1. ASSUME NEW d \in Ctx, NEW caps \in Profile, SetLocalCapabilities(d, caps)
      PROVE  TypeOK'
  <2>1. hash[d] \o caps \in Seq(Capability)
    BY ProfileAssumption DEF TypeOK
  <2>2. hash' \in [Ctx -> Seq(Capability)]
    BY <1>1, <2>1 DEF SetLocalCapabilities, TypeOK
  <2>. QED BY <1>1, <2>2 DEF SetLocalCapabilities, TypeOK
<1>2. ASSUME NEW d \in Ctx,
             \/ RunServer(d) \/ SetUserData(d) \/ \E s \in Ctx : HandleUnready(d, s)
      PROVE  TypeOK'
  <2>1. pc' \in [Ctx -> {"idle", "bound", "serving", "crashed", "put", "get", "apply",
                         "deciding", "configured"}]
    BY <1>2 DEF RunServer, SetUserData, HandleUnready, TypeOK
  <2>2. UNCHANGED <<hash, sub, decided, final, clientNego, endpoint, peer, response,
                    work, config, offers, heard, fromPeer>>
    BY <1>2 DEF RunServer, SetUserData, HandleUnready
  <2>. QED BY <2>1, <2>2 DEF TypeOK
<1>3. ASSUME NEW d \in Ctx, NEW p \in Ctx \cup Site, NoEndpoint(d, p)
      PROVE  TypeOK'
  <2>1. endpoint' \in [Ctx -> BOOLEAN] /\ response' \in [Ctx -> SUBSET Offered]
    BY <1>3 DEF NoEndpoint, TypeOK
  <2>2. offers' \in [Ctx -> 0..MaxOffers]
    <3>1. offers[d] + 1 \in 0..MaxOffers
      BY <1>3, BoundsAssumption DEF NoEndpoint, TypeOK
    <3>. QED BY <1>3, <3>1 DEF NoEndpoint, TypeOK
  <2>3. UNCHANGED <<hash, sub, decided, final, clientNego, pc, peer, work, config,
                    heard, fromPeer>>
    BY <1>3 DEF NoEndpoint
  <2>. QED BY <2>1, <2>2, <2>3 DEF TypeOK
<1>4. ASSUME NEW d \in Ctx, NEW p \in Ctx \cup Site, SendOffer(d, p)
      PROVE  TypeOK'
  <2>1. /\ pc' \in [Ctx -> {"idle", "bound", "serving", "crashed", "put", "get", "apply",
                            "deciding", "configured"}]
        /\ peer' \in [Ctx -> Ctx \cup Site \cup {None}]
    BY <1>4 DEF SendOffer, TypeOK
  <2>2. offers' \in [Ctx -> 0..MaxOffers]
    <3>1. offers[d] + 1 \in 0..MaxOffers
      BY <1>4, BoundsAssumption DEF SendOffer, TypeOK
    <3>. QED BY <1>4, <3>1 DEF SendOffer, TypeOK
  <2>3. UNCHANGED <<hash, sub, decided, final, clientNego, endpoint, response, work,
                    config, heard, fromPeer>>
    BY <1>4 DEF SendOffer
  <2>. QED BY <2>1, <2>2, <2>3 DEF TypeOK
<1>5. ASSUME NEW d \in Ctx, SiteRefuses(d) \/ \E s \in Ctx : HandleRefuse(s, d)
      PROVE  TypeOK'
  <2>1. Refused(d)
    BY <1>5 DEF SiteRefuses, HandleRefuse
  <2>2. /\ pc' \in [Ctx -> {"idle", "bound", "serving", "crashed", "put", "get", "apply",
                            "deciding", "configured"}]
        /\ clientNego' \in [Ctx -> BOOLEAN]
    BY <2>1 DEF Refused, TypeOK
  <2>3. UNCHANGED <<hash, sub, decided, final, endpoint, peer, response, work, config,
                    offers, heard, fromPeer>>
    BY <2>1 DEF Refused
  <2>. QED BY <2>2, <2>3 DEF TypeOK
<1>6. ASSUME NEW d \in Ctx, SiteAnswers(d) \/ \E s \in Ctx : HandleGet(s, d)
      PROVE  TypeOK'
  <2>1. UNCHANGED <<sub, decided, work, heard>>
    BY <1>6 DEF SiteAnswers, HandleGet
  <2>2. \A doc \in SiteDocs : doc \in SUBSET Offered
    BY OfferedIs
  <2>3. \E doc \in SUBSET Offered : Answered(d, doc)
    BY <1>6, <2>2, TellsWhatItHas DEF SiteAnswers, HandleGet
  <2>. QED BY <2>1, <2>3, AnsweredTyped DEF TypeOK
<1>7. ASSUME NEW s \in Ctx, NEW d \in Ctx, HandlePut(s, d)
      PROVE  TypeOK'
  <2>1. UNCHANGED <<hash, decided, final, clientNego, endpoint, pc, peer, response,
                    config, offers, fromPeer>>
    BY <1>7 DEF HandlePut
  <2>2. Document(hash[d]) \in SUBSET Offered
    BY TellsWhatItHas
  <2>3. sub'[s] \in SUBSET Offered /\ sub' = [sub EXCEPT ![s] = sub'[s]]
    BY <1>7, <2>2, PutTaken DEF TypeOK
  <2>4. sub' \in [Ctx -> SUBSET Offered]
    BY <2>3 DEF TypeOK
  <2>5. PICK rem \in SUBSET sub'[s] :
          work' = [work EXCEPT ![s] = [for |-> d, i |-> 1, rem |-> rem, dec |-> NoDecision]]
    BY <1>7, PutTaken
  <2>6. PICK w \in Work : work' = [work EXCEPT ![s] = w]
    BY <2>3, <2>5, WorkStarts
  <2>7. work' \in [Ctx -> Work \cup {None}]
    BY <2>6 DEF TypeOK
  <2>8. heard' \in [Ctx -> SUBSET ((Ctx \cup Site) \X Offered)]
    BY <1>7, <2>2 DEF HandlePut, TypeOK
  <2>. QED BY <2>1, <2>4, <2>7, <2>8 DEF TypeOK
<1>8. ASSUME NEW s \in Ctx, Consider(s)
      PROVE  TypeOK'
  <2>1. UNCHANGED <<hash, sub, decided, final, clientNego, endpoint, pc, peer, response,
                    config, offers, heard, fromPeer>>
    BY <1>8 DEF Consider
  <2>2. \E dec \in [Groups -> Decision \cup {None}] :
           work[s] \in Work /\ work' = [work EXCEPT ![s] = Stepped(work[s], dec)]
    BY <1>8, ConsiderStep, ChosenTyped DEF Work
  <2>3. PICK w \in Work : work' = [work EXCEPT ![s] = w]
    BY <2>2, SteppedTyped
  <2>4. work' \in [Ctx -> Work \cup {None}]
    BY <2>3 DEF TypeOK
  <2>. QED BY <2>1, <2>4 DEF TypeOK
<1>9. ASSUME NEW s \in Ctx, work[s] # None
      PROVE  DecidedAfter(s) \in SUBSET Offered
  <2>1. work[s] \in Work /\ decided[s] \in SUBSET Offered
    BY <1>9 DEF TypeOK
  <2>. QED BY <2>1, DecisionsTyped DEF DecidedAfter
<1>10. ASSUME NEW s \in Ctx, HandlePutEnd(s)
       PROVE  TypeOK'
  <2>1. /\ work[s] # None /\ decided' = [decided EXCEPT ![s] = DecidedAfter(s)]
        /\ work' = [work EXCEPT ![s] = None] /\ Answered(work[s].for, DecidedAfter(s))
        /\ UNCHANGED <<sub, heard>>
    BY <1>10 DEF HandlePutEnd
  <2>2. DecidedAfter(s) \in SUBSET Offered /\ work[s].for \in Ctx
    BY <1>9, <2>1 DEF TypeOK, Work
  <2>3. decided' \in [Ctx -> SUBSET Offered] /\ work' \in [Ctx -> Work \cup {None}]
    BY <2>1, <2>2 DEF TypeOK
  <2>. QED BY <2>1, <2>2, <2>3, AnsweredTyped DEF TypeOK
<1>11. ASSUME NEW d \in Ctx, SetFinal(d)
       PROVE  TypeOK'
  <2>1. UNCHANGED <<hash, sub, decided, clientNego, endpoint, response, work, config,
                    offers, heard, fromPeer>>
    BY <1>11 DEF SetFinal
  <2>2. /\ pc' \in [Ctx -> {"idle", "bound", "serving", "crashed", "put", "get", "apply",
                            "deciding", "configured"}]
        /\ peer' \in [Ctx -> Ctx \cup Site \cup {None}] /\ DOMAIN final' = Ctx
    BY <1>11 DEF SetFinal, Finally, TypeOK
  <2>. QED BY <2>1, <2>2 DEF TypeOK
<1>12. ASSUME NEW d \in Ctx, NegotiateRemote(d)
       PROVE  TypeOK'
  <2>1. UNCHANGED <<hash, decided, final, clientNego, endpoint, peer, response, config,
                    offers, fromPeer>>
    BY <1>12 DEF NegotiateRemote
  <2>2. sub'[d] \in SUBSET Offered /\ sub' = [sub EXCEPT ![d] = sub'[d]]
    BY <1>12, RemoteTaken DEF TypeOK
  <2>3. sub' \in [Ctx -> SUBSET Offered]
    BY <2>2 DEF TypeOK
  <2>4. PICK w \in Work : work' = [work EXCEPT ![d] = w]
    <3> DEFINE n == [for |-> d, i |-> 1, rem |-> sub'[d], dec |-> NoDecision]
    <3>1. n \in Work
      BY <2>2, WorkStarts
    <3>2. work' = [work EXCEPT ![d] = n]
      BY <1>12, RemoteTaken
    <3> HIDE DEF n
    <3>. QED BY <3>1, <3>2
  <2>5. work' \in [Ctx -> Work \cup {None}]
    BY <2>4 DEF TypeOK
  <2>6. /\ peer[d] \in Ctx \cup Site /\ response[d] \in SUBSET Offered
        /\ heard' = [heard EXCEPT ![d] = heard[d] \cup {<<peer[d], e>> : e \in response[d]}]
        /\ pc' = [pc EXCEPT ![d] = "deciding"]
    BY <1>12 DEF NegotiateRemote, AnswerOK, AnswerOf, TypeOK
  <2>7. heard' \in [Ctx -> SUBSET ((Ctx \cup Site) \X Offered)]
    BY <2>6 DEF TypeOK
  <2>8. pc' \in [Ctx -> {"idle", "bound", "serving", "crashed", "put", "get", "apply",
                         "deciding", "configured"}]
    BY <2>6 DEF TypeOK
  <2>. QED BY <2>1, <2>3, <2>5, <2>7, <2>8 DEF TypeOK
<1>13. ASSUME NEW d \in Ctx, NegotiateRemoteEnd(d)
       PROVE  TypeOK'
  <2>1. UNCHANGED <<hash, sub, clientNego, endpoint, response, config, offers, heard,
                    fromPeer>>
    BY <1>13 DEF NegotiateRemoteEnd
  <2>2. /\ pc' \in [Ctx -> {"idle", "bound", "serving", "crashed", "put", "get", "apply",
                            "deciding", "configured"}]
        /\ peer' \in [Ctx -> Ctx \cup Site \cup {None}] /\ DOMAIN final' = Ctx
    BY <1>13 DEF NegotiateRemoteEnd, Finally, TypeOK
  <2>3. DecidedAfter(d) \in SUBSET Offered
    BY <1>9, <1>13 DEF NegotiateRemoteEnd, WorkOK
  <2>4. decided' \in [Ctx -> SUBSET Offered] /\ work' \in [Ctx -> Work \cup {None}]
    BY <1>13, <2>3 DEF NegotiateRemoteEnd, TypeOK
  <2>. QED BY <2>1, <2>2, <2>4 DEF TypeOK
<1>14. ASSUME NEW d \in Ctx, Configure(d)
       PROVE  TypeOK'
  <2>1. UNCHANGED <<hash, sub, decided, final, clientNego, endpoint, peer, response,
                    work, offers, heard, fromPeer>>
    BY <1>14 DEF Configure
  <2>2. pc' = [pc EXCEPT ![d] = "configured"]
    BY <1>14 DEF Configure
  <2>3. pc' \in [Ctx -> {"idle", "bound", "serving", "crashed", "put", "get", "apply",
                         "deciding", "configured"}]
    BY <2>2 DEF TypeOK
  <2>. QED BY <2>1, <2>3 DEF TypeOK
<1>15. CASE UNCHANGED vars
  BY <1>15 DEF vars, TypeOK
<1>. QED BY <1>1, <1>2, <1>3, <1>4, <1>5, <1>6, <1>7, <1>8, <1>10, <1>11, <1>12, <1>13,
            <1>14, <1>15 DEF Next, Handle, Offer

-----------------------------------------------------------------------------
(* The invariant holds at the start and at every step.                     *)
LEMMA InitInv == Init => IInv
<1> SUFFICES ASSUME Init
             PROVE  IInv
  OBVIOUS
<1>1. TypeOK
  <2>1. hash \in [Ctx -> Seq(Capability)]
    BY DEF Init
  <2>2. offers \in [Ctx -> 0..MaxOffers]
    BY BoundsAssumption DEF Init
  <2>. QED BY <2>1, <2>2 DEF Init, TypeOK
<1>2. \A c \in Ctx : /\ work[c] = None /\ pc[c] = "idle" /\ sub[c] = {} /\ heard[c] = {}
                     /\ decided[c] = {} /\ final[c] = {}
  BY DEF Init
<1>3. WorkOK /\ PassOK /\ ToldOK /\ DecidedOK
  BY <1>2 DEF WorkOK, PassOK, ToldOK, DecidedOK
<1>4. AnswerOK /\ HeardOK
  BY <1>2 DEF AnswerOK, AnswerOf, HeardOK
<1>5. AgreedIsShared
  BY <1>2 DEF AgreedIsShared
<1>6. BestDecision
  BY <1>2, BestIs
<1>. QED BY <1>1, <1>3, <1>4, <1>5, <1>6 DEF IInv

LEMMA NextInv == IInv /\ [Next]_vars => IInv'
  BY TypeKept, WorkKept, PassKept, ToldKept, DecidedKept, AnswerKept, HeardKept, BestKept,
     AgreedKept DEF IInv

(* The inductive invariant: who works for whom, where everything that was  *)
(* told, decided and answered comes from.                                  *)
THEOREM Invariance == Spec => []IInv
  BY InitInv, NextInv, PTL DEF Spec

(* Type correctness.                                                       *)
THEOREM TypeCorrect == Spec => []TypeOK
<1>1. IInv => TypeOK
  BY DEF IInv
<1>. QED BY <1>1, Invariance, PTL

(* neg_negotiate: at every pass of its loop the decisions are the best of  *)
(* the pairs it has considered, for any capabilities and any weights.      *)
THEOREM DecisionIsBest == Spec => []BestDecision
<1>1. IInv => BestDecision
  BY DEF IInv
<1>. QED BY <1>1, Invariance, PTL

(* What is final for a context, a peer that it asked can do, and it can do *)
(* itself unless that peer had negotiated with others.                     *)
THEOREM AgreementIsShared == Spec => []AgreedIsShared
<1>1. IInv => AgreedIsShared
  BY DEF IInv
<1>. QED BY <1>1, Invariance, PTL

(* No decision is ever withdrawn.                                          *)
THEOREM NothingIsWithdrawn == Spec => DecisionsStay
<1>1. ASSUME TypeOK, [Next]_vars, NEW c \in Ctx
      PROVE  decided[c] \subseteq decided'[c] /\ final[c] \subseteq final'[c]
  <2>0. DOMAIN decided = Ctx /\ DOMAIN final = Ctx
    BY <1>1 DEF TypeOK
  <2>1. decided[c] \subseteq decided'[c]
    <3>1. ASSUME NEW s \in Ctx, HandlePutEnd(s) \/ NegotiateRemoteEnd(s)
          PROVE  decided[c] \subseteq decided'[c]
      <4>1. decided' = [decided EXCEPT ![s] = decided[s] \cup Decisions(work[s])]
        BY <3>1 DEF HandlePutEnd, NegotiateRemoteEnd, DecidedAfter
      <4>. QED BY <2>0, <4>1
    <3>2. ASSUME NEW s \in Ctx, NEW d \in Ctx,
                 \/ \E caps \in Profile : SetLocalCapabilities(s, caps)
                 \/ HandlePut(s, d) \/ Consider(s) \/ NegotiateRemote(s)
          PROVE  decided' = decided
      BY <3>2 DEF SetLocalCapabilities, HandlePut, Consider, NegotiateRemote
    <3>. QED BY <1>1, <3>1, <3>2, Cases
  <2>2. final[c] \subseteq final'[c]
    <3>1. ASSUME NEW d \in Ctx, SetFinal(d) \/ NegotiateRemoteEnd(d)
          PROVE  \E D : final' = [final EXCEPT ![d] = final[d] \cup D]
      BY <3>1 DEF SetFinal, NegotiateRemoteEnd, Finally
    <3>. QED BY <1>1, <2>0, <3>1, FinalSteps
  <2>. QED BY <2>1, <2>2
<1>2. TypeOK /\ [Next]_vars =>
        [\A c \in Ctx : decided[c] \subseteq decided'[c] /\ final[c] \subseteq final'[c]]_vars
  BY <1>1
<1>. QED BY <1>2, TypeCorrect, PTL DEF Spec, DecisionsStay

=============================================================================
