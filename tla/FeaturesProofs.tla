--------------------------- MODULE FeaturesProofs ---------------------------
(***************************************************************************)
(* Proofs about the feature registry, for any goroutines, features and     *)
(* bundles.                                                                *)
(***************************************************************************)
EXTENDS Features, Recursion

CallType == [kind : {"none", "register", "overwrite", "bundle"},
             pc : {"idle", "unregister", "register"},
             todo : Seq(Features), given : Seq(Features),
             must : BOOLEAN, result : {"none", "ok", "error"}]

\* The part of TypeOK about the registry m.
RegistryOK(m) ==
    /\ DOMAIN m \subseteq Keys
    /\ \A k \in DOMAIN m : m[k] \in Features /\ KeyOf(m[k]) = k /\ m[k].factory # Nil

\* A call that goes on has no result yet, and one for a single feature still has
\* that one to do.
CallShape(c) ==
    /\ c.pc # "idle" => c.kind # "none" /\ c.result = "none"
    /\ c.pc = "unregister" => c.kind = "overwrite"
    /\ c.kind \in {"register", "overwrite"} => c.todo = c.given /\ Len(c.given) = 1

\* Between its critical sections Overwrite finds its name as it left it, unless
\* others have changed it, which is in x.
OverwriteShape(c, m, x) ==
    c.kind = "overwrite" /\ KeyOf(c.given[1]) \notin x =>
        /\ c.pc = "unregister" => KeyOf(c.given[1]) \in DOMAIN m
        /\ c.pc = "register" => KeyOf(c.given[1]) \notin DOMAIN m
        /\ c.result = "error" => \/ c.given[1].factory = Nil
                                 \/ c.given[1].name # Normalize(c.given[1].name)

\* The features of a bundle that are not done are the last ones.
TodoShape(c) ==
    c.kind = "bundle" =>
        /\ Len(c.todo) <= Len(c.given)
        /\ \A i \in 1 .. Len(c.todo) : c.todo[i] = c.given[(Len(c.given) - Len(c.todo)) + i]

\* The others are registered.
DoneShape(c, m, x) ==
    c.kind = "bundle" =>
        \A i \in 1 .. Len(c.given) - Len(c.todo) :
            KeyOf(c.given[i]) \notin x =>
                KeyOf(c.given[i]) \in DOMAIN m /\ FeaturesEqual(c.given[i], m[KeyOf(c.given[i])])

CallInv(c, m, x) ==
    c \in CallType /\ CallShape(c) /\ OverwriteShape(c, m, x) /\ TodoShape(c) /\ DoneShape(c, m, x)

\* The call c is about to register the name k again.
Restores(c, k) ==
    /\ c.kind = "overwrite" /\ c.pc = "register"
    /\ KeyOf(c.todo[1]) = k /\ c.todo[1].factory # Nil

\* The registries m and n agree on the names that are not in ch.
Agree(m, n, ch) ==
    \A k \in Keys : k \notin ch => /\ k \in DOMAIN m <=> k \in DOMAIN n
                                   /\ k \in DOMAIN m => n[k] = m[k]

IInv ==
    /\ RegistryOK(namespaces)
    /\ touched \in [Threads -> SUBSET Keys]
    /\ up \in BOOLEAN /\ known \subseteq Keys
    /\ call \in [Threads -> CallType]
    /\ \A t \in Threads : CallInv(call[t], namespaces, touched[t])
    /\ NameSurvives
-----------------------------------------------------------------------------
(***************************************************************************)
(* Names and bundles.                                                      *)
(***************************************************************************)

\* A normalised name is one already.
LEMMA NormalizeTwice == ASSUME NEW s PROVE Normalize(Normalize(s)) = Normalize(s)
  BY DEF Normalize

\* A name that is a key as it is spelled is normalised.
LEMMA KeySpelled ==
  ASSUME NEW ns, NEW name, <<Normalize(ns), name>> \in Keys
  PROVE  name = Normalize(name) /\ <<Normalize(ns), name>> = Key(ns, name)
<1>1. PICK f \in Features : <<Normalize(ns), name>> = <<Normalize(f.ns), Normalize(f.name)>>
  BY DEF Keys, KeyOf, Key
<1>2. name = Normalize(f.name)
  BY <1>1
<1>3. name = Normalize(name)
  BY <1>2, NormalizeTwice
<1> QED BY <1>3 DEF Key

\* FilterWith leaves features.
LEMMA FilterType ==
  ASSUME NEW b \in Seq(Features)
  PROVE  Filter(b) \in Seq(Features)
<1> DEFINE n == Len(b)
           X == Seq(Features)
           F(g) == [i \in 0 .. n |-> IF i = 0 THEN <<>>
                                     ELSE IF HasStabilityPred(b[i]) THEN Append(g[i - 1], b[i])
                                     ELSE g[i - 1]]
           filtered == CHOOSE g : g = F(g)
           step == [i \in 1 .. n |-> [y \in X |-> IF HasStabilityPred(b[i]) THEN Append(y, b[i]) ELSE y]]
<1>1. Filter(b) = filtered[n]
  BY Zenon DEF Filter
<1>2. n \in Nat /\ <<>> \in X
  OBVIOUS
<1>3. step \in [1 .. n -> [X -> X]]
  OBVIOUS
<1>4. \A i \in 1 .. n : \A y \in X :
          step[i][y] = IF HasStabilityPred(b[i]) THEN Append(y, b[i]) ELSE y
  OBVIOUS
<1> HIDE DEF step
<1>5. PICK g \in [0 .. n -> X] : g[0] = <<>> /\ \A i \in 1 .. n : g[i] = step[i][g[i - 1]]
  <2> HIDE DEF n, X
  <2>1. \E g \in [0 .. n -> X] : Unfolds(n, <<>>, step, g)
    BY <1>2, <1>3, RecursionExists
  <2> QED BY <2>1 DEF Unfolds
<1>6. g = F(g)
  <2>1. ASSUME NEW i \in 0 .. n
        PROVE  g[i] = IF i = 0 THEN <<>>
                      ELSE IF HasStabilityPred(b[i]) THEN Append(g[i - 1], b[i]) ELSE g[i - 1]
    <3>1. CASE i = 0
      BY <3>1, <1>5
    <3>2. CASE i # 0
      <4>1. i \in 1 .. n /\ i - 1 \in 0 .. n
        BY <3>2, <1>2
      <4>2. g[i - 1] \in X
        BY <4>1
      <4> QED BY <4>1, <4>2, <3>2, <1>4, <1>5
    <3> QED BY <3>1, <3>2
  <2> QED BY <2>1
<1>7. filtered = F(filtered)
  BY <1>6, Zenon
<1> HIDE DEF filtered
<1>8. \A i \in 0 .. n : filtered[i] = IF i = 0 THEN <<>>
                                      ELSE IF HasStabilityPred(b[i]) THEN Append(filtered[i - 1], b[i])
                                      ELSE filtered[i - 1]
  BY <1>7
<1> DEFINE S == {i \in 0 .. n : filtered[i] \in X}
<1>9. 0 \in S
  <2>1. 0 \in 0 .. n
    BY <1>2
  <2>2. filtered[0] = <<>>
    BY <2>1, <1>8
  <2> QED BY <2>1, <2>2, <1>2
<1>10. ASSUME NEW i \in 0 .. n - 1, i \in S PROVE i + 1 \in S
  <2>1. i + 1 \in 0 .. n /\ i + 1 # 0 /\ (i + 1) - 1 = i /\ i + 1 \in 1 .. n
    BY <1>2
  <2>2. filtered[i + 1] = IF HasStabilityPred(b[i + 1]) THEN Append(filtered[i], b[i + 1]) ELSE filtered[i]
    BY <2>1, <1>8
  <2>3. filtered[i] \in X /\ b[i + 1] \in Features
    BY <2>1, <1>10
  <2>4. Append(filtered[i], b[i + 1]) \in X
    BY <2>3
  <2> QED BY <2>1, <2>2, <2>3, <2>4
<1> HIDE DEF S
<1>11. 0 .. n \subseteq S
  <2> HIDE DEF n
  <2> QED BY <1>2, <1>9, <1>10, IntervalInduction
<1> QED BY <1>1, <1>2, <1>11 DEF S

\* Merged bundles hold features.
LEMMA MustBundleType ==
  ASSUME NEW b \in Seq(Features), NEW c \in Seq(Features)
  PROVE  MustBundle(<<b, c>>) \in Seq(Features)
<1> DEFINE bs == <<b, c>>
           F(g) == [i \in 1 .. Len(bs) |-> IF i = 1 THEN bs[i] ELSE g[i - 1] \o bs[i]]
           flatten == CHOOSE g : g = F(g)
           w == [i \in 1 .. Len(bs) |-> IF i = 1 THEN b ELSE b \o c]
<1>1. Len(bs) = 2 /\ bs[1] = b /\ bs[2] = c
  OBVIOUS
<1>2. MustBundle(bs) = flatten[Len(bs)]
  <2>1. Len(bs) # 0
    BY <1>1
  <2> QED BY <2>1, Zenon DEF MustBundle, FlattenSeq
<1> HIDE DEF bs
<1>3. w = F(w)
  <2>1. ASSUME NEW i \in 1 .. Len(bs) PROVE w[i] = IF i = 1 THEN bs[i] ELSE w[i - 1] \o bs[i]
    <3>1. i = 1 \/ i = 2
      BY <1>1
    <3>2. w[1] = b /\ w[2] = b \o c
      BY <1>1
    <3>3. CASE i = 1
      BY <3>2, <3>3, <1>1
    <3>4. CASE i = 2
      <4>1. i - 1 = 1
        BY <3>4
      <4> HIDE DEF w
      <4> QED BY <3>2, <3>4, <4>1, <1>1
    <3> QED BY <3>1, <3>3, <3>4
  <2> QED BY <2>1
<1>4. flatten = F(flatten)
  BY <1>3, Zenon
<1> HIDE DEF flatten, w
<1>5. \A i \in 1 .. Len(bs) : flatten[i] = IF i = 1 THEN bs[i] ELSE flatten[i - 1] \o bs[i]
  BY <1>4
<1>6. flatten[1] = b
  BY <1>1, <1>5
<1>7. flatten[2] = b \o c
  <2>1. 2 \in 1 .. Len(bs) /\ 2 # 1 /\ 2 - 1 = 1
    BY <1>1
  <2> QED BY <2>1, <1>1, <1>5, <1>6
<1>8. b \o c \in Seq(Features)
  OBVIOUS
<1> QED BY <1>1, <1>2, <1>7, <1>8 DEF bs
-----------------------------------------------------------------------------
(***************************************************************************)
(* The steps.                                                              *)
(***************************************************************************)

\* The features of a call.
LEMMA CallFields ==
  ASSUME NEW c \in CallType
  PROVE  /\ c.todo \in Seq(Features) /\ c.given \in Seq(Features)
         /\ Len(c.todo) \in Nat /\ Len(c.given) \in Nat
         /\ \A i \in 1 .. Len(c.todo) : c.todo[i] \in Features /\ KeyOf(c.todo[i]) \in Keys
         /\ \A i \in 1 .. Len(c.given) : c.given[i] \in Features /\ KeyOf(c.given[i]) \in Keys
<1>1. c.todo \in Seq(Features) /\ c.given \in Seq(Features)
  BY DEF CallType
<1>2. \A i \in 1 .. Len(c.todo) : c.todo[i] \in Features
  BY <1>1
<1>3. \A i \in 1 .. Len(c.given) : c.given[i] \in Features
  BY <1>1
<1>4. \A f \in Features : KeyOf(f) \in Keys
  BY DEF Keys
<1> QED BY <1>1, <1>2, <1>3, <1>4

\* A change that a call takes notice of leaves what is known of it.
LEMMA OthersNotice ==
  ASSUME NEW c, NEW m, NEW n, NEW x, NEW ch, CallInv(c, m, x), Agree(m, n, ch)
  PROVE  CallInv(c, n, x \cup ch)
<1>1. c \in CallType /\ CallShape(c) /\ TodoShape(c)
  BY DEF CallInv
<1>2. OverwriteShape(c, n, x \cup ch)
  <2>1. c.kind = "overwrite" => KeyOf(c.given[1]) \in Keys
    <3>1. c.kind = "overwrite" => Len(c.given) = 1
      BY <1>1 DEF CallShape
    <3>2. Len(c.given) = 1 => 1 \in 1 .. Len(c.given)
      OBVIOUS
    <3> QED BY <3>1, <3>2, <1>1, CallFields
  <2>2. OverwriteShape(c, m, x)
    BY DEF CallInv
  <2> QED BY <2>1, <2>2 DEF OverwriteShape, Agree
<1>3. DoneShape(c, n, x \cup ch)
  <2> SUFFICES ASSUME c.kind = "bundle", NEW i \in 1 .. Len(c.given) - Len(c.todo),
                      KeyOf(c.given[i]) \notin x \cup ch
               PROVE  KeyOf(c.given[i]) \in DOMAIN n /\ FeaturesEqual(c.given[i], n[KeyOf(c.given[i])])
    BY DEF DoneShape
  <2>1. KeyOf(c.given[i]) \in DOMAIN m /\ FeaturesEqual(c.given[i], m[KeyOf(c.given[i])])
    BY DEF CallInv, DoneShape
  <2>2. i \in 1 .. Len(c.given)
    <3>1. Len(c.given) \in Nat /\ Len(c.todo) \in Nat
      BY <1>1, CallFields
    <3> QED BY <3>1
  <2>3. KeyOf(c.given[i]) \in Keys
    BY <2>2, <1>1, CallFields
  <2> QED BY <2>1, <2>3 DEF Agree
<1> QED BY <1>1, <1>2, <1>3 DEF CallInv

\* A step of t: its call becomes c and the registry m; the others notice.
LEMMA StepOf ==
  ASSUME IInv, NEW t \in Threads, NEW c, NEW m, NEW x \in SUBSET Keys, NEW ch \in SUBSET Keys,
         call' = [call EXCEPT ![t] = c], namespaces' = m,
         touched' = [u \in Threads |-> IF u = t THEN x ELSE touched[u] \cup ch],
         RegistryOK(m), Agree(namespaces, m, ch), CallInv(c, m, x),
         up' \in BOOLEAN, known' \subseteq Keys, NameSurvives'
  PROVE  IInv'
<1>1. c \in CallType
  BY DEF CallInv
<1>2. call \in [Threads -> CallType] /\ touched \in [Threads -> SUBSET Keys]
  BY DEF IInv
<1>3. call' \in [Threads -> CallType]
  BY <1>1, <1>2
<1>4. touched' \in [Threads -> SUBSET Keys]
  BY <1>2
<1>5. ASSUME NEW u \in Threads PROVE CallInv(call'[u], m, touched'[u])
  <2>1. CASE u = t
    <3>1. call'[u] = c /\ touched'[u] = x
      BY <2>1, <1>2
    <3> QED BY <3>1
  <2>2. CASE u # t
    <3>1. call'[u] = call[u] /\ touched'[u] = touched[u] \cup ch
      BY <2>2, <1>2
    <3>2. CallInv(call[u], namespaces, touched[u])
      BY DEF IInv
    <3> QED BY <3>1, <3>2, OthersNotice
  <2> QED BY <2>1, <2>2
<1> QED BY <1>3, <1>4, <1>5 DEF IInv

\* A name survives a step of t if it is there, t is about to restore it, or
\* another goroutine still is.
LEMMA Survives ==
  ASSUME IInv, up, NEW t \in Threads, NEW c, call' = [call EXCEPT ![t] = c],
         \A k \in known' : \/ k \in DOMAIN namespaces'
                           \/ Restores(c, k)
                           \/ k \in known /\ k \notin DOMAIN namespaces /\ ~Restores(call[t], k)
  PROVE  NameSurvives'
<1>1. call \in [Threads -> CallType]
  BY DEF IInv
<1>2. ASSUME NEW k \in known', k \notin DOMAIN namespaces'
      PROVE  \E u \in Threads : Restores(call'[u], k)
  <2>1. CASE Restores(c, k)
    <3>1. call'[t] = c
      BY <1>1
    <3> QED BY <3>1, <2>1
  <2>2. CASE k \in known /\ k \notin DOMAIN namespaces /\ ~Restores(call[t], k)
    <3>1. PICK u \in Threads : Restores(call[u], k)
      BY <2>2 DEF IInv, NameSurvives, Restores
    <3>2. u # t
      BY <3>1, <2>2
    <3>3. call'[u] = call[u]
      BY <3>2, <1>1
    <3> QED BY <3>1, <3>3
  <2> QED BY <1>2, <2>1, <2>2
<1> QED BY <1>2 DEF NameSurvives, Restores

\* What a goroutine knows of its own call.
LEMMA OwnCall ==
  ASSUME IInv, NEW t \in Threads
  PROVE  /\ call[t] \in CallType /\ CallInv(call[t], namespaces, touched[t])
         /\ touched[t] \in SUBSET Keys /\ RegistryOK(namespaces)
  BY DEF IInv

\* A call begins with everything to do.
LEMMA BeginStep ==
  ASSUME IInv, NEW t \in Threads, NEW kind \in {"register", "overwrite", "bundle"},
         NEW pc \in {"unregister", "register"}, NEW fs \in Seq(Features), NEW must \in BOOLEAN,
         Begin(t, kind, pc, fs, must),
         kind # "bundle" => Len(fs) = 1,
         pc = "unregister" => kind = "overwrite" /\ KeyOf(fs[1]) \in DOMAIN namespaces,
         pc = "register" /\ kind = "overwrite" => KeyOf(fs[1]) \notin DOMAIN namespaces
  PROVE  IInv'
<1>1. PICK c \in CallType : /\ c = [kind |-> kind, pc |-> pc, todo |-> fs, given |-> fs,
                                    must |-> must, result |-> "none"]
                            /\ c.kind = kind /\ c.pc = pc /\ c.todo = fs /\ c.given = fs /\ c.result = "none"
  <2>1. [kind |-> kind, pc |-> pc, todo |-> fs, given |-> fs, must |-> must, result |-> "none"] \in CallType
    BY DEF CallType
  <2> QED BY <2>1
<1>2. /\ call' = [call EXCEPT ![t] = c] /\ touched' = [touched EXCEPT ![t] = {}]
      /\ UNCHANGED <<namespaces, up, known>> /\ up /\ call[t].pc = "idle"
  BY <1>1 DEF Begin, Fresh
<1>3. touched' = [u \in Threads |-> IF u = t THEN {} ELSE touched[u] \cup {}]
  <2>1. touched \in [Threads -> SUBSET Keys]
    BY DEF IInv
  <2> QED BY <2>1, <1>2
<1>4. CallShape(c)
  BY <1>1 DEF CallShape
<1>5. OverwriteShape(c, namespaces, {})
  BY <1>1 DEF OverwriteShape
<1>6. TodoShape(c) /\ DoneShape(c, namespaces, {})
  <2>1. PICK l \in Nat : l = Len(fs)
    OBVIOUS
  <2>2. l <= l /\ l - l = 0 /\ \A i \in 1 .. l : i = 0 + i
    OBVIOUS
  <2>3. \A i \in 1 .. 0 : FALSE
    OBVIOUS
  <2>4. Len(c.todo) = l /\ Len(c.given) = l
    BY <2>1, <1>1
  <2>5. TodoShape(c)
    BY <2>2, <2>4, <1>1 DEF TodoShape
  <2>6. DoneShape(c, namespaces, {})
    BY <2>2, <2>3, <2>4 DEF DoneShape
  <2> QED BY <2>5, <2>6
<1>7. CallInv(c, namespaces, {})
  BY <1>4, <1>5, <1>6 DEF CallInv
<1>8. NameSurvives'
  <2>1. \A k \in known' : \/ k \in DOMAIN namespaces'
                          \/ k \in known /\ k \notin DOMAIN namespaces /\ ~Restores(call[t], k)
    BY <1>2 DEF Restores
  <2> QED BY <2>1, <1>2, Survives
<1>9. Agree(namespaces, namespaces, {}) /\ RegistryOK(namespaces) /\ up' \in BOOLEAN /\ known' \subseteq Keys
  BY <1>2 DEF Agree, IInv
<1>10. namespaces' = namespaces /\ {} \in SUBSET Keys
  BY <1>2
<1> QED BY <1>2, <1>3, <1>7, <1>8, <1>9, <1>10, StepOf

\* Register and MustRegister.
LEMMA RegisterStep == ASSUME IInv, NEW t \in Threads, Register(t) PROVE IInv'
<1>1. PICK f \in Features, must \in BOOLEAN : Begin(t, "register", "register", <<f>>, must)
  BY DEF Register
<1>2. <<f>> \in Seq(Features) /\ Len(<<f>>) = 1
  OBVIOUS
<1> QED BY <1>1, <1>2, BeginStep

\* RegisterBundle, OverwriteBundle and their Must forms.
LEMMA RegisterBundleStep == ASSUME IInv, NEW t \in Threads, RegisterBundle(t) PROVE IInv'
<1>1. PICK b \in Bundles, c \in Bundles, must \in BOOLEAN :
          Begin(t, "bundle", "register", Filter(MustBundle(<<b, c>>)), must)
  BY DEF RegisterBundle
<1>2. b \in Seq(Features) /\ c \in Seq(Features)
  BY FeaturesAssumption
<1>3. PICK fs \in Seq(Features) : fs = Filter(MustBundle(<<b, c>>))
  BY <1>2, MustBundleType, FilterType
<1> QED BY <1>1, <1>3, BeginStep

\* Overwrite looks the feature up.
LEMMA OverwriteStep == ASSUME IInv, NEW t \in Threads, NEW f \in Features, Overwrite(t, f) PROVE IInv'
<1>1. PICK fs \in Seq(Features) : fs = <<f>> /\ Len(fs) = 1 /\ fs[1] = f
  <2>1. <<f>> \in Seq(Features) /\ Len(<<f>>) = 1 /\ <<f>>[1] = f
    OBVIOUS
  <2> QED BY <2>1
<1>2. CASE Found(f.ns, f.name)
  <2>1. Begin(t, "overwrite", "unregister", fs, FALSE)
    BY <1>1, <1>2 DEF Overwrite
  <2>2. KeyOf(fs[1]) \in DOMAIN namespaces
    BY <1>1, <1>2 DEF Found, KeyOf
  <2> QED BY <2>1, <2>2, <1>1, BeginStep
<1>3. CASE ~Found(f.ns, f.name)
  <2>1. Begin(t, "overwrite", "register", fs, FALSE)
    BY <1>1, <1>3 DEF Overwrite
  <2>2. KeyOf(fs[1]) \notin DOMAIN namespaces
    BY <1>1, <1>3 DEF Found, KeyOf
  <2> QED BY <2>1, <2>2, <1>1, BeginStep
<1> QED BY <1>2, <1>3

\* What Change tells the others.
LEMMA ChangeNoticed ==
  ASSUME IInv, NEW t \in Threads, NEW m, Change(t, m)
  PROVE  /\ namespaces' = m
         /\ \E ch \in SUBSET Keys :
                /\ Agree(namespaces, m, ch)
                /\ touched' = [u \in Threads |-> IF u = t THEN touched[t] ELSE touched[u] \cup ch]
<1> DEFINE ch == {k \in Keys : \/ (k \in DOMAIN namespaces) # (k \in DOMAIN m)
                               \/ k \in DOMAIN m /\ m[k] # namespaces[k]}
<1>1. namespaces' = m /\ touched' = [u \in Threads |-> IF u = t THEN touched[u] ELSE touched[u] \cup ch]
  BY DEF Change
<1>2. ch \in SUBSET Keys
  OBVIOUS
<1>3. Agree(namespaces, m, ch)
  BY DEF Agree
<1> QED BY <1>1, <1>2, <1>3

\* A registry from which one name is taken.
LEMMA UnregisteredIs ==
  ASSUME IInv, NEW f \in Features, ~UnregisterFails(f.ns, f.name)
  PROVE  /\ RegistryOK(Unregistered(f.ns, f.name))
         /\ DOMAIN Unregistered(f.ns, f.name) = DOMAIN namespaces \ {KeyOf(f)}
         /\ Agree(namespaces, Unregistered(f.ns, f.name), {KeyOf(f)})
         /\ KeyOf(f) \in DOMAIN namespaces /\ KeyOf(f) \in Keys
<1>1. RegistryOK(namespaces)
  BY DEF IInv
<1>2. <<Normalize(f.ns), f.name>> \in DOMAIN namespaces
  BY DEF UnregisterFails
<1>3. <<Normalize(f.ns), f.name>> = KeyOf(f)
  BY <1>1, <1>2, KeySpelled DEF RegistryOK, KeyOf
<1>4. Unregistered(f.ns, f.name) = [k \in DOMAIN namespaces \ {KeyOf(f)} |-> namespaces[k]]
  BY <1>3 DEF Unregistered
<1>5. KeyOf(f) \in DOMAIN namespaces /\ KeyOf(f) \in Keys
  BY <1>1, <1>2, <1>3 DEF RegistryOK
<1>6. RegistryOK(Unregistered(f.ns, f.name))
  BY <1>1, <1>4 DEF RegistryOK
<1>7. Agree(namespaces, Unregistered(f.ns, f.name), {KeyOf(f)})
  BY <1>4 DEF Agree
<1> QED BY <1>4, <1>5, <1>6, <1>7

\* Unregister.
LEMMA UnregisterStep == ASSUME IInv, NEW t \in Threads, NEW f \in Features, Unregister(t, f) PROVE IInv'
<1> DEFINE m == Unregistered(f.ns, f.name)
<1>1. /\ up /\ call[t].pc = "idle" /\ ~UnregisterFails(f.ns, f.name) /\ namespaces' = m
      /\ known' = known \ {KeyOf(f)} /\ call' = [call EXCEPT ![t] = NoCall] /\ up' = up
      /\ touched' = [u \in Threads |-> IF u = t THEN {} ELSE touched[u] \cup {KeyOf(f)}]
  BY DEF Unregister, Fresh
<1>2. /\ RegistryOK(m) /\ DOMAIN m = DOMAIN namespaces \ {KeyOf(f)} /\ Agree(namespaces, m, {KeyOf(f)})
      /\ {KeyOf(f)} \in SUBSET Keys /\ {} \in SUBSET Keys
  BY <1>1, UnregisteredIs
<1> HIDE DEF m
<1>3. CallInv(NoCall, m, {})
  BY DEF CallInv, CallType, CallShape, OverwriteShape, TodoShape, DoneShape, NoCall
<1>4. NameSurvives'
  <2>1. \A k \in known' : \/ k \in DOMAIN namespaces'
                          \/ k \in known /\ k \notin DOMAIN namespaces /\ ~Restores(call[t], k)
    BY <1>1, <1>2 DEF Restores
  <2> QED BY <2>1, <1>1, Survives
<1>5. up' \in BOOLEAN /\ known' \subseteq Keys
  BY <1>1 DEF IInv
<1> QED BY <1>1, <1>2, <1>3, <1>4, <1>5, StepOf

\* A call ends with a result.
LEMMA ReturnCall ==
  ASSUME NEW c0 \in CallType, NEW fails \in BOOLEAN, NEW m, NEW x,
         CallShape(c0), TodoShape(c0), DoneShape(c0, m, x),
         c0.kind = "overwrite" /\ KeyOf(c0.given[1]) \notin x /\ fails =>
             c0.given[1].factory = Nil \/ c0.given[1].name # Normalize(c0.given[1].name),
         NEW c, c = [c0 EXCEPT !.pc = "idle", !.result = IF fails THEN "error" ELSE "ok"]
  PROVE  CallInv(c, m, x)
<1>1. PICK r \in {"ok", "error"} : r = (IF fails THEN "error" ELSE "ok") /\ (r = "error" => fails)
  OBVIOUS
<1>2. c = [c0 EXCEPT !.pc = "idle", !.result = r]
  BY <1>1
<1>3. c \in CallType
  BY <1>2 DEF CallType
<1>4. c.kind = c0.kind /\ c.todo = c0.todo /\ c.given = c0.given /\ c.pc = "idle" /\ c.result = r
  BY <1>2 DEF CallType
<1>5. CallShape(c) /\ TodoShape(c) /\ DoneShape(c, m, x)
  BY <1>4 DEF CallShape, TodoShape, DoneShape
<1>6. OverwriteShape(c, m, x)
  BY <1>1, <1>4 DEF OverwriteShape
<1> QED BY <1>3, <1>5, <1>6 DEF CallInv

\* The feature that a call is about.
LEMMA HeadOf ==
  ASSUME NEW c \in CallType, CallShape(c), c.todo # <<>> \/ c.kind \in {"register", "overwrite"}
  PROVE  /\ Len(c.todo) > 0 /\ 1 \in 1 .. Len(c.todo) /\ Head(c.todo) = c.todo[1] /\ c.todo[1] \in Features
         /\ c.kind # "bundle" /\ c.kind # "none" => c.given[1] = c.todo[1]
<1>1. c.todo \in Seq(Features) /\ c.kind \in {"none", "register", "overwrite", "bundle"}
  BY DEF CallType
<1>2. c.kind \in {"register", "overwrite"} => c.todo = c.given /\ Len(c.given) = 1
  BY DEF CallShape
<1>3. Len(c.todo) > 0
  <2>1. CASE c.todo # <<>>
    BY <2>1, <1>1
  <2>2. CASE c.kind \in {"register", "overwrite"}
    <3>1. Len(c.todo) = 1
      BY <2>2, <1>2
    <3> QED BY <3>1
  <2> QED BY <2>1, <2>2
<1>4. 1 \in 1 .. Len(c.todo) /\ Head(c.todo) = c.todo[1] /\ c.todo[1] \in Features
  BY <1>1, <1>3
<1>5. c.kind # "bundle" /\ c.kind # "none" => c.given[1] = c.todo[1]
  BY <1>1, <1>2
<1> QED BY <1>3, <1>4, <1>5

\* The second critical section of Overwrite.
LEMMA OverwriteUnregisterStep == ASSUME IInv, NEW t \in Threads, OverwriteUnregister(t) PROVE IInv'
<1>1. PICK c0 \in CallType : c0 = call[t] /\ CallInv(c0, namespaces, touched[t])
  BY OwnCall
<1>2. c0.pc = "unregister" /\ c0.kind = "overwrite" /\ up /\ CallShape(c0)
        /\ TodoShape(c0) /\ DoneShape(c0, namespaces, touched[t]) /\ OverwriteShape(c0, namespaces, touched[t])
  BY <1>1 DEF OverwriteUnregister, CallInv, CallShape
<1>3. PICK f \in Features : f = Head(c0.todo) /\ f = c0.todo[1] /\ f = c0.given[1] /\ 1 \in 1 .. Len(c0.todo)
  BY <1>2, HeadOf
<1>4. \A k : ~Restores(call[t], k)
  BY <1>1, <1>2 DEF Restores
<1>5. touched \in [Threads -> SUBSET Keys] /\ touched[t] \in SUBSET Keys /\ known \subseteq Keys
  BY DEF IInv
<1>6. CASE UnregisterFails(f.ns, f.name)
  <2>1. /\ Return(t, TRUE) /\ UNCHANGED <<namespaces, touched, known>>
    BY <1>1, <1>3, <1>6 DEF OverwriteUnregister
  <2>2. PICK c : c = [c0 EXCEPT !.pc = "idle", !.result = IF TRUE THEN "error" ELSE "ok"]
    OBVIOUS
  <2>3. call' = [call EXCEPT ![t] = c]
    BY <2>1, <2>2, <1>1 DEF Return
  <2>4. up' \in BOOLEAN
    BY <2>1 DEF Return
  <2>5. KeyOf(f) \notin touched[t] => f.name # Normalize(f.name)
    BY <1>2, <1>3, <1>6 DEF OverwriteShape, UnregisterFails, KeyOf, Key
  <2>6. CallInv(c, namespaces, touched[t])
    BY <2>2, <2>5, <1>2, <1>3, ReturnCall
  <2>7. touched' = [u \in Threads |-> IF u = t THEN touched[t] ELSE touched[u] \cup {}]
    BY <2>1, <1>5
  <2>8. NameSurvives'
    <3>1. \A k \in known' : k \in DOMAIN namespaces' \/ (k \in known /\ k \notin DOMAIN namespaces /\ ~Restores(call[t], k))
      BY <2>1, <1>4
    <3> QED BY <3>1, <2>3, <1>2, Survives
  <2>9. Agree(namespaces, namespaces, {}) /\ RegistryOK(namespaces) /\ known' \subseteq Keys /\ {} \in SUBSET Keys
    BY <2>1 DEF Agree, IInv
  <2>10. namespaces' = namespaces
    BY <2>1
  <2> QED BY <2>3, <2>4, <2>6, <2>7, <2>8, <2>9, <2>10, <1>5, StepOf
<1>7. CASE ~UnregisterFails(f.ns, f.name)
  <2>1. PICK m : m = Unregistered(f.ns, f.name)
    OBVIOUS
  <2>2. /\ Change(t, m) /\ call' = [call EXCEPT ![t].pc = "register"] /\ up' = up
        /\ known' = IF f.factory = Nil THEN known \ {KeyOf(f)} ELSE known
    BY <2>1, <1>1, <1>3, <1>7 DEF OverwriteUnregister
  <2>3. PICK c : c = [c0 EXCEPT !.pc = "register"]
    OBVIOUS
  <2>4. call' = [call EXCEPT ![t] = c]
    BY <2>2, <2>3, <1>1
  <2>5. /\ c \in CallType /\ c.pc = "register" /\ c.kind = "overwrite" /\ c.todo = c0.todo /\ c.given = c0.given
        /\ c.result = c0.result
    BY <2>3, <1>2 DEF CallType
  <2>6. RegistryOK(m) /\ DOMAIN m = DOMAIN namespaces \ {KeyOf(f)}
    BY <2>1, <1>7, UnregisteredIs
  <2>7. CallInv(c, m, touched[t])
    <3>1. CallShape(c)
      BY <2>5, <1>2 DEF CallShape
    <3>2. c.result = "none"
      BY <2>5, <1>2 DEF CallShape
    <3>3. OverwriteShape(c, m, touched[t])
      BY <3>2, <2>5, <2>6, <1>3 DEF OverwriteShape
    <3>4. TodoShape(c) /\ DoneShape(c, m, touched[t])
      BY <2>5 DEF TodoShape, DoneShape
    <3> QED BY <3>1, <3>3, <3>4, <2>5 DEF CallInv
  <2>8. NameSurvives'
    <3>1. f.factory # Nil => Restores(c, KeyOf(f))
      BY <2>5, <1>3 DEF Restores
    <3>2. namespaces' = m
      BY <2>2 DEF Change
    <3>3. \A k \in known' : \/ k \in DOMAIN namespaces'
                            \/ Restores(c, k)
                            \/ k \in known /\ k \notin DOMAIN namespaces /\ ~Restores(call[t], k)
      BY <3>1, <3>2, <2>2, <2>6, <1>4
    <3> QED BY <3>3, <2>4, <1>2, Survives
  <2>9. PICK ch \in SUBSET Keys :
            /\ Agree(namespaces, m, ch)
            /\ touched' = [u \in Threads |-> IF u = t THEN touched[t] ELSE touched[u] \cup ch]
    BY <2>2, ChangeNoticed
  <2>10. namespaces' = m /\ up' \in BOOLEAN /\ known' \subseteq Keys
    BY <2>2 DEF Change, IInv
  <2> QED BY <2>4, <2>6, <2>7, <2>8, <2>9, <2>10, <1>5, StepOf
<1> QED BY <1>6, <1>7

\* A registry after Register: what was there is there, and f is unless it failed.
LEMMA RegisteredIs ==
  ASSUME IInv, NEW f \in Features, NEW m, m = Registered(f)
  PROVE  /\ RegistryOK(m) /\ DOMAIN namespaces \subseteq DOMAIN m
         /\ \A k \in DOMAIN namespaces : m[k] = namespaces[k]
         /\ ~RegisterFails(f) => KeyOf(f) \in DOMAIN m /\ FeaturesEqual(f, m[KeyOf(f)])
<1>1. RegistryOK(namespaces) /\ KeyOf(f) \in Keys
  BY DEF IInv, Keys
<1>2. CASE RegisterFails(f) \/ KeyOf(f) \in DOMAIN namespaces
  <2>1. m = namespaces
    BY <1>2 DEF Registered
  <2> QED BY <2>1, <1>1, <1>2 DEF RegisterFails
<1>3. CASE ~(RegisterFails(f) \/ KeyOf(f) \in DOMAIN namespaces)
  <2>1. m = [k \in DOMAIN namespaces \cup {KeyOf(f)} |-> IF k = KeyOf(f) THEN f ELSE namespaces[k]]
    BY <1>3 DEF Registered
  <2>2. DOMAIN m = DOMAIN namespaces \cup {KeyOf(f)} /\ m[KeyOf(f)] = f /\ \A k \in DOMAIN namespaces : m[k] = namespaces[k]
    BY <2>1, <1>3
  <2>3. f.factory # Nil
    BY <1>3 DEF RegisterFails
  <2>4. RegistryOK(m)
    BY <2>2, <2>3, <1>1 DEF RegistryOK
  <2>5. FeaturesEqual(f, f)
    BY DEF FeaturesEqual
  <2> QED BY <2>2, <2>4, <2>5
<1> QED BY <1>2, <1>3

\* A step of t that registers f, and ends with the call c.
LEMMA RegistersStep ==
  ASSUME IInv, up, NEW t \in Threads, NEW f \in Features, NEW m, m = Registered(f), Change(t, m),
         known' = known \cup DOMAIN namespaces', NEW c, call' = [call EXCEPT ![t] = c],
         CallInv(c, m, touched[t]), up' \in BOOLEAN,
         call[t].kind = "overwrite" => KeyOf(call[t].todo[1]) = KeyOf(f) /\ call[t].todo[1].factory = f.factory
  PROVE  IInv'
<1>1. /\ RegistryOK(m) /\ DOMAIN namespaces \subseteq DOMAIN m
      /\ ~RegisterFails(f) => KeyOf(f) \in DOMAIN m
  BY RegisteredIs
<1>2. namespaces' = m
  BY DEF Change
<1>3. PICK ch \in SUBSET Keys :
          /\ Agree(namespaces, m, ch)
          /\ touched' = [u \in Threads |-> IF u = t THEN touched[t] ELSE touched[u] \cup ch]
  BY ChangeNoticed
<1>4. known' \subseteq Keys /\ touched[t] \in SUBSET Keys
  BY <1>1, <1>2 DEF IInv, RegistryOK
<1>5. NameSurvives'
  <2>1. ASSUME NEW k \in known', k \notin DOMAIN m
        PROVE  k \in known /\ k \notin DOMAIN namespaces /\ ~Restores(call[t], k)
    <3>1. k \in known /\ k \notin DOMAIN namespaces
      BY <2>1, <1>1, <1>2
    <3>2. ASSUME Restores(call[t], k) PROVE FALSE
      <4>1. k = KeyOf(f) /\ f.factory # Nil
        BY <3>2 DEF Restores
      <4>2. ~RegisterFails(f)
        BY <4>1, <3>1 DEF RegisterFails
      <4> QED BY <4>1, <4>2, <2>1, <1>1
    <3> QED BY <3>1, <3>2
  <2> QED BY <2>1, <1>2, Survives
<1> QED BY <1>1, <1>2, <1>3, <1>4, <1>5, StepOf

\* Register, and the last critical section of Overwrite.
LEMMA RegisterOneStep == ASSUME IInv, NEW t \in Threads, RegisterOne(t) PROVE IInv'
<1>1. PICK c0 \in CallType : c0 = call[t] /\ CallInv(c0, namespaces, touched[t])
  BY OwnCall
<1>2. /\ c0.pc = "register" /\ c0.kind # "bundle" /\ c0.kind # "none" /\ up /\ CallShape(c0) /\ TodoShape(c0)
      /\ OverwriteShape(c0, namespaces, touched[t])
  BY <1>1 DEF RegisterOne, CallInv, CallShape
<1>3. c0.kind \in {"register", "overwrite"}
  BY <1>2 DEF CallType
<1>4. PICK f \in Features : f = Head(c0.todo) /\ f = c0.todo[1] /\ f = c0.given[1]
  BY <1>2, <1>3, HeadOf
<1> PICK fails \in BOOLEAN : fails <=> RegisterFails(f)
  <2>1. CASE RegisterFails(f)
    BY <2>1, Zenon
  <2>2. CASE ~RegisterFails(f)
    BY <2>2, Zenon
  <2> QED BY <2>1, <2>2
<1>5. PICK m : m = Registered(f)
  OBVIOUS
<1>6. Change(t, m) /\ known' = known \cup DOMAIN namespaces' /\ Return(t, RegisterFails(f))
  BY <1>1, <1>4, <1>5 DEF RegisterOne
<1>7. PICK c : c = [c0 EXCEPT !.pc = "idle", !.result = IF fails THEN "error" ELSE "ok"]
  OBVIOUS
<1>8. call' = [call EXCEPT ![t] = c] /\ up' \in BOOLEAN
  BY <1>1, <1>5, <1>6, <1>7 DEF Return
<1>9. CallInv(c, m, touched[t])
  <2>1. c0.kind = "overwrite" /\ KeyOf(f) \notin touched[t] /\ fails => f.factory = Nil
    BY <1>2, <1>4, <1>5 DEF OverwriteShape, RegisterFails
  <2>2. DoneShape(c0, m, touched[t])
    BY <1>2 DEF DoneShape
  <2> QED BY <2>1, <2>2, <1>2, <1>4, <1>7, ReturnCall
<1>10. call[t].kind = "overwrite" => KeyOf(call[t].todo[1]) = KeyOf(f) /\ call[t].todo[1].factory = f.factory
  BY <1>1, <1>4
<1> QED BY <1>2, <1>5, <1>6, <1>8, <1>9, <1>10, RegistersStep

\* The next feature of a bundle.
LEMMA RegisterNextStep == ASSUME IInv, NEW t \in Threads, RegisterNext(t) PROVE IInv'
<1>1. PICK c0 \in CallType : c0 = call[t] /\ CallInv(c0, namespaces, touched[t])
  BY OwnCall
<1>2. /\ c0.pc = "register" /\ c0.kind = "bundle" /\ c0.todo # <<>> /\ up /\ CallShape(c0) /\ TodoShape(c0)
      /\ DoneShape(c0, namespaces, touched[t])
  BY <1>1 DEF RegisterNext, CallInv
<1>3. PICK f \in Features : f = Head(c0.todo) /\ f = c0.todo[1] /\ Len(c0.todo) > 0
  BY <1>2, HeadOf
<1>4. PICK m : m = Registered(f)
  OBVIOUS
<1>5. /\ Change(t, m) /\ known' = known \cup DOMAIN namespaces'
      /\ IF RegisterFails(f) THEN Return(t, TRUE) ELSE call' = [call EXCEPT ![t].todo = Tail(@)] /\ UNCHANGED up
  BY <1>1, <1>3, <1>4 DEF RegisterNext
<1>6. /\ RegistryOK(m) /\ DOMAIN namespaces \subseteq DOMAIN m
      /\ \A k \in DOMAIN namespaces : m[k] = namespaces[k]
      /\ ~RegisterFails(f) => KeyOf(f) \in DOMAIN m /\ FeaturesEqual(f, m[KeyOf(f)])
  BY <1>4, RegisteredIs
<1>7. ~(call[t].kind = "overwrite")
  BY <1>1, <1>2
<1>8. PICK g \in Seq(Features), s \in Seq(Features), lg \in Nat, ls \in Nat :
          g = c0.given /\ s = c0.todo /\ lg = Len(g) /\ ls = Len(s) /\ ls > 0 /\ ls <= lg
  <2>1. c0.given \in Seq(Features) /\ c0.todo \in Seq(Features) /\ Len(c0.given) \in Nat /\ Len(c0.todo) \in Nat
    BY CallFields
  <2>2. Len(c0.todo) <= Len(c0.given)
    BY <1>2 DEF TodoShape
  <2> QED BY <2>1, <2>2, <1>3
<1>9. \A i \in 1 .. ls : s[i] = g[(lg - ls) + i]
  BY <1>2, <1>8 DEF TodoShape
<1>10. \A i \in 1 .. lg - ls : KeyOf(g[i]) \notin touched[t] =>
                                  KeyOf(g[i]) \in DOMAIN m /\ FeaturesEqual(g[i], m[KeyOf(g[i])])
  <2>1. \A i \in 1 .. lg - ls :
            KeyOf(g[i]) \notin touched[t] =>
                KeyOf(g[i]) \in DOMAIN namespaces /\ FeaturesEqual(g[i], namespaces[KeyOf(g[i])])
    BY <1>2, <1>8 DEF DoneShape
  <2> QED BY <2>1, <1>6
<1>11. CASE RegisterFails(f)
  <2>1. Return(t, TRUE)
    BY <1>5, <1>11
  <2>2. PICK c : c = [c0 EXCEPT !.pc = "idle", !.result = IF TRUE THEN "error" ELSE "ok"]
    OBVIOUS
  <2>3. call' = [call EXCEPT ![t] = c] /\ up' \in BOOLEAN
    BY <2>1, <2>2, <1>1 DEF Return
  <2>4. DoneShape(c0, m, touched[t])
    BY <1>8, <1>10 DEF DoneShape
  <2>5. CallInv(c, m, touched[t])
    BY <2>2, <2>4, <1>2, ReturnCall
  <2> QED BY <2>3, <2>5, <1>2, <1>4, <1>5, <1>7, RegistersStep
<1>12. CASE ~RegisterFails(f)
  <2>1. call' = [call EXCEPT ![t].todo = Tail(@)] /\ up' \in BOOLEAN
    BY <1>5, <1>12 DEF IInv
  <2>2. PICK r \in Seq(Features) : r = Tail(s) /\ Len(r) = ls - 1 /\ \A i \in 1 .. Len(r) : r[i] = s[i + 1]
    <3>1. Len(s) > 0
      BY <1>8
    <3>2. Tail(s) \in Seq(Features) /\ Len(Tail(s)) = Len(s) - 1 /\ \A i \in 1 .. Len(s) - 1 : Tail(s)[i] = s[i + 1]
      BY <3>1
    <3> QED BY <3>2, <1>8
  <2>3. PICK c : c = [c0 EXCEPT !.todo = r]
    OBVIOUS
  <2>4. call' = [call EXCEPT ![t] = c]
    BY <2>1, <2>2, <2>3, <1>1, <1>8
  <2>5. /\ c \in CallType /\ c.kind = "bundle" /\ c.pc = c0.pc /\ c.result = c0.result
        /\ c.todo = r /\ c.given = g
    BY <2>2, <2>3, <1>2, <1>8 DEF CallType
  <2>6. CallShape(c) /\ OverwriteShape(c, m, touched[t])
    BY <2>5, <1>2 DEF CallShape, OverwriteShape
  <2>7. TodoShape(c)
    <3>1. ASSUME NEW i \in 1 .. ls - 1 PROVE r[i] = g[(lg - (ls - 1)) + i]
      <4>1. i + 1 \in 1 .. ls /\ (lg - ls) + (i + 1) = (lg - (ls - 1)) + i /\ i \in 1 .. Len(r)
        BY <2>2
      <4> QED BY <4>1, <2>2, <1>9
    <3>2. ls - 1 <= lg
      BY <1>8
    <3>3. Len(c.todo) = ls - 1 /\ Len(c.given) = lg
      BY <2>2, <2>5, <1>8
    <3> QED BY <3>1, <3>2, <3>3, <2>5 DEF TodoShape
  <2>8. DoneShape(c, m, touched[t])
    <3>1. ASSUME NEW i \in 1 .. lg - (ls - 1), KeyOf(g[i]) \notin touched[t]
          PROVE  KeyOf(g[i]) \in DOMAIN m /\ FeaturesEqual(g[i], m[KeyOf(g[i])])
      <4>1. i \in 1 .. lg - ls \/ i = (lg - ls) + 1
        BY <1>8
      <4>2. CASE i \in 1 .. lg - ls
        BY <4>2, <3>1, <1>10
      <4>3. CASE i = (lg - ls) + 1
        <5>1. 1 \in 1 .. ls
          BY <1>8
        <5>2. g[i] = f
          BY <5>1, <4>3, <1>3, <1>8, <1>9
        <5> QED BY <5>2, <1>6, <1>12
      <4> QED BY <4>1, <4>2, <4>3
    <3> QED BY <3>1, <2>2, <2>5, <1>8 DEF DoneShape
  <2>9. CallInv(c, m, touched[t])
    BY <2>5, <2>6, <2>7, <2>8 DEF CallInv
  <2> QED BY <2>1, <2>4, <2>9, <1>2, <1>4, <1>5, <1>7, RegistersStep
<1> QED BY <1>11, <1>12

\* The end of a bundle.
LEMMA BundleDoneStep == ASSUME IInv, NEW t \in Threads, BundleDone(t) PROVE IInv'
<1>1. PICK c0 \in CallType : c0 = call[t] /\ CallInv(c0, namespaces, touched[t])
  BY OwnCall
<1>2. c0.kind = "bundle" /\ up /\ CallShape(c0) /\ TodoShape(c0) /\ DoneShape(c0, namespaces, touched[t])
  BY <1>1 DEF BundleDone, CallInv
<1>3. Return(t, FALSE) /\ UNCHANGED <<namespaces, known, touched>>
  BY DEF BundleDone
<1>4. PICK c : c = [c0 EXCEPT !.pc = "idle", !.result = IF FALSE THEN "error" ELSE "ok"]
  OBVIOUS
<1>5. call' = [call EXCEPT ![t] = c] /\ up' \in BOOLEAN
  BY <1>1, <1>3, <1>4 DEF Return
<1>6. CallInv(c, namespaces, touched[t])
  BY <1>2, <1>4, ReturnCall
<1>7. touched' = [u \in Threads |-> IF u = t THEN touched[t] ELSE touched[u] \cup {}] /\ touched[t] \in SUBSET Keys
  <2>1. touched \in [Threads -> SUBSET Keys]
    BY DEF IInv
  <2> QED BY <2>1, <1>3
<1>8. NameSurvives'
  <2>1. \A k \in known' : k \in DOMAIN namespaces' \/ (k \in known /\ k \notin DOMAIN namespaces /\ ~Restores(call[t], k))
    BY <1>1, <1>2, <1>3 DEF Restores
  <2> QED BY <2>1, <1>2, <1>5, Survives
<1>9. Agree(namespaces, namespaces, {}) /\ RegistryOK(namespaces) /\ known' \subseteq Keys /\ {} \in SUBSET Keys
  BY <1>3 DEF Agree, IInv
<1>10. namespaces' = namespaces
  BY <1>3
<1> QED BY <1>5, <1>6, <1>7, <1>8, <1>9, <1>10, StepOf
-----------------------------------------------------------------------------
(***************************************************************************)
(* What holds of the registry.                                             *)
(***************************************************************************)

\* The registry is empty at first.
LEMMA InitIInv == Init => IInv
<1> SUFFICES ASSUME Init PROVE IInv
  OBVIOUS
<1> USE DEF Init
<1>1. DOMAIN namespaces = {}
  OBVIOUS
<1>2. RegistryOK(namespaces)
  BY <1>1 DEF RegistryOK
<1>3. NoCall \in CallType
  BY DEF NoCall, CallType
<1>4. call \in [Threads -> CallType] /\ touched \in [Threads -> SUBSET Keys] /\ up \in BOOLEAN /\ known \subseteq Keys
  BY <1>3
<1>5. ASSUME NEW m, NEW x PROVE CallInv(NoCall, m, x)
  BY <1>3 DEF CallInv, CallShape, OverwriteShape, TodoShape, DoneShape, NoCall
<1>6. \A t \in Threads : CallInv(call[t], namespaces, touched[t])
  BY <1>5
<1>7. NameSurvives
  BY DEF NameSurvives
<1> QED BY <1>2, <1>4, <1>6, <1>7 DEF IInv

\* The calls that are under way, the registry and what they know of it agree in
\* every state.
THEOREM InductiveInvariant == Spec => []IInv
<1>1. Init => IInv
  BY InitIInv
<1>2. IInv /\ [Next]_vars => IInv'
  <2> SUFFICES ASSUME IInv, [Next]_vars PROVE IInv'
    OBVIOUS
  <2>1. ASSUME NEW t \in Threads, Register(t) \/ RegisterBundle(t) PROVE IInv'
    BY <2>1, RegisterStep, RegisterBundleStep
  <2>2. ASSUME NEW t \in Threads, NEW f \in Features, Unregister(t, f) \/ Overwrite(t, f) PROVE IInv'
    BY <2>2, UnregisterStep, OverwriteStep
  <2>3. ASSUME NEW t \in Threads, OverwriteUnregister(t) \/ RegisterOne(t) PROVE IInv'
    BY <2>3, OverwriteUnregisterStep, RegisterOneStep
  <2>4. ASSUME NEW t \in Threads, RegisterNext(t) \/ BundleDone(t) PROVE IInv'
    BY <2>4, RegisterNextStep, BundleDoneStep
  <2>5. CASE UNCHANGED vars
    <3>1. NameSurvives'
      BY <2>5 DEF vars, IInv, NameSurvives
    <3> QED BY <3>1, <2>5 DEF vars, IInv
  <2>6. CASE Panicked
    BY <2>5, <2>6 DEF Panicked
  <2> QED BY <2>1, <2>2, <2>3, <2>4, <2>5, <2>6 DEF Next
<1> QED BY <1>1, <1>2, PTL DEF Spec

\* The keys of the registry are normalised, and every feature has a factory and
\* is found under its own name.
THEOREM TypeCorrect == Spec => []TypeOK
<1>1. IInv => TypeOK
  BY DEF IInv, TypeOK, RegistryOK, CallType
<1> QED BY <1>1, InductiveInvariant, PTL

\* A registered name is not lost, whatever comes between the critical sections
\* of Overwrite.
THEOREM NamesSurvive == Spec => []NameSurvives
<1>1. IInv => NameSurvives
  BY DEF IInv
<1> QED BY <1>1, InductiveInvariant, PTL

\* Overwrite fails only if somebody else changed the name meanwhile.
THEOREM OverwritesSucceed == Spec => []OverwriteSucceeds
<1>1. IInv => OverwriteSucceeds
  <2> SUFFICES ASSUME IInv, NEW t \in Threads, call[t].kind = "overwrite", call[t].result = "error",
                      call[t].given[1].factory # Nil,
                      call[t].given[1].name = Normalize(call[t].given[1].name)
               PROVE  KeyOf(call[t].given[1]) \in touched[t]
    BY DEF OverwriteSucceeds
  <2>1. OverwriteShape(call[t], namespaces, touched[t])
    BY DEF IInv, CallInv
  <2> QED BY <2>1 DEF OverwriteShape
<1> QED BY <1>1, InductiveInvariant, PTL

\* What a bundle has registered is there, unless somebody else changed it.
THEOREM BundlesRegistered == Spec => []BundleIsRegistered
<1>1. IInv => BundleIsRegistered
  <2> SUFFICES ASSUME IInv, NEW t \in Threads, call[t].kind = "bundle",
                      NEW i \in 1 .. Len(call[t].given) - Len(call[t].todo),
                      KeyOf(call[t].given[i]) \notin touched[t]
               PROVE  /\ KeyOf(call[t].given[i]) \in DOMAIN namespaces
                      /\ FeaturesEqual(call[t].given[i], namespaces[KeyOf(call[t].given[i])])
    BY DEF BundleIsRegistered
  <2>1. DoneShape(call[t], namespaces, touched[t])
    BY DEF IInv, CallInv
  <2> QED BY <2>1 DEF DoneShape
<1> QED BY <1>1, InductiveInvariant, PTL
=============================================================================
