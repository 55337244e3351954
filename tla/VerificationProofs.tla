------------------------- MODULE VerificationProofs -------------------------
(* Theorems about JournalBinding and IdentityRegistry, as the behaviours of    *)
(* MCVerification run them, for any rows, edits, operations and ticks of the   *)
(* clock, and for any values, digests and damages.                             *)
(*                                                                             *)
(* An operation is a sequence of looks, so what is proved of it is proved of   *)
(* what remains of the sequence: which facts each look needs and gives, and    *)
(* which looks are still ahead of a pass over both files.                      *)
(*                                                                             *)
(* Of the registry it is proved that the probing of a region finds what was    *)
(* stored in it, and that a migration moves every record.                      *)
EXTENDS MCVerification, SequenceTheorems, FiniteSetTheorems, WellFoundedInduction, TLAPS

-----------------------------------------------------------------------------
(* Looks *)

Sees == {"path", "open", "fd", "rows", "root", "agree", "write", "grown"}
AnyLook == [see : Sees, side : Sides, of : SUBSET Ledgers, bind : {"same", "new"}]
LegalLooks ==
    { look \in AnyLook :
        /\ look.see \in {"path", "open", "fd", "write", "grown"} => \E l \in Ledgers : look.of = {l}
        /\ look.see \in {"open", "fd", "agree", "write", "grown"} => look.bind = "same"
        /\ look.see \in {"write", "grown"} => look.side = "writer" }
CalmLooks == { look \in LegalLooks : look.see \notin {"write", "grown"} }

(* A look after which its side may have another identity or another reading.   *)
Rebinds(look, s) ==
    /\ look.side = s
    /\ look.see = "open" \/ (look.see \in {"path", "rows"} /\ look.bind = "new")
KeepingLooks(s) == { look \in CalmLooks : ~Rebinds(look, s) }

LEMMA LookIsLegal ==
    ASSUME NEW see \in {"path", "open", "fd"}, NEW s \in Sides, NEW l \in Ledgers, NEW bind \in {"same", "new"},
           see # "path" => bind = "same"
    PROVE  Look(see, s, {l}, bind) \in CalmLooks
BY DEF Look, CalmLooks, LegalLooks, AnyLook, Sees

LEMMA StatIsLegal ==
    ASSUME NEW see \in {"path", "open", "fd"}, NEW s \in Sides, NEW l \in Ledgers
    PROVE  Stat(see, s, l) \in CalmLooks
BY LookIsLegal DEF Stat

LEMMA RowsAreLegal ==
    ASSUME NEW s \in Sides, NEW ls \in SUBSET Ledgers, NEW bind \in {"same", "new"}
    PROVE  Look("rows", s, ls, bind) \in CalmLooks
BY DEF Look, CalmLooks, LegalLooks, AnyLook, Sees

LEMMA GrowthIsLegal ==
    ASSUME NEW see \in {"write", "grown"}, NEW l \in Ledgers
    PROVE  Stat(see, "writer", l) \in LegalLooks
BY DEF Look, Stat, LegalLooks, AnyLook, Sees, Sides

LEMMA OpeningIsLegal ==
    ASSUME NEW s \in Sides, NEW l \in Ledgers, NEW bind \in {"same", "new"}
    PROVE  Opening(s, l, bind) \in Seq(CalmLooks)
BY LookIsLegal, StatIsLegal DEF Opening

LEMMA BothStatsAreLegal ==
    ASSUME NEW s \in Sides
    PROVE  BothStats(s) \in Seq(CalmLooks)
BY StatIsLegal DEF BothStats, Ledgers

LEMMA ThreePassesAreLegal ==
    ASSUME NEW s \in Sides, NEW bind \in {"same", "new"}
    PROVE  ThreePasses(s, bind) \in Seq(CalmLooks)
<1>1. << Look("rows", s, {"events"}, bind), Look("rows", s, {"raw"}, bind),
         Look("rows", s, Ledgers, "same") >> \in Seq(CalmLooks)
    BY RowsAreLegal DEF Ledgers
<1> QED BY <1>1, BothStatsAreLegal, ConcatProperties DEF ThreePasses

LEMMA ReadPairIsLegal == ReadPair \in Seq(CalmLooks)
<1>1. Opening("reader", "events", "new") \in Seq(CalmLooks)
    BY OpeningIsLegal DEF Sides, Ledgers
<1>2. Opening("reader", "raw", "new") \in Seq(CalmLooks)
    BY OpeningIsLegal DEF Sides, Ledgers
<1>3. ThreePasses("reader", "new") \in Seq(CalmLooks)
    BY ThreePassesAreLegal DEF Sides
<1>4. Opening("reader", "events", "new") \o Opening("reader", "raw", "new") \in Seq(CalmLooks)
    BY <1>1, <1>2, ConcatProperties
<1> QED BY <1>3, <1>4, ConcatProperties DEF ReadPair

LEMMA SnapshotIsLegal ==
    ASSUME NEW l \in Ledgers
    PROVE  Snapshot(l) \in Seq(CalmLooks)
<1>1. Opening("writer", l, "new") \in Seq(CalmLooks)
    BY OpeningIsLegal DEF Sides
<1>2. << Look("rows", "writer", {l}, "new"),
         Stat("fd", "writer", l), Stat("path", "writer", l) >> \in Seq(CalmLooks)
    BY RowsAreLegal, StatIsLegal DEF Sides
<1> QED BY <1>1, <1>2, ConcatProperties DEF Snapshot

LEMMA OpenTransactionIsLegal == OpenTransaction \in Seq(CalmLooks)
<1> DEFINE Checked == << Look("rows", "writer", {"events"}, "same"),
                         Stat("fd", "writer", "events"), Stat("path", "writer", "events"),
                         Look("rows", "writer", {"raw"}, "same"),
                         Stat("fd", "writer", "raw"), Stat("path", "writer", "raw") >>
<1>1. \A l \in Ledgers : \A bind \in {"same", "new"} : Opening("writer", l, bind) \in Seq(CalmLooks)
    BY OpeningIsLegal DEF Sides
<1>2. \A l \in Ledgers : Snapshot(l) \in Seq(CalmLooks)
    BY SnapshotIsLegal
<1>3. Checked \in Seq(CalmLooks)
    BY RowsAreLegal, StatIsLegal DEF Sides, Ledgers
<1> HIDE DEF Checked
<1>4. Opening("writer", "events", "new") \o Opening("writer", "raw", "new") \in Seq(CalmLooks)
    BY <1>1, ConcatProperties DEF Ledgers
<1>5. Opening("writer", "events", "new") \o Opening("writer", "raw", "new")
        \o Snapshot("events") \in Seq(CalmLooks)
    BY <1>2, <1>4, ConcatProperties DEF Ledgers
<1>6. Opening("writer", "events", "new") \o Opening("writer", "raw", "new")
        \o Snapshot("events") \o Snapshot("raw") \in Seq(CalmLooks)
    BY <1>2, <1>5, ConcatProperties DEF Ledgers
<1>7. Opening("writer", "events", "new") \o Opening("writer", "raw", "new")
        \o Snapshot("events") \o Snapshot("raw")
        \o Opening("writer", "events", "same") \in Seq(CalmLooks)
    BY <1>1, <1>6, ConcatProperties DEF Ledgers
<1>8. Opening("writer", "events", "new") \o Opening("writer", "raw", "new")
        \o Snapshot("events") \o Snapshot("raw")
        \o Opening("writer", "events", "same") \o Opening("writer", "raw", "same") \in Seq(CalmLooks)
    BY <1>1, <1>7, ConcatProperties DEF Ledgers
<1> QED BY <1>3, <1>8, ConcatProperties DEF OpenTransaction, Checked

LEMMA ScanRetainedIsLegal == ScanRetained \in Seq(CalmLooks)
<1>1. << Stat("fd", "writer", "events"), Stat("fd", "writer", "raw") >> \in Seq(CalmLooks)
    BY StatIsLegal DEF Sides, Ledgers
<1> QED BY <1>1, ThreePassesAreLegal, ConcatProperties DEF ScanRetained, Sides

LEMMA RecheckIsLegal == Recheck \in Seq(KeepingLooks("writer"))
<1>1. ASSUME NEW see \in {"fd", "path"}, NEW l \in Ledgers
      PROVE  Stat(see, "writer", l) \in KeepingLooks("writer")
    BY <1>1, StatIsLegal DEF KeepingLooks, Rebinds, Stat, Look, Sides
<1> QED BY <1>1 DEF Recheck, Ledgers

LEMMA RehashOneIsLegal ==
    ASSUME NEW l \in Ledgers
    PROVE  RehashOne(l) \in Seq(KeepingLooks("writer"))
<1>1. ASSUME NEW see \in {"fd", "path"}
      PROVE  Stat(see, "writer", l) \in KeepingLooks("writer")
    BY <1>1, StatIsLegal DEF KeepingLooks, Rebinds, Stat, Look, Sides
<1>2. Look("rows", "writer", {l}, "same") \in KeepingLooks("writer")
    BY RowsAreLegal DEF KeepingLooks, Rebinds, Look, Sides
<1> QED BY <1>1, <1>2 DEF RehashOne

LEMMA JointRecheckIsLegal == JointRecheck \in Seq(KeepingLooks("writer"))
<1>1. RehashOne("events") \in Seq(KeepingLooks("writer"))
    BY RehashOneIsLegal DEF Ledgers
<1>2. RehashOne("raw") \in Seq(KeepingLooks("writer"))
    BY RehashOneIsLegal DEF Ledgers
<1>3. RehashOne("events") \o RehashOne("raw") \in Seq(KeepingLooks("writer"))
    BY <1>1, <1>2, ConcatProperties
<1>4. Rehash \in Seq(KeepingLooks("writer"))
    BY <1>3, RecheckIsLegal, ConcatProperties DEF Rehash
<1> QED BY <1>4, RecheckIsLegal, ConcatProperties DEF JointRecheck

LEMMA RootIsLegal ==
    ASSUME NEW bind \in {"same", "new"}, NEW s \in Sides
    PROVE  Root(bind) \in Seq(KeepingLooks(s)) /\ Agree \in Seq(KeepingLooks(s))
<1>1. Look("root", "reader", {}, bind) \in KeepingLooks(s)
    BY DEF KeepingLooks, Rebinds, Look, CalmLooks, LegalLooks, AnyLook, Sees, Sides
<1>2. Look("agree", "reader", {}, "same") \in KeepingLooks(s)
    BY DEF KeepingLooks, Rebinds, Look, CalmLooks, LegalLooks, AnyLook, Sees, Sides
<1> QED BY <1>1, <1>2 DEF Root, Agree

LEMMA KeepingIsCalm ==
    ASSUME NEW s, NEW q \in Seq(KeepingLooks(s))
    PROVE  q \in Seq(CalmLooks)
BY SeqMonotonic DEF KeepingLooks

LEMMA MakeSessionIsLegal == MakeSession \in Seq(CalmLooks)
<1>1. \A bind \in {"same", "new"} : Root(bind) \in Seq(CalmLooks)
    BY RootIsLegal, KeepingIsCalm DEF Sides
<1>2. Agree \in Seq(CalmLooks)
    BY RootIsLegal, KeepingIsCalm DEF Sides
<1>3. Root("new") \o ReadPair \in Seq(CalmLooks)
    BY <1>1, ReadPairIsLegal, ConcatProperties
<1>4. Root("new") \o ReadPair \o Root("same") \in Seq(CalmLooks)
    BY <1>1, <1>3, ConcatProperties
<1>5. Root("new") \o ReadPair \o Root("same") \o OpenTransaction \in Seq(CalmLooks)
    BY <1>4, OpenTransactionIsLegal, ConcatProperties
<1>6. Root("new") \o ReadPair \o Root("same") \o OpenTransaction \o Root("same") \in Seq(CalmLooks)
    BY <1>1, <1>5, ConcatProperties
<1>7. Root("new") \o ReadPair \o Root("same") \o OpenTransaction \o Root("same")
        \o ScanRetained \in Seq(CalmLooks)
    BY <1>6, ScanRetainedIsLegal, ConcatProperties
<1>8. Root("new") \o ReadPair \o Root("same") \o OpenTransaction \o Root("same")
        \o ScanRetained \o Agree \in Seq(CalmLooks)
    BY <1>2, <1>7, ConcatProperties
<1> QED BY <1>1, <1>8, ConcatProperties DEF MakeSession

LEMMA RevalidateIsLegal == Revalidate \in Seq(CalmLooks)
<1>1. Root("same") \in Seq(CalmLooks)
    BY RootIsLegal, KeepingIsCalm DEF Sides
<1>2. Agree \in Seq(CalmLooks)
    BY RootIsLegal, KeepingIsCalm DEF Sides
<1>3. Root("same") \o ReadPair \in Seq(CalmLooks)
    BY <1>1, ReadPairIsLegal, ConcatProperties
<1>4. Root("same") \o ReadPair \o Root("same") \in Seq(CalmLooks)
    BY <1>1, <1>3, ConcatProperties
<1>5. Root("same") \o ReadPair \o Root("same") \o ScanRetained \in Seq(CalmLooks)
    BY <1>4, ScanRetainedIsLegal, ConcatProperties
<1>6. Root("same") \o ReadPair \o Root("same") \o ScanRetained \o Agree \in Seq(CalmLooks)
    BY <1>2, <1>5, ConcatProperties
<1>7. Root("same") \o ReadPair \o Root("same") \o ScanRetained \o Agree \o Root("same") \in Seq(CalmLooks)
    BY <1>1, <1>6, ConcatProperties
<1> QED BY <1>7, JointRecheckIsLegal, KeepingIsCalm, ConcatProperties DEF Revalidate

-----------------------------------------------------------------------------
(* Growth: a row is written by the last look but one, and the last sees it.    *)

GrowthLast(q) ==
    \A k \in 1 .. Len(q) :
        /\ q[k].see = "write" =>
              k + 1 = Len(q) /\ q[k + 1].see = "grown" /\ q[k + 1].of = q[k].of
        /\ q[k].see = "grown" /\ k # 1 => q[k - 1].see = "write"

LEMMA CalmHasNoGrowth ==
    ASSUME NEW q \in Seq(CalmLooks)
    PROVE  q \in Seq(LegalLooks) /\ GrowthLast(q)
<1>1. \A k \in 1 .. Len(q) : q[k] \in CalmLooks
    BY ElementOfSeq
<1>2. q \in Seq(LegalLooks)
    BY SeqMonotonic DEF CalmLooks
<1> QED BY <1>1, <1>2 DEF GrowthLast, CalmLooks

LEMMA TailOfGrowth ==
    ASSUME NEW q \in Seq(LegalLooks), q # <<>>, GrowthLast(q)
    PROVE  /\ GrowthLast(Tail(q))
           /\ Head(q).see = "write" =>
                 /\ Tail(q) # <<>> /\ Head(Tail(q)).see = "grown" /\ Head(Tail(q)).of = Head(q).of
           /\ Head(q).see # "write" /\ Tail(q) # <<>> => Head(Tail(q)).see # "grown"
<1> DEFINE t == Tail(q)
<1>1. /\ t \in Seq(LegalLooks) /\ Len(t) = Len(q) - 1 /\ Len(q) \in Nat \ {0}
      /\ \A k \in 1 .. Len(t) : t[k] = q[k + 1]
    BY HeadTailProperties, EmptySeq
<1>2. Head(q) = q[1] /\ (t # <<>> => Head(t) = t[1] /\ Len(t) \in Nat \ {0})
    BY <1>1, EmptySeq
<1> HIDE DEF t
<1>3. ASSUME NEW k \in 1 .. Len(t)
      PROVE  /\ t[k].see = "write" =>
                   k + 1 = Len(t) /\ t[k + 1].see = "grown" /\ t[k + 1].of = t[k].of
             /\ t[k].see = "grown" /\ k # 1 => t[k - 1].see = "write"
    <2>1. k + 1 \in 1 .. Len(q) /\ t[k] = q[k + 1] /\ k \in Nat \ {0}
        BY <1>1
    <2>2. t[k].see = "write" =>
              k + 1 = Len(t) /\ t[k + 1].see = "grown" /\ t[k + 1].of = t[k].of
        <3>1. q[k + 1].see = "write" =>
                 k + 1 + 1 = Len(q) /\ q[k + 1 + 1].see = "grown" /\ q[k + 1 + 1].of = q[k + 1].of
            BY <2>1 DEF GrowthLast
        <3>2. k + Len(q) = 2 => k + 1 \in 1 .. Len(t) /\ t[k + 1] = q[k + 1 + 1]
            BY <1>1, <2>1
        <3> QED BY <1>1, <2>1, <3>1, <3>2
    <2>3. t[k].see = "grown" /\ k # 1 => t[k - 1].see = "write"
        <3>1. q[k + 1].see = "grown" => q[k].see = "write"
            BY <2>1 DEF GrowthLast
        <3>2. k # 1 => k - 1 \in 1 .. Len(t) /\ t[k - 1] = q[k - 1 + 1] /\ k - 1 + 1 = k
            BY <1>1, <2>1
        <3> QED BY <2>1, <3>1, <3>2
    <2> QED BY <2>2, <2>3
<1>4. Head(q).see = "write" => t # <<>> /\ Head(t).see = "grown" /\ Head(t).of = Head(q).of
    <2>1. q[1].see = "write" => Len(q) = 2 /\ q[2].see = "grown" /\ q[2].of = q[1].of
        BY <1>1 DEF GrowthLast
    <2>2. Len(q) = 2 => Len(t) = 1 /\ t[1] = q[2]
        <3>0. Len(t) = Len(q) - 1
            BY <1>1
        <3>1. Len(q) = 2 => Len(t) = 1 /\ 1 \in 1 .. Len(t)
            BY <3>0
        <3>2. 1 \in 1 .. Len(t) => t[1] = q[1 + 1]
            BY <1>1
        <3> QED BY <3>1, <3>2
    <2>3. Len(t) = 1 => t # <<>>
        OBVIOUS
    <2> QED BY <1>2, <2>1, <2>2, <2>3
<1>5. Head(q).see # "write" /\ t # <<>> => Head(t).see # "grown"
    <2>1. ASSUME t # <<>> PROVE t[1] = q[2] /\ 2 \in 1 .. Len(q)
        BY <1>1, <1>2, <2>1
    <2>2. ASSUME t # <<>> PROVE q[2].see = "grown" => q[1].see = "write"
        BY <2>1, <2>2 DEF GrowthLast
    <2> QED BY <1>2, <2>1, <2>2
<1> QED BY <1>3, <1>4, <1>5 DEF GrowthLast, t

LEMMA AppendToIsLegal ==
    ASSUME NEW l \in Ledgers
    PROVE  AppendTo(l) \in Seq(LegalLooks) /\ GrowthLast(AppendTo(l))
<1> DEFINE p == Recheck
           q == << Stat("write", "writer", l), Stat("grown", "writer", l) >>
           r == p \o q
<1>1. p \in Seq(CalmLooks) /\ p \in Seq(LegalLooks) /\ Len(p) \in Nat /\ Len(p) # 0
    <2>1. p \in Seq(CalmLooks)
        BY RecheckIsLegal, KeepingIsCalm
    <2>2. Len(p) = 4
        BY DEF Recheck
    <2> QED BY <2>1, <2>2, CalmHasNoGrowth
<1>2. q \in Seq(LegalLooks)
    BY GrowthIsLegal
<1>3. Len(q) = 2 /\ q[1] = Stat("write", "writer", l) /\ q[2] = Stat("grown", "writer", l)
    OBVIOUS
<1>4. AppendTo(l) = r
    BY DEF AppendTo
<1> HIDE DEF p, q, r
<1>5. /\ r \in Seq(LegalLooks) /\ Len(r) = Len(p) + 2
      /\ \A i \in 1 .. Len(p) + 2 : r[i] = IF i <= Len(p) THEN p[i] ELSE q[i - Len(p)]
    <2>1. /\ p \o q \in Seq(LegalLooks) /\ Len(p \o q) = Len(p) + Len(q)
          /\ \A i \in 1 .. Len(p) + Len(q) : (p \o q)[i] = IF i <= Len(p) THEN p[i] ELSE q[i - Len(p)]
        BY <1>1, <1>2, ConcatProperties
    <2> QED BY <1>1, <1>3, <2>1 DEF r
<1>6. \A i \in 1 .. Len(p) : r[i] \in CalmLooks
    BY <1>1, <1>5, ElementOfSeq
<1>7. r[Len(p) + 1] = Stat("write", "writer", l) /\ r[Len(p) + 2] = Stat("grown", "writer", l)
    BY <1>1, <1>3, <1>5
<1>8. ASSUME NEW k \in 1 .. Len(r)
      PROVE  /\ r[k].see = "write" =>
                   k + 1 = Len(r) /\ r[k + 1].see = "grown" /\ r[k + 1].of = r[k].of
             /\ r[k].see = "grown" /\ k # 1 => r[k - 1].see = "write"
    <2>1. CASE k <= Len(p)
        <3>1. r[k] \in CalmLooks
            BY <1>1, <1>6, <2>1
        <3> QED BY <3>1 DEF CalmLooks
    <2>2. CASE k = Len(p) + 1
        <3>1. k + 1 = Len(p) + 2 /\ k + 1 = Len(r)
            BY <1>1, <1>5, <2>2
        <3>2. r[k].see = "write" /\ r[k].of = {l} /\ r[k + 1].see = "grown" /\ r[k + 1].of = {l}
            BY <1>7, <2>2, <3>1 DEF Stat, Look
        <3> QED BY <3>1, <3>2
    <2>3. CASE k = Len(p) + 2
        <3>1. k - 1 = Len(p) + 1
            BY <1>1, <2>3
        <3> QED BY <1>7, <2>3, <3>1 DEF Stat, Look
    <2> QED BY <1>1, <1>5, <1>8, <2>1, <2>2, <2>3
<1> QED BY <1>4, <1>5, <1>8 DEF GrowthLast

(* Every operation begins with a look that may be one of a reader's.           *)
LEMMA ScriptsAreLegal ==
    ASSUME NEW name \in DOMAIN Scripts
    PROVE  /\ Scripts[name] \in Seq(LegalLooks) /\ GrowthLast(Scripts[name])
           /\ name \in Reading => Scripts[name] \in Seq(CalmLooks)
<1>1. CASE name = "append_event"
    BY <1>1, AppendToIsLegal DEF Scripts, Reading, Ledgers
<1>2. CASE name = "append_raw"
    BY <1>2, AppendToIsLegal DEF Scripts, Reading, Ledgers
<1>3. CASE name \in {"verify", "session", "scan", "revalidate"}
    <2>1. Scripts[name] \in Seq(CalmLooks)
        BY <1>3, ReadPairIsLegal, MakeSessionIsLegal, ScanRetainedIsLegal, RevalidateIsLegal DEF Scripts
    <2> QED BY <1>3, <2>1, CalmHasNoGrowth DEF Reading
<1> QED BY <1>1, <1>2, <1>3 DEF Scripts

-----------------------------------------------------------------------------
(* Facts that looks need and give.  "fd": the side has the file open; "base":  *)
(* it is bound to the file as it is; "read": it has read the rows in it.       *)

AllFacts == {"fd", "base", "read"} \X Sides \X Ledgers
Bound(s) == {"fd", "base"} \X {s} \X Ledgers
Owned(s) == {"fd", "base", "read"} \X {s} \X Ledgers

NeedsFact(look, what, s, l) ==
    \/ look.see = "agree" /\ what \in {"base", "read"}
    \/ /\ s = look.side /\ l \in look.of
       /\ \/ look.see = "path" /\ look.bind = "same" /\ what = "base"
          \/ look.see = "fd" /\ what \in {"fd", "base"}
          \/ look.see = "rows" /\ (what \in {"fd", "base"} \/ look.bind = "same")
          \/ look.see = "write"
          \/ look.see = "grown" /\ what = "fd"
GivesFact(look, what, s, l) ==
    /\ s = look.side /\ l \in look.of
    /\ \/ look.see = "path" /\ what = "base"
       \/ look.see = "open" /\ what = "fd"
       \/ look.see = "rows" /\ what = "read"
       \/ look.see = "grown" /\ what \in {"base", "read"}
Needs(look) == { f \in AllFacts : NeedsFact(look, f[1], f[2], f[3]) }
Gives(look) == { f \in AllFacts : GivesFact(look, f[1], f[2], f[3]) }

(* From the facts F, every look of q finds what it needs, and then G holds.    *)
Takes(F, q, G) ==
    /\ \A k \in 1 .. Len(q) : \A f \in Needs(q[k]) :
          f \in F \/ \E j \in 1 .. k - 1 : f \in Gives(q[j])
    /\ \A f \in G : f \in F \/ \E j \in 1 .. Len(q) : f \in Gives(q[j])

LEMMA TakesMore ==
    ASSUME NEW F, NEW F2, NEW G, NEW G2, NEW q, F \subseteq F2, G2 \subseteq G, Takes(F, q, G)
    PROVE  Takes(F2, q, G2)
BY DEF Takes

LEMMA TakesNothing ==
    ASSUME NEW F, NEW q \in Seq({ look \in LegalLooks : Needs(look) \subseteq F })
    PROVE  Takes(F, q, F)
<1>1. \A k \in 1 .. Len(q) : Needs(q[k]) \subseteq F
    BY ElementOfSeq
<1> QED BY <1>1 DEF Takes

LEMMA TakesThree ==
    ASSUME NEW F, NEW G, NEW a, NEW b, NEW c,
           Needs(a) \subseteq F, Needs(b) \subseteq F \cup Gives(a),
           Needs(c) \subseteq F \cup Gives(a) \cup Gives(b),
           G \subseteq F \cup Gives(a) \cup Gives(b) \cup Gives(c)
    PROVE  Takes(F, <<a, b, c>>, G)
<1> DEFINE q == <<a, b, c>>
<1>1. Len(q) = 3 /\ q[1] = a /\ q[2] = b /\ q[3] = c
    OBVIOUS
<1> HIDE DEF q
<1>2. ASSUME NEW k \in 1 .. 3, NEW f \in Needs(q[k])
      PROVE  f \in F \/ \E j \in 1 .. k - 1 : f \in Gives(q[j])
    <2>1. CASE k = 1
        BY <1>1, <1>2, <2>1
    <2>2. CASE k = 2
        BY <1>1, <1>2, <2>2
    <2>3. CASE k = 3
        BY <1>1, <1>2, <2>3
    <2> QED BY <2>1, <2>2, <2>3
<1>3. ASSUME NEW f \in G
      PROVE  f \in F \/ \E j \in 1 .. 3 : f \in Gives(q[j])
    BY <1>1, <1>3
<1> QED BY <1>1, <1>2, <1>3 DEF Takes, q

LEMMA TakesThenTakes ==
    ASSUME NEW F, NEW G, NEW H, NEW p \in Seq(LegalLooks), NEW q \in Seq(LegalLooks),
           Takes(F, p, G), Takes(G, q, H)
    PROVE  Takes(F, p \o q, H)
<1> DEFINE r == p \o q
<1>1. /\ Len(r) = Len(p) + Len(q) /\ Len(p) \in Nat /\ Len(q) \in Nat
      /\ \A i \in 1 .. Len(p) + Len(q) : r[i] = IF i <= Len(p) THEN p[i] ELSE q[i - Len(p)]
    BY ConcatProperties, LenProperties
<1> HIDE DEF r
<1>2. ASSUME NEW j \in 1 .. Len(p) PROVE r[j] = p[j] /\ j \in 1 .. Len(r)
    BY <1>1
<1>3. ASSUME NEW j \in 1 .. Len(q) PROVE r[Len(p) + j] = q[j] /\ Len(p) + j \in 1 .. Len(r)
    BY <1>1
<1>4. ASSUME NEW f \in G PROVE f \in F \/ \E j \in 1 .. Len(p) : f \in Gives(r[j])
    BY <1>2, <1>4 DEF Takes
<1>5. ASSUME NEW k \in 1 .. Len(r), NEW f \in Needs(r[k])
      PROVE  f \in F \/ \E j \in 1 .. k - 1 : f \in Gives(r[j])
    <2>1. CASE k <= Len(p)
        <3>1. k \in 1 .. Len(p) /\ f \in Needs(p[k])
            BY <1>1, <1>2, <1>5, <2>1
        <3>2. f \in F \/ \E j \in 1 .. k - 1 : f \in Gives(p[j])
            BY <3>1 DEF Takes
        <3>3. \A j \in 1 .. k - 1 : r[j] = p[j]
            BY <1>1, <1>2, <2>1
        <3> QED BY <3>2, <3>3
    <2>2. CASE ~(k <= Len(p))
        <3>1. k - Len(p) \in 1 .. Len(q) /\ f \in Needs(q[k - Len(p)])
            BY <1>1, <1>5, <2>2
        <3>2. f \in G \/ \E j \in 1 .. k - Len(p) - 1 : f \in Gives(q[j])
            BY <3>1 DEF Takes
        <3>3. CASE f \in G
            BY <1>1, <1>4, <2>2, <3>3
        <3>4. ASSUME NEW j \in 1 .. k - Len(p) - 1, f \in Gives(q[j])
              PROVE  f \in Gives(r[Len(p) + j]) /\ Len(p) + j \in 1 .. k - 1
            <4>1. j \in 1 .. Len(q) /\ Len(p) + j \in 1 .. k - 1
                BY <1>1, <3>1
            <4> QED BY <1>3, <3>4, <4>1
        <3> QED BY <3>2, <3>3, <3>4
    <2> QED BY <2>1, <2>2
<1>6. ASSUME NEW f \in H
      PROVE  f \in F \/ \E j \in 1 .. Len(r) : f \in Gives(r[j])
    <2>1. f \in G \/ \E j \in 1 .. Len(q) : f \in Gives(q[j])
        BY <1>6 DEF Takes
    <2> QED BY <1>2, <1>3, <1>4, <2>1
<1> QED BY <1>5, <1>6 DEF Takes, r

LEMMA TailTakes ==
    ASSUME NEW F, NEW G, NEW q \in Seq(LegalLooks), q # <<>>, Takes(F, q, G)
    PROVE  Needs(Head(q)) \subseteq F /\ Takes(F \cup Gives(Head(q)), Tail(q), G)
<1> DEFINE t == Tail(q)
<1>1. /\ Len(t) = Len(q) - 1 /\ Len(q) \in Nat \ {0} /\ Head(q) = q[1]
      /\ \A k \in 1 .. Len(t) : t[k] = q[k + 1]
    BY HeadTailProperties, EmptySeq
<1> HIDE DEF t
<1>2. Needs(q[1]) \subseteq F
    BY <1>1 DEF Takes
<1>3. ASSUME NEW k \in 1 .. Len(t), NEW f \in Needs(t[k])
      PROVE  f \in F \cup Gives(q[1]) \/ \E j \in 1 .. k - 1 : f \in Gives(t[j])
    <2>1. k + 1 \in 1 .. Len(q) /\ f \in Needs(q[k + 1])
        BY <1>1, <1>3
    <2>2. f \in F \/ \E j \in 1 .. (k + 1) - 1 : f \in Gives(q[j])
        BY <2>1 DEF Takes
    <2>3. ASSUME NEW j \in 1 .. k, f \in Gives(q[j])
          PROVE  f \in Gives(q[1]) \/ \E i \in 1 .. k - 1 : f \in Gives(t[i])
        <3>1. CASE j = 1
            BY <2>3, <3>1
        <3>2. CASE j # 1
            <4>1. j - 1 \in 1 .. k - 1 /\ t[j - 1] = q[j - 1 + 1] /\ j - 1 + 1 = j
                BY <1>1, <3>2
            <4> QED BY <2>3, <4>1
        <3> QED BY <3>1, <3>2
    <2> QED BY <2>2, <2>3
<1>4. ASSUME NEW f \in G
      PROVE  f \in F \cup Gives(q[1]) \/ \E j \in 1 .. Len(t) : f \in Gives(t[j])
    <2>1. f \in F \/ \E j \in 1 .. Len(q) : f \in Gives(q[j])
        BY <1>4 DEF Takes
    <2>2. ASSUME NEW j \in 1 .. Len(q), f \in Gives(q[j]), j # 1
          PROVE  \E i \in 1 .. Len(t) : f \in Gives(t[i])
        <3>1. j - 1 \in 1 .. Len(t) /\ t[j - 1] = q[j - 1 + 1] /\ j - 1 + 1 = j
            BY <1>1, <2>2
        <3> QED BY <2>2, <3>1
    <2> QED BY <2>1, <2>2
<1> QED BY <1>1, <1>2, <1>3, <1>4 DEF Takes, t

(* What single looks need and give.                                            *)
LEMMA PathFacts ==
    ASSUME NEW s \in Sides, NEW l \in Ledgers
    PROVE  /\ Needs(Look("path", s, {l}, "new")) = {}
           /\ Needs(Stat("path", s, l)) = {"base"} \X {s} \X {l}
           /\ \A bind : Gives(Look("path", s, {l}, bind)) = {"base"} \X {s} \X {l}
BY DEF Needs, Gives, NeedsFact, GivesFact, AllFacts, Look, Stat

LEMMA OpenFacts ==
    ASSUME NEW s \in Sides, NEW l \in Ledgers
    PROVE  /\ Needs(Stat("open", s, l)) = {}
           /\ Gives(Stat("open", s, l)) = {"fd"} \X {s} \X {l}
BY DEF Needs, Gives, NeedsFact, GivesFact, AllFacts, Look, Stat

LEMMA FdFacts ==
    ASSUME NEW s \in Sides, NEW l \in Ledgers
    PROVE  Needs(Stat("fd", s, l)) = {"fd", "base"} \X {s} \X {l}
BY DEF Needs, Gives, NeedsFact, GivesFact, AllFacts, Look, Stat

LEMMA RowsFacts ==
    ASSUME NEW s \in Sides, NEW ls \in SUBSET Ledgers, NEW bind \in {"same", "new"}
    PROVE  /\ Needs(Look("rows", s, ls, "new")) = {"fd", "base"} \X {s} \X ls
           /\ Needs(Look("rows", s, ls, bind)) \subseteq {"fd", "base", "read"} \X {s} \X ls
           /\ Gives(Look("rows", s, ls, bind)) = {"read"} \X {s} \X ls
BY DEF Needs, Gives, NeedsFact, GivesFact, AllFacts, Look

LEMMA OtherFacts ==
    ASSUME NEW l \in Ledgers, NEW bind
    PROVE  /\ Needs(Look("root", "reader", {}, bind)) = {}
           /\ Needs(Look("agree", "reader", {}, "same")) \subseteq Owned("reader") \cup Owned("writer")
           /\ Needs(Stat("write", "writer", l)) \subseteq Owned("writer")
           /\ Needs(Stat("grown", "writer", l)) \subseteq Owned("writer")
<1>1. Needs(Look("root", "reader", {}, bind)) = {}
    BY DEF Needs, NeedsFact, AllFacts, Look
<1>2. Needs(Look("agree", "reader", {}, "same")) \subseteq Owned("reader") \cup Owned("writer")
    BY DEF Needs, NeedsFact, AllFacts, Look, Owned, Sides
<1>3. Needs(Stat("write", "writer", l)) \subseteq Owned("writer")
    BY DEF Needs, NeedsFact, AllFacts, Look, Stat, Owned
<1>4. Needs(Stat("grown", "writer", l)) \subseteq Owned("writer")
    BY DEF Needs, NeedsFact, AllFacts, Look, Stat, Owned
<1> QED BY <1>1, <1>2, <1>3, <1>4

(* Looks that need no more than what a side owns.                              *)
Fed(F) == { look \in LegalLooks : Needs(look) \subseteq F }

LEMMA OwnersAreFed ==
    ASSUME NEW F, NEW s \in Sides, Owned(s) \subseteq F, NEW l \in Ledgers
    PROVE  /\ Look("path", s, {l}, "same") \in Fed(F)
           /\ \A see \in {"path", "open", "fd"} : Stat(see, s, l) \in Fed(F)
           /\ Look("rows", s, {l}, "same") \in Fed(F)
           /\ Look("rows", s, Ledgers, "same") \in Fed(F)
<1>1. {"fd", "base", "read"} \X {s} \X Ledgers \subseteq F
    BY DEF Owned
<1>2. \A see \in {"path", "open", "fd"} : Stat(see, s, l) \in LegalLooks
    BY StatIsLegal DEF CalmLooks
<1>3. \A ls \in SUBSET Ledgers : Look("rows", s, ls, "same") \in LegalLooks
    BY RowsAreLegal DEF CalmLooks
<1>4. \A see \in {"path", "open", "fd"} : Stat(see, s, l) \in Fed(F)
    <2>1. Needs(Stat("path", s, l)) \subseteq F
        <3>1. Needs(Stat("path", s, l)) = {"base"} \X {s} \X {l}
            BY PathFacts
        <3> QED BY <1>1, <3>1
    <2>2. Needs(Stat("open", s, l)) \subseteq F
        BY OpenFacts
    <2>3. Needs(Stat("fd", s, l)) \subseteq F
        BY <1>1, FdFacts
    <2> QED BY <1>2, <2>1, <2>2, <2>3 DEF Fed
<1>5. \A ls \in SUBSET Ledgers : Look("rows", s, ls, "same") \in Fed(F)
    <2> SUFFICES ASSUME NEW ls \in SUBSET Ledgers PROVE Needs(Look("rows", s, ls, "same")) \subseteq F
        BY <1>3 DEF Fed
    <2>1. Needs(Look("rows", s, ls, "same")) \subseteq {"fd", "base", "read"} \X {s} \X ls
        BY RowsFacts
    <2> QED BY <1>1, <2>1
<1> QED BY <1>4, <1>5 DEF Stat

LEMMA OpeningTakes ==
    ASSUME NEW F, NEW s \in Sides, NEW l \in Ledgers
    PROVE  Takes(F, Opening(s, l, "new"), F \cup {"fd", "base"} \X {s} \X {l})
<1>1. Needs(Look("path", s, {l}, "new")) \subseteq F
    BY PathFacts
<1>2. Needs(Stat("open", s, l)) \subseteq F \cup Gives(Look("path", s, {l}, "new"))
    BY OpenFacts
<1>3. {"fd", "base"} \X {s} \X {l}
          \subseteq F \cup Gives(Look("path", s, {l}, "new")) \cup Gives(Stat("open", s, l))
    BY PathFacts, OpenFacts
<1>4. Needs(Stat("fd", s, l))
          \subseteq F \cup Gives(Look("path", s, {l}, "new")) \cup Gives(Stat("open", s, l))
    BY <1>3, FdFacts
<1> DEFINE a == Look("path", s, {l}, "new")
           b == Stat("open", s, l)
           c == Stat("fd", s, l)
           G == {"fd", "base"} \X {s} \X {l}
<1>5. Opening(s, l, "new") = <<a, b, c>>
    BY DEF Opening
<1>6. Needs(a) \subseteq F /\ Needs(b) \subseteq F \cup Gives(a)
        /\ G \subseteq F \cup Gives(a) \cup Gives(b) /\ Needs(c) \subseteq F \cup Gives(a) \cup Gives(b)
    BY <1>1, <1>2, <1>3, <1>4
<1> HIDE DEF a, b, c, G
<1>7. F \cup G \subseteq F \cup Gives(a) \cup Gives(b) \cup Gives(c)
    BY <1>6
<1>8. Takes(F, <<a, b, c>>, F \cup G)
    BY <1>6, <1>7, TakesThree
<1> QED BY <1>5, <1>8 DEF G

LEMMA StatsTake ==
    ASSUME NEW F, NEW s \in Sides, Owned(s) \subseteq F
    PROVE  Takes(F, BothStats(s), F)
<1>1. BothStats(s) \in Seq(Fed(F))
    BY OwnersAreFed DEF BothStats, Ledgers
<1> QED BY <1>1, TakesNothing DEF Fed

LEMMA NewPassesTake ==
    ASSUME NEW F, NEW s \in Sides, Bound(s) \subseteq F
    PROVE  Takes(F, ThreePasses(s, "new"), F \cup Owned(s))
<1> DEFINE a == Look("rows", s, {"events"}, "new")
           b == Look("rows", s, {"raw"}, "new")
           c == Look("rows", s, Ledgers, "same")
<1>1. Needs(a) \subseteq F
    BY RowsFacts DEF Bound, Ledgers
<1>2. Needs(b) \subseteq F
    BY RowsFacts DEF Bound, Ledgers
<1>3. Gives(a) = {"read"} \X {s} \X {"events"} /\ Gives(b) = {"read"} \X {s} \X {"raw"}
    BY RowsFacts DEF Ledgers
<1>4. Needs(c) \subseteq {"fd", "base", "read"} \X {s} \X Ledgers
    BY RowsFacts
<1>5. Owned(s) \subseteq F \cup Gives(a) \cup Gives(b)
    BY <1>3 DEF Owned, Bound, Ledgers
<1>6. Needs(c) \subseteq Owned(s)
    BY <1>4 DEF Owned
<1>7. /\ <<a, b, c>> \in Seq(LegalLooks) /\ BothStats(s) \in Seq(LegalLooks)
      /\ ThreePasses(s, "new") = <<a, b, c>> \o BothStats(s)
    <2>1. a \in LegalLooks /\ b \in LegalLooks /\ c \in LegalLooks
        BY RowsAreLegal DEF CalmLooks, Ledgers
    <2>2. BothStats(s) \in Seq(LegalLooks)
        BY BothStatsAreLegal, CalmHasNoGrowth
    <2> QED BY <2>1, <2>2 DEF ThreePasses
<1> HIDE DEF a, b, c
<1>8. Takes(F, <<a, b, c>>, F \cup Owned(s))
    BY <1>1, <1>2, <1>5, <1>6, TakesThree
<1>9. Takes(F \cup Owned(s), BothStats(s), F \cup Owned(s))
    BY StatsTake
<1> QED BY <1>7, <1>8, <1>9, TakesThenTakes

LEMMA SamePassesTake ==
    ASSUME NEW F, NEW s \in Sides, Owned(s) \subseteq F
    PROVE  Takes(F, ThreePasses(s, "same"), F)
<1> DEFINE p == << Look("rows", s, {"events"}, "same"), Look("rows", s, {"raw"}, "same"),
                   Look("rows", s, Ledgers, "same") >>
<1>1. p \in Seq(Fed(F))
    BY OwnersAreFed DEF Ledgers
<1>2. p \in Seq(LegalLooks)
    BY <1>1, SeqMonotonic DEF Fed
<1>3. BothStats(s) \in Seq(LegalLooks)
    BY BothStatsAreLegal, CalmHasNoGrowth
<1>4. ThreePasses(s, "same") = p \o BothStats(s)
    BY DEF ThreePasses
<1> HIDE DEF p
<1>5. Takes(F, p, F)
    BY <1>1, TakesNothing DEF Fed
<1> QED BY <1>2, <1>3, <1>4, <1>5, StatsTake, TakesThenTakes

LEMMA ReadPairTakes ==
    ASSUME NEW F
    PROVE  Takes(F, ReadPair, F \cup Owned("reader"))
<1> DEFINE p == Opening("reader", "events", "new")
           q == Opening("reader", "raw", "new")
           r == ThreePasses("reader", "new")
           G == F \cup {"fd", "base"} \X {"reader"} \X {"events"}
           H == G \cup {"fd", "base"} \X {"reader"} \X {"raw"}
<1>1. Takes(F, p, G) /\ Takes(G, q, H)
    BY OpeningTakes DEF Sides, Ledgers
<1>2. Bound("reader") \subseteq H /\ H \subseteq F \cup Owned("reader")
    BY DEF Bound, Owned, Ledgers
<1>3. Takes(H, r, H \cup Owned("reader"))
    BY <1>2, NewPassesTake DEF Sides
<1>4. p \in Seq(LegalLooks) /\ q \in Seq(LegalLooks) /\ r \in Seq(LegalLooks)
    BY OpeningIsLegal, ThreePassesAreLegal, CalmHasNoGrowth DEF Sides, Ledgers
<1>5. ReadPair = p \o q \o r
    BY DEF ReadPair
<1>6. F \cup Owned("reader") \subseteq H \cup Owned("reader")
    OBVIOUS
<1> HIDE DEF p, q, r, G, H
<1>7. Takes(F, p \o q, H) /\ p \o q \in Seq(LegalLooks)
    BY <1>1, <1>4, TakesThenTakes, ConcatProperties
<1>8. Takes(F, p \o q \o r, H \cup Owned("reader"))
    BY <1>3, <1>4, <1>7, TakesThenTakes
<1> QED BY <1>5, <1>6, <1>8, TakesMore

LEMMA SnapshotTakes ==
    ASSUME NEW F, NEW l \in Ledgers
    PROVE  Takes(F, Snapshot(l), F \cup {"fd", "base", "read"} \X {"writer"} \X {l})
<1> DEFINE p == Opening("writer", l, "new")
           a == Look("rows", "writer", {l}, "new")
           b == Stat("fd", "writer", l)
           c == Stat("path", "writer", l)
           G == F \cup {"fd", "base"} \X {"writer"} \X {l}
           H == F \cup {"fd", "base", "read"} \X {"writer"} \X {l}
<1>1. Takes(F, p, G)
    BY OpeningTakes DEF Sides
<1>2. Needs(a) \subseteq G
    BY RowsFacts DEF Sides
<1>3. Needs(b) \subseteq G /\ Needs(c) \subseteq G
    <2>1. Needs(b) = {"fd", "base"} \X {"writer"} \X {l}
        BY FdFacts DEF Sides
    <2>2. Needs(c) = {"base"} \X {"writer"} \X {l}
        BY PathFacts DEF Sides
    <2> QED BY <2>1, <2>2
<1>4. Gives(a) = {"read"} \X {"writer"} \X {l}
    BY RowsFacts DEF Sides
<1>5. H \subseteq G \cup Gives(a)
    BY <1>4
<1>6. p \in Seq(LegalLooks) /\ <<a, b, c>> \in Seq(LegalLooks)
    <2>1. a \in LegalLooks /\ b \in LegalLooks /\ c \in LegalLooks
        BY RowsAreLegal, StatIsLegal DEF CalmLooks, Sides
    <2>2. p \in Seq(LegalLooks)
        BY OpeningIsLegal, CalmHasNoGrowth DEF Sides
    <2> QED BY <2>1, <2>2
<1>7. Snapshot(l) = p \o <<a, b, c>>
    BY DEF Snapshot
<1> HIDE DEF p, a, b, c, G, H
<1>8. Takes(G, <<a, b, c>>, H)
    BY <1>2, <1>3, <1>5, TakesThree
<1>9. Takes(F, p \o <<a, b, c>>, H)
    BY <1>1, <1>6, <1>8, TakesThenTakes
<1> QED BY <1>7, <1>9 DEF H

LEMMA OpenTransactionTakes ==
    ASSUME NEW F
    PROVE  Takes(F, OpenTransaction, F \cup Owned("writer"))
<1> DEFINE O(l, bind) == Opening("writer", l, bind)
           checked == << Look("rows", "writer", {"events"}, "same"),
                         Stat("fd", "writer", "events"), Stat("path", "writer", "events"),
                         Look("rows", "writer", {"raw"}, "same"),
                         Stat("fd", "writer", "raw"), Stat("path", "writer", "raw") >>
           A == F \cup {"fd", "base"} \X {"writer"} \X {"events"}
           B == A \cup {"fd", "base"} \X {"writer"} \X {"raw"}
           C == B \cup {"fd", "base", "read"} \X {"writer"} \X {"events"}
           D == C \cup {"fd", "base", "read"} \X {"writer"} \X {"raw"}
<1>1. Takes(F, O("events", "new"), A) /\ Takes(A, O("raw", "new"), B)
    BY OpeningTakes DEF Sides, Ledgers
<1>2. Takes(B, Snapshot("events"), C) /\ Takes(C, Snapshot("raw"), D)
    BY SnapshotTakes DEF Ledgers
<1>3. Owned("writer") \subseteq D /\ F \cup Owned("writer") \subseteq D
    BY DEF Owned, Ledgers
<1>4. \A l \in Ledgers : O(l, "same") \in Seq(Fed(D))
    <2>1. ASSUME NEW l \in Ledgers
          PROVE  /\ Look("path", "writer", {l}, "same") \in Fed(D)
                 /\ Stat("open", "writer", l) \in Fed(D) /\ Stat("fd", "writer", l) \in Fed(D)
        BY <1>3, OwnersAreFed DEF Sides
    <2> QED BY <2>1 DEF Opening
<1>5. checked \in Seq(Fed(D))
    BY <1>3, OwnersAreFed DEF Sides, Ledgers
<1>6. /\ \A l \in Ledgers : \A bind \in {"same", "new"} : O(l, bind) \in Seq(LegalLooks)
      /\ \A l \in Ledgers : Snapshot(l) \in Seq(LegalLooks)
    BY OpeningIsLegal, SnapshotIsLegal, CalmHasNoGrowth DEF Sides
<1>7. checked \in Seq(LegalLooks)
    BY <1>5, SeqMonotonic DEF Fed
<1>8. OpenTransaction = O("events", "new") \o O("raw", "new") \o Snapshot("events") \o Snapshot("raw")
                          \o O("events", "same") \o O("raw", "same") \o checked
    BY DEF OpenTransaction
<1> HIDE DEF O, checked, A, B, C, D
<1>9. /\ O("events", "new") \in Seq(LegalLooks) /\ O("raw", "new") \in Seq(LegalLooks)
      /\ O("events", "same") \in Seq(LegalLooks) /\ O("raw", "same") \in Seq(LegalLooks)
      /\ Snapshot("events") \in Seq(LegalLooks) /\ Snapshot("raw") \in Seq(LegalLooks)
    BY <1>6 DEF Ledgers
<1>10. Takes(D, O("events", "same"), D) /\ Takes(D, O("raw", "same"), D) /\ Takes(D, checked, D)
    BY <1>4, <1>5, TakesNothing DEF Fed, Ledgers
<1> DEFINE p2 == O("events", "new") \o O("raw", "new")
           p3 == p2 \o Snapshot("events")
           p4 == p3 \o Snapshot("raw")
           p5 == p4 \o O("events", "same")
           p6 == p5 \o O("raw", "same")
<1>11. OpenTransaction = p6 \o checked
    BY <1>8
<1>12. p2 \in Seq(LegalLooks) /\ Takes(F, p2, B)
    BY <1>1, <1>9, TakesThenTakes, ConcatProperties
<1> HIDE DEF p2
<1>13. p3 \in Seq(LegalLooks) /\ Takes(F, p3, C)
    BY <1>2, <1>9, <1>12, TakesThenTakes, ConcatProperties
<1> HIDE DEF p3
<1>14. p4 \in Seq(LegalLooks) /\ Takes(F, p4, D)
    BY <1>2, <1>9, <1>13, TakesThenTakes, ConcatProperties
<1> HIDE DEF p4
<1>15. p5 \in Seq(LegalLooks) /\ Takes(F, p5, D)
    BY <1>9, <1>10, <1>14, TakesThenTakes, ConcatProperties
<1> HIDE DEF p5
<1>16. p6 \in Seq(LegalLooks) /\ Takes(F, p6, D)
    BY <1>9, <1>10, <1>15, TakesThenTakes, ConcatProperties
<1> HIDE DEF p6
<1>17. Takes(F, p6 \o checked, D)
    BY <1>7, <1>10, <1>16, TakesThenTakes
<1> QED BY <1>3, <1>11, <1>17, TakesMore

LEMMA ScanRetainedTakes ==
    ASSUME NEW F, Owned("writer") \subseteq F
    PROVE  Takes(F, ScanRetained, F)
<1> DEFINE p == << Stat("fd", "writer", "events"), Stat("fd", "writer", "raw") >>
           q == ThreePasses("writer", "same")
<1>1. p \in Seq(Fed(F))
    BY OwnersAreFed DEF Sides, Ledgers
<1>2. p \in Seq(LegalLooks)
    BY <1>1, SeqMonotonic DEF Fed
<1>3. q \in Seq(LegalLooks) /\ Takes(F, q, F)
    BY ThreePassesAreLegal, SamePassesTake, CalmHasNoGrowth DEF Sides
<1>4. ScanRetained = p \o q
    BY DEF ScanRetained
<1> HIDE DEF p, q
<1>5. Takes(F, p, F)
    BY <1>1, TakesNothing DEF Fed
<1> QED BY <1>2, <1>3, <1>4, <1>5, TakesThenTakes

LEMMA RecheckTakes ==
    ASSUME NEW F, Owned("writer") \subseteq F
    PROVE  Takes(F, Recheck, F)
<1>1. Recheck \in Seq(Fed(F))
    BY OwnersAreFed DEF Recheck, Sides, Ledgers
<1> QED BY <1>1, TakesNothing DEF Fed

LEMMA JointRecheckTakes ==
    ASSUME NEW F, Owned("writer") \subseteq F
    PROVE  Takes(F, JointRecheck, F)
<1>1. \A l \in Ledgers : RehashOne(l) \in Seq(Fed(F))
    <2>1. ASSUME NEW l \in Ledgers
          PROVE  /\ Look("rows", "writer", {l}, "same") \in Fed(F)
                 /\ Stat("path", "writer", l) \in Fed(F) /\ Stat("fd", "writer", l) \in Fed(F)
        BY OwnersAreFed DEF Sides
    <2> QED BY <2>1 DEF RehashOne
<1>2. Recheck \in Seq(Fed(F))
    BY OwnersAreFed DEF Recheck, Sides, Ledgers
<1>3. RehashOne("events") \o RehashOne("raw") \in Seq(Fed(F))
    BY <1>1, ConcatProperties DEF Ledgers
<1>4. Rehash \in Seq(Fed(F))
    BY <1>2, <1>3, ConcatProperties DEF Rehash
<1>5. JointRecheck \in Seq(Fed(F))
    BY <1>2, <1>4, ConcatProperties DEF JointRecheck
<1> QED BY <1>5, TakesNothing DEF Fed

LEMMA RootTakes ==
    ASSUME NEW F, NEW bind \in {"same", "new"}
    PROVE  /\ Root(bind) \in Seq(LegalLooks) /\ Takes(F, Root(bind), F)
           /\ Agree \in Seq(LegalLooks)
           /\ Owned("reader") \cup Owned("writer") \subseteq F => Takes(F, Agree, F)
<1>1. Root(bind) \in Seq(LegalLooks) /\ Agree \in Seq(LegalLooks)
    BY RootIsLegal, KeepingIsCalm, CalmHasNoGrowth DEF Sides
<1>2. Root(bind)[1] \in LegalLooks /\ Agree[1] \in LegalLooks
    <2>1. Len(Root(bind)) = 1 /\ Len(Agree) = 1
        BY DEF Root, Agree
    <2>2. 1 \in 1 .. Len(Root(bind)) /\ 1 \in 1 .. Len(Agree)
        BY <2>1
    <2> QED BY <1>1, <2>2, ElementOfSeq
<1>3. Look("root", "reader", {}, bind) \in Fed(F)
    BY <1>2, OtherFacts DEF Fed, Root, Ledgers
<1>4. Root(bind) \in Seq(Fed(F))
    BY <1>3 DEF Root
<1>5. ASSUME Owned("reader") \cup Owned("writer") \subseteq F
      PROVE  Agree \in Seq(Fed(F))
    <2>1. Look("agree", "reader", {}, "same") \in Fed(F)
        BY <1>2, <1>5, OtherFacts DEF Fed, Agree, Ledgers
    <2> QED BY <2>1 DEF Agree
<1> QED BY <1>1, <1>4, <1>5, TakesNothing DEF Fed

LEMMA MakeSessionTakes == Takes({}, MakeSession, Owned("writer"))
<1> DEFINE R == {} \cup Owned("reader")
           W == R \cup Owned("writer")
           p2 == Root("new") \o ReadPair
           p3 == p2 \o Root("same")
           p4 == p3 \o OpenTransaction
           p5 == p4 \o Root("same")
           p6 == p5 \o ScanRetained
           p7 == p6 \o Agree
<1>1. /\ Root("new") \in Seq(LegalLooks) /\ Root("same") \in Seq(LegalLooks) /\ Agree \in Seq(LegalLooks)
      /\ ReadPair \in Seq(LegalLooks) /\ OpenTransaction \in Seq(LegalLooks)
      /\ ScanRetained \in Seq(LegalLooks)
    BY RootTakes, ReadPairIsLegal, OpenTransactionIsLegal, ScanRetainedIsLegal, CalmHasNoGrowth
<1>2. Owned("writer") \subseteq W /\ Owned("reader") \cup Owned("writer") \subseteq W
    OBVIOUS
<1>3. Takes({}, Root("new"), {}) /\ Takes({}, ReadPair, R) /\ Takes(R, OpenTransaction, W)
    BY RootTakes, ReadPairTakes, OpenTransactionTakes
<1>4. MakeSession = p7 \o Root("same")
    BY DEF MakeSession
<1> HIDE DEF R, W
<1>5. /\ Takes(R, Root("same"), R) /\ Takes(W, Root("same"), W)
      /\ Takes(W, ScanRetained, W) /\ Takes(W, Agree, W)
    BY <1>2, RootTakes, ScanRetainedTakes
<1>6. p2 \in Seq(LegalLooks) /\ Takes({}, p2, R)
    BY <1>1, <1>3, TakesThenTakes, ConcatProperties
<1> HIDE DEF p2
<1>7. p3 \in Seq(LegalLooks) /\ Takes({}, p3, R)
    BY <1>1, <1>5, <1>6, TakesThenTakes, ConcatProperties
<1> HIDE DEF p3
<1>8. p4 \in Seq(LegalLooks) /\ Takes({}, p4, W)
    BY <1>1, <1>3, <1>7, TakesThenTakes, ConcatProperties
<1> HIDE DEF p4
<1>9. p5 \in Seq(LegalLooks) /\ Takes({}, p5, W)
    BY <1>1, <1>5, <1>8, TakesThenTakes, ConcatProperties
<1> HIDE DEF p5
<1>10. p6 \in Seq(LegalLooks) /\ Takes({}, p6, W)
    BY <1>1, <1>5, <1>9, TakesThenTakes, ConcatProperties
<1> HIDE DEF p6
<1>11. p7 \in Seq(LegalLooks) /\ Takes({}, p7, W)
    BY <1>1, <1>5, <1>10, TakesThenTakes, ConcatProperties
<1> HIDE DEF p7
<1>12. Takes({}, p7 \o Root("same"), W)
    BY <1>1, <1>5, <1>11, TakesThenTakes
<1> QED BY <1>2, <1>4, <1>12, TakesMore

LEMMA RevalidateTakes == Takes(Owned("writer"), Revalidate, {})
<1> DEFINE V == Owned("writer")
           W == V \cup Owned("reader")
           p2 == Root("same") \o ReadPair
           p3 == p2 \o Root("same")
           p4 == p3 \o ScanRetained
           p5 == p4 \o Agree
           p6 == p5 \o Root("same")
<1>1. /\ Root("same") \in Seq(LegalLooks) /\ Agree \in Seq(LegalLooks)
      /\ ReadPair \in Seq(LegalLooks) /\ JointRecheck \in Seq(LegalLooks)
      /\ ScanRetained \in Seq(LegalLooks)
    BY RootTakes, ReadPairIsLegal, JointRecheckIsLegal, KeepingIsCalm, ScanRetainedIsLegal, CalmHasNoGrowth
<1>2. Owned("writer") \subseteq W /\ Owned("reader") \cup Owned("writer") \subseteq W
    OBVIOUS
<1>3. Takes(V, Root("same"), V) /\ Takes(V, ReadPair, W)
    BY RootTakes, ReadPairTakes
<1>4. Revalidate = p6 \o JointRecheck
    BY DEF Revalidate
<1>5. Owned("writer") = V
    OBVIOUS
<1> HIDE DEF V, W
<1>6. /\ Takes(W, Root("same"), W) /\ Takes(W, JointRecheck, W)
      /\ Takes(W, ScanRetained, W) /\ Takes(W, Agree, W)
    BY <1>2, RootTakes, ScanRetainedTakes, JointRecheckTakes
<1>7. p2 \in Seq(LegalLooks) /\ Takes(V, p2, W)
    BY <1>1, <1>3, TakesThenTakes, ConcatProperties
<1> HIDE DEF p2
<1>8. p3 \in Seq(LegalLooks) /\ Takes(V, p3, W)
    BY <1>1, <1>6, <1>7, TakesThenTakes, ConcatProperties
<1> HIDE DEF p3
<1>9. p4 \in Seq(LegalLooks) /\ Takes(V, p4, W)
    BY <1>1, <1>6, <1>8, TakesThenTakes, ConcatProperties
<1> HIDE DEF p4
<1>10. p5 \in Seq(LegalLooks) /\ Takes(V, p5, W)
    BY <1>1, <1>6, <1>9, TakesThenTakes, ConcatProperties
<1> HIDE DEF p5
<1>11. p6 \in Seq(LegalLooks) /\ Takes(V, p6, W)
    BY <1>1, <1>6, <1>10, TakesThenTakes, ConcatProperties
<1> HIDE DEF p6
<1>12. Takes(V, p6 \o JointRecheck, W)
    BY <1>1, <1>6, <1>11, TakesThenTakes
<1> QED BY <1>4, <1>5, <1>12, TakesMore

LEMMA AppendToTakes ==
    ASSUME NEW l \in Ledgers
    PROVE  Takes(Owned("writer"), AppendTo(l), {})
<1> DEFINE q == << Stat("write", "writer", l), Stat("grown", "writer", l) >>
           V == Owned("writer")
<1>1. Stat("write", "writer", l) \in Fed(V) /\ Stat("grown", "writer", l) \in Fed(V)
    BY GrowthIsLegal, OtherFacts DEF Fed
<1>2. q \in Seq(Fed(V))
    BY <1>1
<1>3. q \in Seq(LegalLooks) /\ Recheck \in Seq(LegalLooks)
    BY <1>2, SeqMonotonic, RecheckIsLegal, KeepingIsCalm, CalmHasNoGrowth DEF Fed
<1>4. AppendTo(l) = Recheck \o q
    BY DEF AppendTo
<1> HIDE DEF q
<1>5. Takes(V, q, V)
    BY <1>2, TakesNothing DEF Fed
<1>6. Takes(V, Recheck, V)
    BY RecheckTakes
<1>7. Takes(V, Recheck \o q, V)
    BY <1>3, <1>5, <1>6, TakesThenTakes
<1> QED BY <1>4, <1>7, TakesMore

(* Every operation finds what its looks need; a session leaves its writer with *)
(* all that the later operations need.                                         *)
LEMMA ScriptsTake ==
    ASSUME NEW name \in DOMAIN Scripts
    PROVE  Takes(IF name \in {"verify", "session"} THEN {} ELSE Owned("writer"),
                 Scripts[name],
                 IF name = "session" THEN Owned("writer") ELSE {})
<1>1. CASE name = "verify"
    BY <1>1, ReadPairTakes, TakesMore DEF Scripts
<1>2. CASE name = "session"
    BY <1>2, MakeSessionTakes DEF Scripts
<1>3. CASE name = "scan"
    BY <1>3, ScanRetainedTakes, TakesMore DEF Scripts
<1>4. CASE name = "revalidate"
    BY <1>4, RevalidateTakes DEF Scripts
<1>5. CASE name = "append_event"
    BY <1>5, AppendToTakes DEF Scripts, Ledgers
<1>6. CASE name = "append_raw"
    BY <1>6, AppendToTakes DEF Scripts, Ledgers
<1> QED BY <1>1, <1>2, <1>3, <1>4, <1>5, <1>6 DEF Scripts

-----------------------------------------------------------------------------
(* Every operation that reads passes over both files together, never binds its *)
(* side anew from then on, and looks at each name and descriptor once more.    *)

Settles(look, s) ==
    \/ look.see \in {"path", "fd"} /\ look.side = s
    \/ look.see \in {"root", "agree"} /\ s = "writer"
Keeps(q, s) == \A j \in 1 .. Len(q) : ~Rebinds(q[j], s)
ComparesAt(q, k, s) ==
    /\ q[k] = Look("rows", s, Ledgers, "same")
    /\ \A j \in k .. Len(q) : ~Rebinds(q[j], s)
    /\ \A see \in {"fd", "path"} : \A l \in Ledgers :
          \E j \in k + 1 .. Len(q) : q[j] = Stat(see, s, l)
Compares(q, s) ==
    /\ q # <<>> /\ Settles(q[Len(q)], s)
    /\ \E k \in 1 .. Len(q) : ComparesAt(q, k, s)

LEMMA PassesCompare ==
    ASSUME NEW s \in Sides, NEW bind \in {"same", "new"}
    PROVE  Compares(ThreePasses(s, bind), s)
<1> DEFINE p == << Look("rows", s, {"events"}, bind), Look("rows", s, {"raw"}, bind),
                   Look("rows", s, Ledgers, "same") >>
           q == BothStats(s)
           r == p \o q
<1>1. p \in Seq(CalmLooks) /\ q \in Seq(CalmLooks)
    BY RowsAreLegal, BothStatsAreLegal DEF Ledgers
<1>2. Len(p) = 3 /\ p[3] = Look("rows", s, Ledgers, "same")
    OBVIOUS
<1>3. /\ Len(q) = 4 /\ q[1] = Stat("fd", s, "events") /\ q[2] = Stat("fd", s, "raw")
      /\ q[3] = Stat("path", s, "events") /\ q[4] = Stat("path", s, "raw")
    BY DEF BothStats
<1>4. ThreePasses(s, bind) = r
    BY DEF ThreePasses
<1> HIDE DEF p, q, r
<1>5. /\ Len(r) = Len(p) + Len(q)
      /\ \A i \in 1 .. Len(p) + Len(q) : r[i] = IF i <= Len(p) THEN p[i] ELSE q[i - Len(p)]
    BY <1>1, ConcatProperties DEF r
<1>6. /\ Len(r) = 7 /\ r[3] = Look("rows", s, Ledgers, "same")
      /\ r[4] = Stat("fd", s, "events") /\ r[5] = Stat("fd", s, "raw")
      /\ r[6] = Stat("path", s, "events") /\ r[7] = Stat("path", s, "raw")
    BY <1>2, <1>3, <1>5
<1>7. Settles(r[7], s)
    BY <1>6 DEF Settles, Stat, Look
<1>8. \A j \in 3 .. 7 : ~Rebinds(r[j], s)
    BY <1>6 DEF Rebinds, Stat, Look
<1>9. \A see \in {"fd", "path"} : \A l \in Ledgers : \E j \in 3 + 1 .. 7 : r[j] = Stat(see, s, l)
    BY <1>6 DEF Ledgers
<1>10. ComparesAt(r, 3, s)
    BY <1>6, <1>8, <1>9 DEF ComparesAt
<1>11. r # <<>>
    BY <1>6
<1> QED BY <1>4, <1>6, <1>7, <1>10, <1>11 DEF Compares

LEMMA ComparesLater ==
    ASSUME NEW s \in Sides, NEW p \in Seq(CalmLooks), NEW q \in Seq(CalmLooks), Compares(q, s)
    PROVE  Compares(p \o q, s)
<1> DEFINE r == p \o q
<1>1. /\ Len(r) = Len(p) + Len(q) /\ Len(p) \in Nat /\ Len(q) \in Nat
      /\ \A i \in 1 .. Len(p) + Len(q) : r[i] = IF i <= Len(p) THEN p[i] ELSE q[i - Len(p)]
    BY ConcatProperties, LenProperties
<1> HIDE DEF r
<1>2. ASSUME NEW j \in 1 .. Len(q) PROVE r[Len(p) + j] = q[j] /\ Len(p) + j \in 1 .. Len(r)
    BY <1>1
<1>3. PICK k \in 1 .. Len(q) : ComparesAt(q, k, s)
    BY DEF Compares
<1>4. Len(q) \in 1 .. Len(q) /\ Len(r) = Len(p) + Len(q)
    BY <1>1, <1>3
<1>5. Settles(r[Len(r)], s)
    BY <1>2, <1>4 DEF Compares
<1>6. r[Len(p) + k] = Look("rows", s, Ledgers, "same") /\ Len(p) + k \in 1 .. Len(r)
    BY <1>2, <1>3 DEF ComparesAt
<1>7. ASSUME NEW j \in Len(p) + k .. Len(r) PROVE ~Rebinds(r[j], s)
    <2>1. j - Len(p) \in k .. Len(q) /\ j - Len(p) \in 1 .. Len(q) /\ Len(p) + (j - Len(p)) = j
        BY <1>1, <1>3
    <2>2. ~Rebinds(q[j - Len(p)], s)
        BY <1>3, <2>1 DEF ComparesAt
    <2>3. r[Len(p) + (j - Len(p))] = q[j - Len(p)]
        BY <1>2, <2>1
    <2> QED BY <2>1, <2>2, <2>3
<1>8. ASSUME NEW see \in {"fd", "path"}, NEW l \in Ledgers
      PROVE  \E j \in (Len(p) + k) + 1 .. Len(r) : r[j] = Stat(see, s, l)
    <2>1. PICK j \in k + 1 .. Len(q) : q[j] = Stat(see, s, l)
        BY <1>3 DEF ComparesAt
    <2>2. j \in 1 .. Len(q) /\ Len(p) + j \in (Len(p) + k) + 1 .. Len(r)
        BY <1>1, <1>3, <2>1
    <2> QED BY <1>2, <2>1, <2>2
<1>9. ComparesAt(r, Len(p) + k, s)
    BY <1>6, <1>7, <1>8 DEF ComparesAt
<1>10. r # <<>>
    BY <1>6
<1> QED BY <1>5, <1>6, <1>9, <1>10 DEF Compares, r

LEMMA ComparesStill ==
    ASSUME NEW s \in Sides, NEW q \in Seq(CalmLooks), NEW r \in Seq(KeepingLooks(s)),
           Compares(q, s), r # <<>>, Settles(r[Len(r)], s)
    PROVE  Compares(q \o r, s)
<1> DEFINE t == q \o r
<1>1. r \in Seq(CalmLooks) /\ Len(r) \in Nat \ {0}
    BY KeepingIsCalm, EmptySeq
<1>2. /\ Len(t) = Len(q) + Len(r) /\ Len(q) \in Nat
      /\ \A i \in 1 .. Len(q) + Len(r) : t[i] = IF i <= Len(q) THEN q[i] ELSE r[i - Len(q)]
    BY <1>1, ConcatProperties, LenProperties
<1>3. \A j \in 1 .. Len(r) : ~Rebinds(r[j], s)
    BY ElementOfSeq DEF KeepingLooks
<1> HIDE DEF t
<1>4. PICK k \in 1 .. Len(q) : ComparesAt(q, k, s)
    BY DEF Compares
<1>5. t[Len(t)] = r[Len(r)]
    BY <1>1, <1>2
<1>6. t[k] = Look("rows", s, Ledgers, "same") /\ k \in 1 .. Len(t)
    BY <1>1, <1>2, <1>4 DEF ComparesAt
<1>7. ASSUME NEW j \in k .. Len(t) PROVE ~Rebinds(t[j], s)
    <2>1. CASE j <= Len(q)
        BY <1>2, <1>4, <2>1 DEF ComparesAt
    <2>2. CASE ~(j <= Len(q))
        <3>1. j - Len(q) \in 1 .. Len(r) /\ t[j] = r[j - Len(q)]
            BY <1>1, <1>2, <1>4, <2>2
        <3> QED BY <1>3, <3>1
    <2> QED BY <2>1, <2>2
<1>8. ASSUME NEW see \in {"fd", "path"}, NEW l \in Ledgers
      PROVE  \E j \in k + 1 .. Len(t) : t[j] = Stat(see, s, l)
    <2>1. PICK j \in k + 1 .. Len(q) : q[j] = Stat(see, s, l)
        BY <1>4 DEF ComparesAt
    <2>2. j \in k + 1 .. Len(t) /\ t[j] = q[j]
        BY <1>1, <1>2, <1>4, <2>1
    <2> QED BY <2>1, <2>2
<1>9. ComparesAt(t, k, s)
    BY <1>6, <1>7, <1>8 DEF ComparesAt
<1>10. t # <<>>
    BY <1>6
<1> QED BY <1>5, <1>6, <1>9, <1>10 DEF Compares, t

LEMMA TailCompares ==
    ASSUME NEW s \in Sides, NEW q \in Seq(LegalLooks), NEW k \in 1 .. Len(q), k # 1, ComparesAt(q, k, s)
    PROVE  k - 1 \in 1 .. Len(Tail(q)) /\ ComparesAt(Tail(q), k - 1, s)
<1> DEFINE t == Tail(q)
<1>0. q # <<>>
    OBVIOUS
<1>1. /\ Len(t) = Len(q) - 1 /\ Len(q) \in Nat
      /\ \A i \in 1 .. Len(t) : t[i] = q[i + 1]
    BY <1>0, HeadTailProperties, LenProperties
<1> HIDE DEF t
<1>2. ASSUME NEW j \in 2 .. Len(q) PROVE t[j - 1] = q[j] /\ j - 1 \in 1 .. Len(t)
    <2>1. j - 1 \in 1 .. Len(t) /\ j - 1 + 1 = j
        BY <1>1
    <2>2. t[j - 1] = q[j - 1 + 1]
        BY <1>1, <2>1
    <2> QED BY <2>1, <2>2
<1>3. k \in 2 .. Len(q)
    BY <1>1
<1>4. t[k - 1] = Look("rows", s, Ledgers, "same") /\ k - 1 \in 1 .. Len(t)
    BY <1>2, <1>3 DEF ComparesAt
<1>5. ASSUME NEW j \in k - 1 .. Len(t) PROVE ~Rebinds(t[j], s)
    <2>1. j + 1 \in k .. Len(q) /\ j \in 1 .. Len(t)
        BY <1>1, <1>3
    <2> QED BY <1>1, <2>1 DEF ComparesAt
<1>6. ASSUME NEW see \in {"fd", "path"}, NEW l \in Ledgers
      PROVE  \E j \in (k - 1) + 1 .. Len(t) : t[j] = Stat(see, s, l)
    <2>1. PICK j \in k + 1 .. Len(q) : q[j] = Stat(see, s, l)
        BY DEF ComparesAt
    <2>2. j \in 2 .. Len(q) /\ j - 1 \in (k - 1) + 1 .. Len(t)
        BY <1>1, <1>3
    <2> QED BY <1>2, <2>1, <2>2
<1> QED BY <1>4, <1>5, <1>6 DEF ComparesAt, t

LEMMA ReadPairCompares == Compares(ReadPair, "reader")
<1>1. Opening("reader", "events", "new") \o Opening("reader", "raw", "new") \in Seq(CalmLooks)
    <2>1. Opening("reader", "events", "new") \in Seq(CalmLooks) /\ Opening("reader", "raw", "new") \in Seq(CalmLooks)
        BY OpeningIsLegal DEF Sides, Ledgers
    <2> QED BY <2>1, ConcatProperties
<1>2. ThreePasses("reader", "new") \in Seq(CalmLooks) /\ Compares(ThreePasses("reader", "new"), "reader")
    BY ThreePassesAreLegal, PassesCompare DEF Sides
<1> QED BY <1>1, <1>2, ComparesLater DEF ReadPair, Sides

LEMMA ScanCompares == Compares(ScanRetained, "writer")
<1>1. << Stat("fd", "writer", "events"), Stat("fd", "writer", "raw") >> \in Seq(CalmLooks)
    BY StatIsLegal DEF Sides, Ledgers
<1>2. ThreePasses("writer", "same") \in Seq(CalmLooks) /\ Compares(ThreePasses("writer", "same"), "writer")
    BY ThreePassesAreLegal, PassesCompare DEF Sides
<1> QED BY <1>1, <1>2, ComparesLater DEF ScanRetained, Sides

LEMMA RootSettles ==
    /\ \A bind : Root(bind) # <<>> /\ Settles(Root(bind)[Len(Root(bind))], "writer")
    /\ Agree # <<>> /\ Settles(Agree[Len(Agree)], "writer")
BY DEF Root, Agree, Settles, Look

LEMMA MakeSessionCompares == Compares(MakeSession, "writer")
<1> DEFINE p2 == Root("new") \o ReadPair
           p3 == p2 \o Root("same")
           p4 == p3 \o OpenTransaction
           p5 == p4 \o Root("same")
           p6 == p5 \o ScanRetained
           p7 == p6 \o Agree
<1>1. /\ \A bind \in {"same", "new"} : Root(bind) \in Seq(CalmLooks)
      /\ Agree \in Seq(CalmLooks)
      /\ Root("same") \in Seq(KeepingLooks("writer")) /\ Agree \in Seq(KeepingLooks("writer"))
    BY RootIsLegal, KeepingIsCalm DEF Sides
<1>2. MakeSession = p7 \o Root("same")
    BY DEF MakeSession
<1>3. p2 \in Seq(CalmLooks)
    BY <1>1, ReadPairIsLegal, ConcatProperties
<1> HIDE DEF p2
<1>4. p3 \in Seq(CalmLooks)
    BY <1>1, <1>3, ConcatProperties
<1> HIDE DEF p3
<1>5. p4 \in Seq(CalmLooks)
    BY <1>4, OpenTransactionIsLegal, ConcatProperties
<1> HIDE DEF p4
<1>6. p5 \in Seq(CalmLooks)
    BY <1>1, <1>5, ConcatProperties
<1> HIDE DEF p5
<1>7. p6 \in Seq(CalmLooks) /\ Compares(p6, "writer")
    BY <1>6, ScanRetainedIsLegal, ScanCompares, ComparesLater, ConcatProperties DEF Sides
<1> HIDE DEF p6
<1>8. p7 \in Seq(CalmLooks) /\ Compares(p7, "writer")
    BY <1>1, <1>7, RootSettles, ComparesStill, ConcatProperties DEF Sides
<1> HIDE DEF p7
<1>9. Compares(p7 \o Root("same"), "writer")
    BY <1>1, <1>8, RootSettles, ComparesStill DEF Sides
<1> QED BY <1>2, <1>9

LEMMA RecheckSettles ==
    JointRecheck # <<>> /\ Settles(JointRecheck[Len(JointRecheck)], "writer")
<1>1. Len(Recheck) = 4 /\ Recheck[4] = Stat("path", "writer", "raw")
    BY DEF Recheck
<1>2. Rehash \in Seq(CalmLooks) /\ Recheck \in Seq(CalmLooks)
    <2>1. RehashOne("events") \in Seq(CalmLooks) /\ RehashOne("raw") \in Seq(CalmLooks)
        BY RehashOneIsLegal, KeepingIsCalm DEF Ledgers
    <2>2. RehashOne("events") \o RehashOne("raw") \in Seq(CalmLooks)
        BY <2>1, ConcatProperties
    <2>3. Recheck \in Seq(CalmLooks)
        BY RecheckIsLegal, KeepingIsCalm
    <2> QED BY <2>2, <2>3, ConcatProperties DEF Rehash
<1>3. /\ Len(Rehash \o Recheck) = Len(Rehash) + Len(Recheck) /\ Len(Rehash) \in Nat
      /\ \A i \in 1 .. Len(Rehash) + Len(Recheck) :
            (Rehash \o Recheck)[i] = IF i <= Len(Rehash) THEN Rehash[i] ELSE Recheck[i - Len(Rehash)]
    BY <1>2, ConcatProperties, LenProperties
<1> DEFINE t == Rehash \o Recheck
<1>4. JointRecheck = t
    BY DEF JointRecheck
<1> HIDE DEF t
<1>5. Len(t) = Len(Rehash) + 4 /\ t[Len(t)] = Recheck[4]
    <2>1. Len(t) = Len(Rehash) + 4 /\ Len(Rehash) \in Nat
        BY <1>1, <1>3 DEF t
    <2>2. t[Len(t)] = Recheck[Len(t) - Len(Rehash)]
        BY <1>1, <1>3, <2>1 DEF t
    <2> QED BY <2>1, <2>2
<1>6. Settles(t[Len(t)], "writer")
    BY <1>1, <1>5 DEF Settles, Stat, Look
<1>7. t # <<>>
    BY <1>3, <1>5
<1> QED BY <1>4, <1>6, <1>7

LEMMA RevalidateCompares == Compares(Revalidate, "writer")
<1> DEFINE p2 == Root("same") \o ReadPair
           p3 == p2 \o Root("same")
           p4 == p3 \o ScanRetained
           p5 == p4 \o Agree
           p6 == p5 \o Root("same")
<1>1. /\ Root("same") \in Seq(CalmLooks) /\ Agree \in Seq(CalmLooks)
      /\ Root("same") \in Seq(KeepingLooks("writer")) /\ Agree \in Seq(KeepingLooks("writer"))
    BY RootIsLegal, KeepingIsCalm DEF Sides
<1>2. Revalidate = p6 \o JointRecheck
    BY DEF Revalidate
<1>3. p2 \in Seq(CalmLooks)
    BY <1>1, ReadPairIsLegal, ConcatProperties
<1> HIDE DEF p2
<1>4. p3 \in Seq(CalmLooks)
    BY <1>1, <1>3, ConcatProperties
<1> HIDE DEF p3
<1>5. p4 \in Seq(CalmLooks) /\ Compares(p4, "writer")
    BY <1>4, ScanRetainedIsLegal, ScanCompares, ComparesLater, ConcatProperties DEF Sides
<1> HIDE DEF p4
<1>6. p5 \in Seq(CalmLooks) /\ Compares(p5, "writer")
    BY <1>1, <1>5, RootSettles, ComparesStill, ConcatProperties DEF Sides
<1> HIDE DEF p5
<1>7. p6 \in Seq(CalmLooks) /\ Compares(p6, "writer")
    BY <1>1, <1>6, RootSettles, ComparesStill, ConcatProperties DEF Sides
<1> HIDE DEF p6
<1>8. Compares(p6 \o JointRecheck, "writer")
    BY <1>7, JointRecheckIsLegal, RecheckSettles, ComparesStill DEF Sides
<1> QED BY <1>2, <1>8

LEMMA ScriptsCompare ==
    ASSUME NEW name \in Reading
    PROVE  Compares(Scripts[name], IF name = "verify" THEN "reader" ELSE "writer")
<1>1. CASE name = "verify"
    BY <1>1, ReadPairCompares DEF Scripts
<1>2. CASE name = "session"
    BY <1>2, MakeSessionCompares DEF Scripts
<1>3. CASE name = "scan"
    BY <1>3, ScanCompares DEF Scripts
<1>4. CASE name = "revalidate"
    BY <1>4, RevalidateCompares DEF Scripts
<1> QED BY <1>1, <1>2, <1>3, <1>4 DEF Reading

-----------------------------------------------------------------------------
(* The invariant *)

Below(f) == { n \in Nat : n < f }
Files(f) == [rows : Seq(Below(f)), stamp : Nat]
Identities == [inode : Nat, size : Nat, stamp : Nat]

ControlInv ==
    /\ operation \in DOMAIN Scripts \cup {"none"}
    /\ todo \in Seq(LegalLooks) /\ GrowthLast(todo)
    /\ mode \in {"none", "open", "poisoned"}
    /\ todo # <<>> => /\ operation \in DOMAIN Scripts /\ accepted = {}
                      /\ mode = IF operation \in {"verify", "session"} THEN "none" ELSE "open"
    /\ todo # <<>> /\ operation \in Reading => todo \in Seq(CalmLooks)

(* Rows are numbered as they are written, so a changed file never gets an old  *)
(* row again, nor does a name lead to an old inode again.                      *)
DataInv ==
    /\ fresh \in Nat /\ now \in Nat /\ root \in Nat /\ rootBase \in Nat /\ edits \in Nat
    /\ inodes \in Seq(Files(fresh))
    /\ path \in [Ledgers -> 1 .. Len(inodes)] /\ path["events"] # path["raw"]
    /\ fd \in [Sides -> [Ledgers -> 0 .. Len(inodes)]]
    /\ base \in [Sides -> [Ledgers -> Identities]]
    /\ \A s \in Sides : \A l \in Ledgers : base[s][l].inode <= Len(inodes)
    /\ read \in [Sides -> [Ledgers -> Seq(Below(fresh))]]
    /\ part \in [Sides -> [Ledgers -> Seq(Below(fresh))]]

(* Only the look that reads has read anything.                                 *)
PartInv ==
    todo # <<>> =>
        \A s \in Sides : \A l \in Ledgers :
            part[s][l] = <<>>
                \/ (Head(todo).see \in {"rows", "grown"} /\ Head(todo).side = s /\ l \in Head(todo).of)

HeldInv == todo # <<>> => Pair(inodes, path) \in held

Known(what, s, l) ==
    /\ what = "fd" => fd[s][l] # 0 /\ (edits = 0 => fd[s][l] = path[l])
    /\ what = "base" /\ edits = 0 => base[s][l] = Identity(path[l])
    /\ what = "read" /\ edits = 0 => read[s][l] = inodes[path[l]].rows
Facts == { f \in AllFacts : Known(f[1], f[2], f[3]) }

(* What the look at a written row will give back.                              *)
Pending == IF todo # <<>> /\ Head(todo).see = "grown" THEN Gives(Head(todo)) ELSE {}

FactsInv ==
    /\ todo # <<>> => Takes(Facts, todo, IF operation = "session" THEN Owned("writer") ELSE {})
    /\ mode = "open" => Owned("writer") \subseteq Facts \cup Pending

Growing(l) ==
    LET rows == inodes[path[l]].rows IN
    /\ base["writer"][l].inode = path[l] /\ base["writer"][l].size + 1 = Len(rows)
    /\ rows = read["writer"][l] \o part["writer"][l]
QuietInv ==
    edits = 0 =>
        /\ root = 0 /\ rootBase = 0 /\ refused # "unstable"
        /\ todo # <<>> /\ Head(todo).see = "rows" =>
              \A l \in Head(todo).of :
                 LET rows == inodes[path[l]].rows
                     taken == part[Head(todo).side][l]
                 IN  Len(taken) <= Len(rows) /\ \A n \in 1 .. Len(taken) : taken[n] = rows[n]
        /\ todo # <<>> /\ Head(todo).see = "grown" => \A l \in Head(todo).of : Growing(l)

(* The side whose reading an operation accepts; that both files began with it  *)
(* at one moment; and what else makes the operation refuse: a name or a        *)
(* descriptor that leads elsewhere and is still to be looked at, or a row that *)
(* the pass over both files cannot read again.                                 *)
Reader == IF operation = "verify" THEN "reader" ELSE "writer"
Witnessed == \E whole \in held : \A l \in Ledgers : IsPrefix(read[Reader][l], whole[l])
Strays(see, l) ==
    IF see = "path" THEN path[l] # base[Reader][l].inode ELSE fd[Reader][l] # base[Reader][l].inode
Gone(l, n) ==
    LET rows == inodes[fd[Reader][l]].rows
        row == read[Reader][l][n]
    IN  /\ n > Len(rows) \/ rows[n] # row
        /\ n > Len(part[Reader][l]) \/ part[Reader][l][n] # row
Possible ==
    \/ Witnessed
    \/ \E see \in {"fd", "path"}, l \in Ledgers : Strays(see, l)
    \/ \E l \in Ledgers : \E n \in 1 .. Len(read[Reader][l]) : Gone(l, n)
Caught ==
    \E see \in {"fd", "path"}, l \in Ledgers :
        Strays(see, l) /\ \E j \in 1 .. Len(todo) : todo[j] = Stat(see, Reader, l)

CompareInv ==
    todo # <<>> /\ operation \in Reading =>
        /\ Settles(todo[Len(todo)], Reader)
        /\ \/ \E k \in 1 .. Len(todo) : ComparesAt(todo, k, Reader) /\ (k = 1 => Possible)
           \/ Keeps(todo, Reader) /\ (Witnessed \/ Caught)

IInv ==
    /\ ControlInv /\ DataInv /\ PartInv /\ HeldInv /\ FactsInv /\ QuietInv
    /\ CompareInv /\ AcceptedPairExisted

-----------------------------------------------------------------------------
(* Control *)

LEMMA NoLookIsLegal == <<>> \in Seq(LegalLooks) /\ GrowthLast(<<>>)
BY DEF GrowthLast

LEMMA AdvanceControl ==
    ASSUME ControlInv, todo # <<>>, NEW rows, Advance(rows), operation' = operation
    PROVE  ControlInv'
<1>1. todo' = Tail(todo) /\ todo' \in Seq(LegalLooks) /\ GrowthLast(todo')
    BY TailOfGrowth, HeadTailProperties DEF Advance, ControlInv
<1>2. mode' \in {"none", "open", "poisoned"}
    BY DEF Advance, ControlInv
<1>3. todo' # <<>> => mode' = mode /\ accepted' = accepted
    BY <1>1 DEF Advance
<1>4. operation \in Reading => todo' \in Seq(CalmLooks)
    BY <1>1, HeadTailProperties DEF ControlInv
<1> QED BY <1>1, <1>2, <1>3, <1>4 DEF ControlInv

LEMMA RefuseControl ==
    ASSUME ControlInv, NEW s, NEW why, Refuse(s, why), operation' = operation
    PROVE  ControlInv'
<1>1. todo' = <<>> /\ mode' \in {"none", "open", "poisoned"}
    BY DEF Refuse, ControlInv
<1> QED BY <1>1, NoLookIsLegal DEF ControlInv

LEMMA BeginControl ==
    ASSUME NEW name \in DOMAIN Scripts, ControlInv, Begin(name)
    PROVE  ControlInv'
<1>1. /\ operation' = name /\ todo' = Scripts[name] /\ accepted' = {} /\ mode' = mode
      /\ mode = IF name \in {"verify", "session"} THEN "none" ELSE "open"
    BY DEF Begin
<1>2. mode' \in {"none", "open", "poisoned"}
    BY <1>1 DEF ControlInv
<1> QED BY <1>1, <1>2, ScriptsAreLegal DEF ControlInv

LEMMA StillControl ==
    ASSUME ControlInv, UNCHANGED <<operation, todo, mode, accepted>>
    PROVE  ControlInv'
BY DEF ControlInv

(* Every look moves on, is contradicted, or reads one more row.                *)
LEMMA StepControl ==
    ASSUME ControlInv, Step
    PROVE  ControlInv'
<1> DEFINE look == Head(todo)
<1>0. todo # <<>>
    BY DEF Step
<1>1. CASE SeeIdentity(look)
    BY <1>0, <1>1, AdvanceControl, RefuseControl DEF SeeIdentity, Same
<1>2. CASE OpenFile(look)
    BY <1>0, <1>2, AdvanceControl DEF OpenFile, Same
<1>3. CASE ReadRow(look)
    BY <1>0, <1>3, StillControl, RefuseControl DEF ReadRow, Same, outcome
<1>4. CASE FinishPass(look)
    BY <1>0, <1>4, AdvanceControl, RefuseControl DEF FinishPass, Same
<1>5. CASE SeeRoot(look)
    BY <1>0, <1>5, AdvanceControl, RefuseControl DEF SeeRoot, Same
<1>6. CASE SeeAgreement(look)
    BY <1>0, <1>6, AdvanceControl, RefuseControl DEF SeeAgreement, Same
<1>7. CASE SeeGrown(look)
    BY <1>0, <1>7, AdvanceControl, RefuseControl DEF SeeGrown, Same
<1>8. ASSUME NEW lands \in BOOLEAN, NEW succeeds \in BOOLEAN, WriteRow(look, lands, succeeds)
      PROVE  ControlInv'
    BY <1>0, <1>8, AdvanceControl, RefuseControl DEF WriteRow
<1> QED BY <1>1, <1>2, <1>3, <1>4, <1>5, <1>6, <1>7, <1>8 DEF Step

-----------------------------------------------------------------------------
(* Data *)

LEMMA HeadIsLegal ==
    ASSUME ControlInv, todo # <<>>
    PROVE  /\ Head(todo) \in LegalLooks /\ Head(todo).side \in Sides /\ Head(todo).of \in SUBSET Ledgers
           /\ operation \in Reading => Head(todo) \in CalmLooks
<1>1. Head(todo) \in LegalLooks
    BY HeadTailProperties DEF ControlInv
<1>2. operation \in Reading => Head(todo) \in CalmLooks
    BY HeadTailProperties DEF ControlInv
<1> QED BY <1>1, <1>2 DEF LegalLooks, AnyLook

LEMMA OneLedger ==
    ASSUME NEW look \in LegalLooks, look.see \in {"path", "open", "fd", "write", "grown"}
    PROVE  \E l \in Ledgers : look.of = {l} /\ (CHOOSE one \in look.of : TRUE) = l
<1>1. PICK l \in Ledgers : look.of = {l}
    BY DEF LegalLooks
<1>2. (CHOOSE one \in {l} : TRUE) = l
    OBVIOUS
<1> QED BY <1>1, <1>2

LEMMA HeadKnows ==
    ASSUME ControlInv, FactsInv, todo # <<>>,
           NEW what \in {"fd", "base", "read"}, NEW s \in Sides, NEW l \in Ledgers,
           NeedsFact(Head(todo), what, s, l)
    PROVE  Known(what, s, l)
<1> DEFINE f == <<what, s, l>>
<1>1. Needs(Head(todo)) \subseteq Facts
    BY TailTakes DEF ControlInv, FactsInv
<1>2. f \in AllFacts /\ f[1] = what /\ f[2] = s /\ f[3] = l
    BY DEF AllFacts
<1>3. f \in Needs(Head(todo))
    BY <1>2 DEF Needs
<1> QED BY <1>1, <1>2, <1>3 DEF Facts

LEMMA IdentityIsTyped ==
    ASSUME DataInv, NEW i \in 1 .. Len(inodes)
    PROVE  /\ Identity(i) \in Identities
           /\ Identity(i).inode = i /\ Identity(i).size = Len(inodes[i].rows)
           /\ inodes[i] \in Files(fresh) /\ inodes[i].rows \in Seq(Below(fresh)) /\ Len(inodes[i].rows) \in Nat
<1>1. inodes[i] \in Files(fresh)
    BY ElementOfSeq DEF DataInv
<1>2. inodes[i].rows \in Seq(Below(fresh)) /\ inodes[i].stamp \in Nat
    BY <1>1 DEF Files
<1>3. Len(inodes[i].rows) \in Nat
    BY <1>2, LenProperties
<1>4. i \in Nat
    BY LenProperties DEF DataInv
<1> QED BY <1>1, <1>2, <1>3, <1>4 DEF Identity, Identities

LEMMA LaterRows ==
    ASSUME NEW f \in Nat, NEW g \in Nat, f <= g
    PROVE  Seq(Below(f)) \subseteq Seq(Below(g)) /\ Seq(Files(f)) \subseteq Seq(Files(g))
<1>1. Below(f) \subseteq Below(g)
    BY DEF Below
<1>2. Seq(Below(f)) \subseteq Seq(Below(g))
    BY <1>1, SeqMonotonic
<1>3. Files(f) \subseteq Files(g)
    BY <1>2 DEF Files
<1> QED BY <1>2, <1>3, SeqMonotonic

LEMMA FdIsOpen ==
    ASSUME ControlInv, DataInv, FactsInv, todo # <<>>, NEW l \in Head(todo).of,
           Head(todo).see \in {"fd", "rows", "write", "grown"}
    PROVE  fd[Head(todo).side][l] \in 1 .. Len(inodes) /\ Known("fd", Head(todo).side, l)
<1>1. Head(todo).side \in Sides /\ l \in Ledgers
    BY HeadIsLegal
<1>2. NeedsFact(Head(todo), "fd", Head(todo).side, l)
    BY DEF NeedsFact
<1>3. Known("fd", Head(todo).side, l)
    BY <1>1, <1>2, HeadKnows
<1>4. fd[Head(todo).side][l] \in 0 .. Len(inodes) /\ Len(inodes) \in Nat
    BY <1>1, LenProperties DEF DataInv
<1> QED BY <1>3, <1>4 DEF Known

LEMMA NestedExcept ==
    ASSUME NEW T, NEW f \in [Sides -> [Ledgers -> T]], NEW s \in Sides, NEW l \in Ledgers, NEW v \in T,
           NEW g, g = [f EXCEPT ![s][l] = v]
    PROVE  /\ g \in [Sides -> [Ledgers -> T]]
           /\ g[s][l] = v
           /\ \A s2 \in Sides : \A l2 \in Ledgers : s2 # s \/ l2 # l => g[s2][l2] = f[s2][l2]
<1>1. f[s] \in [Ledgers -> T]
    OBVIOUS
<1>2. [f[s] EXCEPT ![l] = v] \in [Ledgers -> T]
    BY <1>1
<1>3. g = [f EXCEPT ![s] = [f[s] EXCEPT ![l] = v]]
    OBVIOUS
<1>4. g \in [Sides -> [Ledgers -> T]] /\ g[s] = [f[s] EXCEPT ![l] = v]
    BY <1>2, <1>3
<1>5. g[s][l] = v /\ \A l2 \in Ledgers : l2 # l => g[s][l2] = f[s][l2]
    BY <1>1, <1>4
<1>6. \A s2 \in Sides : s2 # s => g[s2] = f[s2]
    BY <1>3
<1> QED BY <1>4, <1>5, <1>6

LEMMA SeeIdentityData ==
    ASSUME ControlInv, DataInv, FactsInv, todo # <<>>, SeeIdentity(Head(todo))
    PROVE  DataInv'
<1> DEFINE look == Head(todo)
           s == look.side
<1>1. look \in LegalLooks /\ s \in Sides /\ look.see \in {"path", "fd"}
    BY HeadIsLegal DEF SeeIdentity
<1>2. PICK l \in Ledgers : look.of = {l} /\ (CHOOSE one \in look.of : TRUE) = l
    BY <1>1, OneLedger
<1> DEFINE i == IF look.see = "path" THEN path[l] ELSE fd[s][l]
<1>3. i \in 1 .. Len(inodes)
    <2>1. path[l] \in 1 .. Len(inodes)
        BY DEF DataInv
    <2>2. CASE look.see = "fd"
        BY <1>2, <2>2, FdIsOpen
    <2> QED BY <1>1, <2>1, <2>2
<1>4. Identity(i) \in Identities /\ Identity(i).inode = i
    BY <1>3, IdentityIsTyped
<1>5. base' = [base EXCEPT ![s][l] = Identity(i)] \/ base' = base
    BY <1>2 DEF SeeIdentity, Refuse, binding
<1>6. UNCHANGED <<inodes, path, root, now, fresh, fd, read, part, rootBase, edits>>
    BY DEF SeeIdentity, Refuse, binding, Same, world
<1> DEFINE id == Identity(i)
           T == Identities
<1> HIDE DEF look, s, i
<1>7. base \in [Sides -> [Ledgers -> T]] /\ id \in T /\ id.inode <= Len(inodes)
    BY <1>3, <1>4, LenProperties DEF DataInv
<1>8. base' = [base EXCEPT ![s][l] = id] \/ base' = base
    BY <1>5
<1> HIDE DEF id, T
<1>9. CASE base' = base
    BY <1>6, <1>9 DEF DataInv
<1>10. CASE base' = [base EXCEPT ![s][l] = id]
    <2>1. /\ base' \in [Sides -> [Ledgers -> T]] /\ base'[s][l] = id
          /\ \A s2 \in Sides : \A l2 \in Ledgers : s2 # s \/ l2 # l => base'[s2][l2] = base[s2][l2]
        BY <1>1, <1>7, <1>10, NestedExcept
    <2>2. \A s2 \in Sides : \A l2 \in Ledgers : base'[s2][l2].inode <= Len(inodes)
        BY <1>7, <2>1 DEF DataInv
    <2> QED BY <1>6, <2>1, <2>2 DEF DataInv, T
<1> QED BY <1>8, <1>9, <1>10

LEMMA OpenFileData ==
    ASSUME ControlInv, DataInv, todo # <<>>, OpenFile(Head(todo))
    PROVE  DataInv'
<1>1. Head(todo).side \in Sides /\ Head(todo).of \subseteq Ledgers
    BY HeadIsLegal
<1>2. PICK l \in Head(todo).of : fd' = [fd EXCEPT ![Head(todo).side][l] = path[l]]
    BY DEF OpenFile
<1>3. path[l] \in 0 .. Len(inodes)
    BY <1>1, LenProperties DEF DataInv
<1>4. fd' \in [Sides -> [Ledgers -> 0 .. Len(inodes)]]
    BY <1>1, <1>2, <1>3 DEF DataInv
<1>5. UNCHANGED <<inodes, path, root, now, fresh, base, read, part, rootBase, edits>>
    BY DEF OpenFile, Same, world
<1> QED BY <1>4, <1>5 DEF DataInv

LEMMA ReadRowData ==
    ASSUME ControlInv, DataInv, FactsInv, todo # <<>>, ReadRow(Head(todo))
    PROVE  DataInv'
<1> DEFINE s == Head(todo).side
<1>1. s \in Sides /\ Head(todo).of \subseteq Ledgers /\ Head(todo).see = "rows"
    BY HeadIsLegal DEF ReadRow
<1>2. PICK l \in Head(todo).of :
          \/ Refuse(s, "unstable")
          \/ /\ Len(part[s][l]) + 1 <= Len(inodes[fd[s][l]].rows)
             /\ part' = [part EXCEPT ![s][l] = Append(@, inodes[fd[s][l]].rows[Len(part[s][l]) + 1])]
             /\ UNCHANGED <<todo, fd, base, read, rootBase, outcome>>
    <2>1. PICK l \in Head(todo).of :
              LET n == Len(part[s][l]) + 1
              IN  /\ n <= base[s][l].size
                  /\ IF n > Len(inodes[fd[s][l]].rows)
                        THEN Refuse(s, "unstable")
                        ELSE /\ part' = [part EXCEPT ![s][l] = Append(@, inodes[fd[s][l]].rows[n])]
                             /\ UNCHANGED <<todo, fd, base, read, rootBase, outcome>>
        BY DEF ReadRow
    <2>2. fd[s][l] \in 1 .. Len(inodes)
        BY <1>1, FdIsOpen
    <2> DEFINE taken == part[s][l]
               rows == inodes[fd[s][l]].rows
    <2>3. Len(rows) \in Nat /\ Len(taken) \in Nat
        <3>1. taken \in Seq(Below(fresh))
            BY <1>1 DEF DataInv
        <3> QED BY <2>2, <3>1, IdentityIsTyped, LenProperties
    <2>4. \/ Refuse(s, "unstable")
          \/ /\ ~(Len(taken) + 1 > Len(rows))
             /\ part' = [part EXCEPT ![s][l] = Append(@, rows[Len(taken) + 1])]
             /\ UNCHANGED <<todo, fd, base, read, rootBase, outcome>>
        BY <2>1
    <2>5. ~(Len(taken) + 1 > Len(rows)) => Len(taken) + 1 <= Len(rows)
        <3> HIDE DEF taken, rows
        <3> QED BY <2>3
    <2> QED BY <2>4, <2>5
<1>3. UNCHANGED <<inodes, path, root, now, fresh, fd, base, read, rootBase, edits>>
    BY <1>2 DEF ReadRow, Refuse, binding, Same, world
<1>4. part' \in [Sides -> [Ledgers -> Seq(Below(fresh))]]
    <2>1. CASE Refuse(s, "unstable")
        BY <2>1 DEF Refuse, binding, DataInv
    <2>2. CASE /\ Len(part[s][l]) + 1 <= Len(inodes[fd[s][l]].rows)
               /\ part' = [part EXCEPT ![s][l] = Append(@, inodes[fd[s][l]].rows[Len(part[s][l]) + 1])]
        <3>1. part[s][l] \in Seq(Below(fresh)) /\ Len(part[s][l]) \in Nat
            BY <1>1, LenProperties DEF DataInv
        <3>2. fd[s][l] \in 1 .. Len(inodes)
            BY <1>1, FdIsOpen
        <3>3. inodes[fd[s][l]].rows \in Seq(Below(fresh)) /\ Len(inodes[fd[s][l]].rows) \in Nat
            BY <3>2, IdentityIsTyped
        <3>4. Len(part[s][l]) + 1 \in 1 .. Len(inodes[fd[s][l]].rows)
            <4> DEFINE m == Len(part[s][l])
                       k == Len(inodes[fd[s][l]].rows)
            <4>1. m \in Nat /\ k \in Nat /\ m + 1 <= k
                BY <2>2, <3>1, <3>3
            <4> HIDE DEF m, k
            <4>2. m + 1 \in 1 .. k
                BY <4>1
            <4> QED BY <4>2 DEF m, k
        <3>5. inodes[fd[s][l]].rows[Len(part[s][l]) + 1] \in Below(fresh)
            BY <3>3, <3>4, ElementOfSeq
        <3>6. Append(part[s][l], inodes[fd[s][l]].rows[Len(part[s][l]) + 1]) \in Seq(Below(fresh))
            BY <3>1, <3>5, AppendProperties
        <3> QED BY <1>1, <2>2, <3>6 DEF DataInv
    <2> QED BY <1>2, <2>1, <2>2
<1> QED BY <1>3, <1>4 DEF DataInv

LEMMA FinishPassData ==
    ASSUME ControlInv, DataInv, todo # <<>>, FinishPass(Head(todo))
    PROVE  DataInv'
<1> DEFINE s == Head(todo).side
           new == [l \in Ledgers |-> IF l \in Head(todo).of THEN part[s][l] ELSE read[s][l]]
<1>1. s \in Sides
    BY HeadIsLegal
<1>2. \/ read' = read /\ part' = part
      \/ read' = [read EXCEPT ![s] = new] /\ part' = [part EXCEPT ![s] = Nothing]
    BY <1>1 DEF FinishPass, Refuse, binding, DataInv
<1>3. UNCHANGED <<inodes, path, root, now, fresh, fd, base, rootBase, edits>>
    BY DEF FinishPass, Refuse, binding, Same, world
<1>4. new \in [Ledgers -> Seq(Below(fresh))] /\ Nothing \in [Ledgers -> Seq(Below(fresh))]
    BY <1>1 DEF DataInv, Nothing
<1> HIDE DEF s, new
<1>5. /\ read' \in [Sides -> [Ledgers -> Seq(Below(fresh))]]
      /\ part' \in [Sides -> [Ledgers -> Seq(Below(fresh))]]
    BY <1>1, <1>2, <1>4 DEF DataInv
<1> QED BY <1>3, <1>5 DEF DataInv

LEMMA SeeGrownData ==
    ASSUME ControlInv, DataInv, FactsInv, todo # <<>>, SeeGrown(Head(todo))
    PROVE  DataInv'
<1>1. Head(todo) \in LegalLooks /\ Head(todo).see = "grown" /\ Head(todo).side = "writer"
    BY HeadIsLegal DEF SeeGrown, LegalLooks
<1>2. PICK l \in Head(todo).of :
          \/ Refuse("writer", "unstable")
          \/ /\ base' = [base EXCEPT !["writer"][l] = Identity(fd["writer"][l])]
             /\ read' = [read EXCEPT !["writer"][l] = @ \o part["writer"][l]]
             /\ part' = [part EXCEPT !["writer"] = Nothing]
             /\ UNCHANGED <<fd, rootBase>>
    BY DEF SeeGrown
<1>3. UNCHANGED <<inodes, path, root, now, fresh, fd, rootBase, edits>>
    BY <1>2 DEF SeeGrown, Refuse, binding, Same, world
<1>4. CASE Refuse("writer", "unstable")
    BY <1>3, <1>4 DEF Refuse, binding, DataInv
<1>5. CASE /\ base' = [base EXCEPT !["writer"][l] = Identity(fd["writer"][l])]
           /\ read' = [read EXCEPT !["writer"][l] = @ \o part["writer"][l]]
           /\ part' = [part EXCEPT !["writer"] = Nothing]
    <2>1. l \in Ledgers /\ "writer" \in Sides
        BY HeadIsLegal DEF Sides
    <2>2. fd["writer"][l] \in 1 .. Len(inodes)
        BY <1>1, FdIsOpen
    <2>3. Identity(fd["writer"][l]) \in Identities /\ Identity(fd["writer"][l]).inode <= Len(inodes)
        BY <2>2, IdentityIsTyped, LenProperties DEF DataInv
    <2>4. read["writer"][l] \o part["writer"][l] \in Seq(Below(fresh))
        BY <2>1, ConcatProperties DEF DataInv
    <2>5. Nothing \in [Ledgers -> Seq(Below(fresh))]
        BY DEF Nothing
    <2>6. base' \in [Sides -> [Ledgers -> Identities]]
        BY <1>5, <2>1, <2>3 DEF DataInv
    <2>7. \A s2 \in Sides : \A l2 \in Ledgers : base'[s2][l2].inode <= Len(inodes)
        BY <1>5, <2>1, <2>3 DEF DataInv
    <2>8. read' \in [Sides -> [Ledgers -> Seq(Below(fresh))]]
        BY <1>5, <2>1, <2>4 DEF DataInv
    <2>9. part' \in [Sides -> [Ledgers -> Seq(Below(fresh))]]
        BY <1>5, <2>1, <2>5 DEF DataInv
    <2> QED BY <1>3, <2>6, <2>7, <2>8, <2>9 DEF DataInv
<1> QED BY <1>2, <1>4, <1>5

(* What somebody writes into a file is a new row, or what stood there.         *)
LEMMA ChangedRows ==
    ASSUME fresh \in Nat, NEW rows \in Seq(Below(fresh)), NEW other \in Changed(rows)
    PROVE  /\ other \in Seq(Below(fresh + 1))
           /\ \A n \in 1 .. Len(other) : other[n] = fresh \/ (n <= Len(rows) /\ other[n] = rows[n])
<1> DEFINE B == Below(fresh + 1)
<1>1. rows \in Seq(B) /\ fresh \in B /\ Len(rows) \in Nat
    BY LaterRows, LenProperties DEF Below
<1>2. CASE \E n \in DOMAIN rows : other = [rows EXCEPT ![n] = fresh]
    <2>1. PICK n \in DOMAIN rows : other = [rows EXCEPT ![n] = fresh]
        BY <1>2
    <2>2. n \in 1 .. Len(rows)
        BY <1>1, <2>1, LenProperties
    <2> HIDE DEF B
    <2>3. /\ other \in Seq(B) /\ Len(other) = Len(rows)
          /\ \A j \in 1 .. Len(rows) : other[j] = IF j = n THEN fresh ELSE rows[j]
        BY <1>1, <2>1, <2>2, ExceptSeq
    <2> QED BY <1>1, <2>3 DEF B
<1>3. CASE other = Append(rows, fresh)
    <2> HIDE DEF B
    <2>1. /\ other \in Seq(B) /\ Len(other) = Len(rows) + 1 /\ other[Len(rows) + 1] = fresh
          /\ \A j \in 1 .. Len(rows) : other[j] = rows[j]
        BY <1>1, <1>3, AppendProperties
    <2>2. ASSUME NEW n \in 1 .. Len(other) PROVE other[n] = fresh \/ (n <= Len(rows) /\ other[n] = rows[n])
        <3>1. n = Len(rows) + 1 \/ n \in 1 .. Len(rows)
            BY <1>1, <2>1
        <3> QED BY <1>1, <2>1, <3>1
    <2> QED BY <2>1, <2>2 DEF B
<1>4. CASE other = SubSeq(rows, 1, Len(rows) - 1)
    <2> HIDE DEF B
    <2>0. Len(rows) - 1 \in Int /\ \A i \in 1 .. Len(rows) - 1 : rows[i] \in B /\ i <= Len(rows)
        <3>1. \A i \in 1 .. Len(rows) - 1 : i \in 1 .. Len(rows)
            BY <1>1
        <3> QED BY <1>1, <3>1, ElementOfSeq
    <2>1. /\ other \in Seq(B) /\ Len(other) = IF 1 <= Len(rows) - 1 THEN Len(rows) - 1 - 1 + 1 ELSE 0
          /\ \A i \in 1 .. Len(rows) - 1 - 1 + 1 : other[i] = rows[1 + i - 1]
        BY <1>4, <2>0, SubSeqProperties
    <2>2. ASSUME NEW n \in 1 .. Len(other) PROVE n <= Len(rows) /\ other[n] = rows[n]
        <3>1. n \in 1 .. Len(rows) - 1 - 1 + 1 /\ n <= Len(rows) /\ 1 + n - 1 = n
            BY <1>1, <2>1
        <3> QED BY <2>1, <3>1
    <2> QED BY <2>1, <2>2 DEF B
<1> QED BY <1>2, <1>3, <1>4 DEF Changed

LEMMA LaterData ==
    ASSUME DataInv, fresh' \in Nat, fresh <= fresh',
           inodes' \in Seq(Files(fresh')), Len(inodes) <= Len(inodes'),
           path' \in [Ledgers -> 1 .. Len(inodes')], path'["events"] # path'["raw"],
           now' \in Nat, root' \in Nat, edits' \in Nat, UNCHANGED <<fd, base, read, rootBase>>,
           part' \in [Sides -> [Ledgers -> Seq(Below(fresh'))]]
    PROVE  DataInv'
<1>1. Len(inodes) \in Nat /\ Len(inodes') \in Nat
    BY LenProperties DEF DataInv
<1>2. fd' \in [Sides -> [Ledgers -> 0 .. Len(inodes')]]
    <2>1. 0 .. Len(inodes) \subseteq 0 .. Len(inodes')
        BY <1>1
    <2>2. fd \in [Sides -> [Ledgers -> 0 .. Len(inodes)]] /\ fd' = fd
        BY DEF DataInv
    <2> QED BY <2>1, <2>2
<1>3. \A s \in Sides : \A l \in Ledgers : base'[s][l].inode <= Len(inodes')
    <2>1. \A s \in Sides : \A l \in Ledgers : base[s][l].inode <= Len(inodes) /\ base[s][l].inode \in Nat
        <3>1. \A s \in Sides : \A l \in Ledgers : base[s][l] \in Identities
            BY DEF DataInv
        <3> QED BY <3>1 DEF DataInv, Identities
    <2>2. base' = base
        OBVIOUS
    <2> QED BY <1>1, <2>1, <2>2
<1>4. read' \in [Sides -> [Ledgers -> Seq(Below(fresh'))]]
    <2>1. Seq(Below(fresh)) \subseteq Seq(Below(fresh'))
        BY LaterRows DEF DataInv
    <2>2. read \in [Sides -> [Ledgers -> Seq(Below(fresh))]] /\ read' = read
        BY DEF DataInv
    <2> QED BY <2>1, <2>2
<1> QED BY <1>2, <1>3, <1>4 DEF DataInv

LEMMA PartIsLater ==
    ASSUME DataInv, fresh' \in Nat, fresh <= fresh'
    PROVE  part \in [Sides -> [Ledgers -> Seq(Below(fresh'))]]
<1>1. Seq(Below(fresh)) \subseteq Seq(Below(fresh'))
    BY LaterRows DEF DataInv
<1> QED BY <1>1 DEF DataInv

(* One file is replaced by other rows; the others only grow older.             *)
Replaced(i, rows) == [inodes EXCEPT ![i] = [rows |-> rows, stamp |-> now]]

LEMMA FilesChange ==
    ASSUME DataInv, NEW i \in 1 .. Len(inodes), NEW rows \in Seq(Below(fresh + 1)), NEW files,
           files = Replaced(i, rows)
    PROVE  /\ files \in Seq(Files(fresh + 1)) /\ Len(files) = Len(inodes)
           /\ files[i] = [rows |-> rows, stamp |-> now]
           /\ \A j \in 1 .. Len(inodes) : j # i => files[j] = inodes[j]
<1>1. inodes \in Seq(Files(fresh + 1))
    <2>1. fresh + 1 \in Nat /\ fresh <= fresh + 1
        BY DEF DataInv
    <2> QED BY <2>1, LaterRows DEF DataInv
<1>2. [rows |-> rows, stamp |-> now] \in Files(fresh + 1)
    BY DEF Files, DataInv
<1> QED BY <1>1, <1>2, ExceptSeq DEF Replaced

LEMMA FileIsSaved ==
    ASSUME DataInv, NEW rows \in Seq(Below(fresh + 1)), NEW files,
           files = Append(inodes, [rows |-> rows, stamp |-> now])
    PROVE  /\ files \in Seq(Files(fresh + 1)) /\ Len(files) = Len(inodes) + 1
           /\ files[Len(inodes) + 1] = [rows |-> rows, stamp |-> now]
           /\ \A j \in 1 .. Len(inodes) : files[j] = inodes[j]
<1>1. inodes \in Seq(Files(fresh + 1))
    <2>1. fresh + 1 \in Nat /\ fresh <= fresh + 1
        BY DEF DataInv
    <2> QED BY <2>1, LaterRows DEF DataInv
<1>2. [rows |-> rows, stamp |-> now] \in Files(fresh + 1)
    BY DEF Files, DataInv
<1> QED BY <1>1, <1>2, AppendProperties

(* What an edit does, in one formula.                                          *)
EditsFile(l, rows) ==
    /\ inodes' = Replaced(path[l], rows)
    /\ UNCHANGED <<path, root>>
SavesFile(l, rows) ==
    /\ inodes' = Append(inodes, [rows |-> rows, stamp |-> now])
    /\ path' = [path EXCEPT ![l] = Len(inodes) + 1]
    /\ root' = now

LEMMA EditIs ==
    ASSUME DataInv, NEW l \in Ledgers, Edit(l)
    PROVE  /\ path[l] \in 1 .. Len(inodes)
           /\ \E rows \in Seq(Below(fresh + 1)) :
                 /\ EditsFile(l, rows) \/ SavesFile(l, rows)
                 /\ \A n \in 1 .. Len(rows) :
                       \/ rows[n] = fresh
                       \/ n <= Len(inodes[path[l]].rows) /\ rows[n] = inodes[path[l]].rows[n]
           /\ edits' = edits + 1 /\ fresh' = fresh + 1 /\ held' = held \cup {Pair(inodes', path')}
           /\ UNCHANGED <<now, operation, todo, fd, base, read, part, rootBase, mode, refused, accepted>>
<1>1. path[l] \in 1 .. Len(inodes)
    BY DEF DataInv
<1>2. PICK rows \in Changed(inodes[path[l]].rows) :
         \/ /\ inodes' = [inodes EXCEPT ![path[l]] = [rows |-> rows, stamp |-> now]]
            /\ UNCHANGED <<path, root>>
         \/ /\ inodes' = Append(inodes, [rows |-> rows, stamp |-> now])
            /\ path' = [path EXCEPT ![l] = Len(inodes')]
            /\ root' = now
    BY DEF Edit
<1>3. inodes[path[l]].rows \in Seq(Below(fresh)) /\ fresh \in Nat
    BY <1>1, IdentityIsTyped DEF DataInv
<1>4. /\ rows \in Seq(Below(fresh + 1))
      /\ \A n \in 1 .. Len(rows) :
            rows[n] = fresh \/ (n <= Len(inodes[path[l]].rows) /\ rows[n] = inodes[path[l]].rows[n])
    BY <1>3, ChangedRows
<1>5. EditsFile(l, rows) \/ SavesFile(l, rows)
    <2>1. inodes' = Append(inodes, [rows |-> rows, stamp |-> now]) => Len(inodes') = Len(inodes) + 1
        BY <1>4, FileIsSaved
    <2> QED BY <1>2, <2>1 DEF EditsFile, SavesFile, Replaced
<1>6. /\ edits' = edits + 1 /\ fresh' = fresh + 1 /\ held' = held \cup {Pair(inodes', path')}
      /\ UNCHANGED <<now, operation, todo, fd, base, read, part, rootBase, mode, refused, accepted>>
    BY DEF Edit, binding, outcome
<1> QED BY <1>1, <1>4, <1>5, <1>6

LEMMA EditData ==
    ASSUME DataInv, NEW l \in Ledgers, Edit(l)
    PROVE  DataInv'
<1>1. PICK rows \in Seq(Below(fresh + 1)) : EditsFile(l, rows) \/ SavesFile(l, rows)
    BY EditIs
<1>2. /\ edits' = edits + 1 /\ fresh' = fresh + 1 /\ path[l] \in 1 .. Len(inodes)
      /\ UNCHANGED <<now, fd, base, read, part, rootBase>>
    BY EditIs
<1>3. /\ fresh' \in Nat /\ fresh <= fresh' /\ now' \in Nat /\ edits' \in Nat
      /\ Len(inodes) \in Nat
    BY <1>2, LenProperties DEF DataInv
<1>4. part' \in [Sides -> [Ledgers -> Seq(Below(fresh'))]]
    BY <1>2, <1>3, PartIsLater
<1>5. CASE EditsFile(l, rows)
    <2>1. inodes' \in Seq(Files(fresh')) /\ Len(inodes') = Len(inodes)
        <3>1. inodes' = Replaced(path[l], rows)
            BY <1>5 DEF EditsFile
        <3>2. inodes' \in Seq(Files(fresh + 1)) /\ Len(inodes') = Len(inodes)
            BY <1>2, <3>1, FilesChange
        <3> QED BY <1>2, <3>2
    <2>2. path' = path /\ root' \in Nat
        BY <1>5 DEF EditsFile, DataInv
    <2>3. path' \in [Ledgers -> 1 .. Len(inodes')] /\ path'["events"] # path'["raw"]
        BY <2>1, <2>2 DEF DataInv
    <2> QED BY <1>2, <1>3, <1>4, <2>1, <2>2, <2>3, LaterData
<1>6. CASE SavesFile(l, rows)
    <2>1. inodes' \in Seq(Files(fresh')) /\ Len(inodes') = Len(inodes) + 1
        BY <1>2, <1>6, FileIsSaved DEF SavesFile
    <2>2. path' = [path EXCEPT ![l] = Len(inodes) + 1] /\ root' \in Nat
        BY <1>6 DEF SavesFile, DataInv
    <2>3. \A m \in Ledgers : path[m] \in 1 .. Len(inodes)
        BY DEF DataInv
    <2>4. path' \in [Ledgers -> 1 .. Len(inodes')]
        BY <1>3, <2>1, <2>2, <2>3 DEF DataInv
    <2>5. path'["events"] # path'["raw"]
        <3>1. path["events"] # Len(inodes) + 1 /\ path["raw"] # Len(inodes) + 1
            BY <1>3, <2>3 DEF Ledgers
        <3> QED BY <2>2, <3>1 DEF Ledgers, DataInv
    <2>6. Len(inodes) <= Len(inodes')
        BY <1>3, <2>1
    <2> QED BY <1>2, <1>3, <1>4, <2>1, <2>2, <2>4, <2>5, <2>6, LaterData
<1> QED BY <1>1, <1>5, <1>6

(* What a write of one's own does, in one formula.                             *)
LEMMA WriteIs ==
    ASSUME ControlInv, DataInv, FactsInv, todo # <<>>,
           NEW lands \in BOOLEAN, NEW succeeds \in BOOLEAN, WriteRow(Head(todo), lands, succeeds)
    PROVE  /\ Head(todo).see = "write" /\ Head(todo).side = "writer"
           /\ \E l \in Ledgers :
                 /\ Head(todo).of = {l} /\ fd["writer"][l] \in 1 .. Len(inodes)
                 /\ IF lands
                       THEN /\ inodes' = Replaced(fd["writer"][l], Append(inodes[fd["writer"][l]].rows, fresh))
                            /\ fresh' = fresh + 1
                       ELSE inodes' = inodes /\ fresh' = fresh
                 /\ \/ /\ lands /\ Advance(read["writer"])
                       /\ part' = [part EXCEPT !["writer"][l] = <<fresh>>]
                       /\ UNCHANGED <<fd, base, read, rootBase>>
                    \/ Refuse("writer", "io_error")
           /\ held' = held \cup {Pair(inodes', path)}
           /\ UNCHANGED <<path, root, now, operation, edits>>
<1>1. Head(todo) \in LegalLooks /\ Head(todo).see = "write" /\ Head(todo).side = "writer"
    BY HeadIsLegal DEF WriteRow, LegalLooks
<1>2. PICK l \in Ledgers : Head(todo).of = {l}
    BY <1>1, OneLedger
<1>3. fd["writer"][l] \in 1 .. Len(inodes)
    BY <1>1, <1>2, FdIsOpen
<1>4. inodes[fd["writer"][l]].rows \in Seq(Below(fresh))
    BY <1>3, IdentityIsTyped
<1>5. IF lands
         THEN /\ inodes' = Replaced(fd["writer"][l], Append(inodes[fd["writer"][l]].rows, fresh))
              /\ fresh' = fresh + 1
         ELSE inodes' = inodes /\ fresh' = fresh
    BY <1>2, <1>3 DEF WriteRow, DataInv, Replaced
<1>6. \/ /\ lands /\ Advance(read["writer"])
         /\ part' = [part EXCEPT !["writer"][l] = <<fresh>>]
         /\ UNCHANGED <<fd, base, read, rootBase>>
      \/ Refuse("writer", "io_error")
    BY <1>2 DEF WriteRow
<1>7. held' = held \cup {Pair(inodes', path)} /\ UNCHANGED <<path, root, now, operation, edits>>
    BY DEF WriteRow
<1> QED BY <1>1, <1>2, <1>3, <1>5, <1>6, <1>7

LEMMA WriteRowData ==
    ASSUME ControlInv, DataInv, FactsInv, todo # <<>>,
           NEW lands \in BOOLEAN, NEW succeeds \in BOOLEAN, WriteRow(Head(todo), lands, succeeds)
    PROVE  DataInv'
<1>1. PICK l \in Ledgers :
         /\ fd["writer"][l] \in 1 .. Len(inodes)
         /\ IF lands
               THEN /\ inodes' = Replaced(fd["writer"][l], Append(inodes[fd["writer"][l]].rows, fresh))
                    /\ fresh' = fresh + 1
               ELSE inodes' = inodes /\ fresh' = fresh
         /\ \/ /\ lands /\ Advance(read["writer"])
               /\ part' = [part EXCEPT !["writer"][l] = <<fresh>>]
               /\ UNCHANGED <<fd, base, read, rootBase>>
            \/ Refuse("writer", "io_error")
    BY WriteIs
<1>2. UNCHANGED <<path, root, now, edits>>
    BY WriteIs
<1>3. fresh \in Nat /\ now' \in Nat /\ root' \in Nat /\ edits' \in Nat /\ Len(inodes) \in Nat
    BY <1>2, LenProperties DEF DataInv
<1>4. fresh' \in Nat /\ fresh <= fresh' /\ (lands => fresh' = fresh + 1)
    BY <1>1, <1>3
<1>5. inodes' \in Seq(Files(fresh')) /\ Len(inodes') = Len(inodes)
    <2>1. CASE lands
        <3> DEFINE rows == Append(inodes[fd["writer"][l]].rows, fresh)
        <3>1. inodes[fd["writer"][l]].rows \in Seq(Below(fresh))
            BY <1>1, IdentityIsTyped
        <3>2. inodes[fd["writer"][l]].rows \in Seq(Below(fresh + 1)) /\ fresh \in Below(fresh + 1)
            BY <1>3, <3>1, LaterRows DEF Below
        <3>3. rows \in Seq(Below(fresh + 1))
            BY <3>2, AppendProperties
        <3>4. inodes' = Replaced(fd["writer"][l], rows)
            BY <1>1, <2>1
        <3>5. fd["writer"][l] \in 1 .. Len(inodes)
            BY <1>1
        <3> HIDE DEF rows
        <3>6. inodes' \in Seq(Files(fresh + 1)) /\ Len(inodes') = Len(inodes)
            BY <3>3, <3>4, <3>5, FilesChange
        <3> QED BY <1>4, <2>1, <3>6
    <2>2. CASE ~lands
        BY <1>1, <2>2 DEF DataInv
    <2> QED BY <2>1, <2>2
<1>6. UNCHANGED <<fd, base, read, rootBase>>
    BY <1>1 DEF Refuse, binding
<1>7. part' \in [Sides -> [Ledgers -> Seq(Below(fresh'))]]
    <2>1. part \in [Sides -> [Ledgers -> Seq(Below(fresh'))]]
        BY <1>4, PartIsLater
    <2>2. CASE lands /\ part' = [part EXCEPT !["writer"][l] = <<fresh>>]
        <3>1. fresh \in Below(fresh')
            BY <1>3, <1>4, <2>2 DEF Below
        <3>2. <<fresh>> \in Seq(Below(fresh')) /\ "writer" \in Sides
            BY <3>1 DEF Sides
        <3> DEFINE T == Seq(Below(fresh'))
                   v == <<fresh>>
        <3>3. part \in [Sides -> [Ledgers -> T]] /\ v \in T /\ part' = [part EXCEPT !["writer"][l] = v]
            BY <2>1, <2>2, <3>2
        <3> HIDE DEF T, v
        <3>4. part' \in [Sides -> [Ledgers -> T]]
            BY <3>2, <3>3, NestedExcept
        <3> QED BY <3>4 DEF T
    <2>3. CASE Refuse("writer", "io_error")
        BY <2>1, <2>3 DEF Refuse, binding
    <2> QED BY <1>1, <2>2, <2>3
<1>8. path' \in [Ledgers -> 1 .. Len(inodes')] /\ path'["events"] # path'["raw"]
    BY <1>2, <1>5 DEF DataInv
<1>9. Len(inodes) <= Len(inodes')
    BY <1>3, <1>5
<1> QED BY <1>3, <1>4, <1>5, <1>6, <1>7, <1>8, <1>9, LaterData

LEMMA StepData ==
    ASSUME ControlInv, DataInv, FactsInv, Step
    PROVE  DataInv'
<1> DEFINE look == Head(todo)
<1>0. todo # <<>>
    BY DEF Step
<1>1. CASE SeeIdentity(look)
    BY <1>0, <1>1, SeeIdentityData
<1>2. CASE OpenFile(look)
    BY <1>0, <1>2, OpenFileData
<1>3. CASE ReadRow(look)
    BY <1>0, <1>3, ReadRowData
<1>4. CASE FinishPass(look)
    BY <1>0, <1>4, FinishPassData
<1>5. CASE SeeRoot(look)
    BY <1>5 DEF SeeRoot, Refuse, binding, Same, world, DataInv
<1>6. CASE SeeAgreement(look)
    BY <1>6 DEF SeeAgreement, Refuse, binding, Same, world, DataInv
<1>7. CASE SeeGrown(look)
    BY <1>0, <1>7, SeeGrownData
<1>8. ASSUME NEW lands \in BOOLEAN, NEW succeeds \in BOOLEAN, WriteRow(look, lands, succeeds)
      PROVE  DataInv'
    BY <1>0, <1>8, WriteRowData
<1> QED BY <1>1, <1>2, <1>3, <1>4, <1>5, <1>6, <1>7, <1>8 DEF Step

LEMMA BeginData ==
    ASSUME DataInv, NEW name, Begin(name)
    PROVE  DataInv'
<1>1. part' = [s \in Sides |-> Nothing]
    BY DEF Begin
<1>2. part' \in [Sides -> [Ledgers -> Seq(Below(fresh))]]
    BY <1>1 DEF Nothing
<1>3. UNCHANGED <<inodes, path, root, now, fresh, fd, base, read, rootBase, edits>>
    BY DEF Begin, world
<1> QED BY <1>2, <1>3 DEF DataInv

LEMMA TickData ==
    ASSUME DataInv, Tick
    PROVE  DataInv'
BY DEF Tick, DataInv, binding

LEMMA BesideData ==
    ASSUME DataInv, Beside
    PROVE  DataInv'
BY DEF Beside, DataInv, binding

-----------------------------------------------------------------------------
(* Passes under way, and the pairs that stood *)

LEMMA NoPartLeft ==
    ASSUME PartInv, todo # <<>>, Head(todo).see \notin {"rows", "grown"}, UNCHANGED part
    PROVE  PartInv'
BY DEF PartInv

LEMMA NoPart ==
    ASSUME PartInv, todo # <<>>, Head(todo).see \notin {"rows", "grown"},
           NEW s \in Sides, NEW l \in Ledgers
    PROVE  part[s][l] = <<>>
BY DEF PartInv

LEMMA PartCleared ==
    ASSUME DataInv, PartInv, todo # <<>>, NEW s \in Sides, Head(todo).side = s,
           part' = [part EXCEPT ![s] = Nothing]
    PROVE  PartInv'
<1>1. \A l \in Ledgers : part'[s][l] = <<>>
    BY DEF DataInv, Nothing
<1>2. \A s2 \in Sides : s2 # s => \A l \in Ledgers : part'[s2][l] = <<>>
    BY DEF DataInv, PartInv
<1> QED BY <1>1, <1>2 DEF PartInv

LEMMA StepPart ==
    ASSUME ControlInv, DataInv, FactsInv, PartInv, Step
    PROVE  PartInv'
<1> DEFINE look == Head(todo)
<1>0. todo # <<>> /\ look \in LegalLooks /\ look.side \in Sides /\ look.of \in SUBSET Ledgers
    BY HeadIsLegal DEF Step
<1>9. ASSUME NEW s, NEW why, Refuse(s, why) PROVE PartInv'
    BY <1>9 DEF Refuse, PartInv
<1>1. CASE SeeIdentity(look)
    <2>1. look.see \notin {"rows", "grown"} /\ (UNCHANGED part \/ Refuse(look.side, "unstable"))
        BY <1>1 DEF SeeIdentity
    <2> QED BY <1>0, <1>9, <2>1, NoPartLeft
<1>2. CASE OpenFile(look)
    BY <1>0, <1>2, NoPartLeft DEF OpenFile
<1>3. CASE ReadRow(look)
    <2>1. PICK l \in look.of :
             \/ Refuse(look.side, "unstable")
             \/ /\ part' = [part EXCEPT ![look.side][l] =
                              Append(@, inodes[fd[look.side][l]].rows[Len(part[look.side][l]) + 1])]
                /\ UNCHANGED todo
        BY <1>3 DEF ReadRow
    <2>2. CASE /\ part' = [part EXCEPT ![look.side][l] =
                              Append(@, inodes[fd[look.side][l]].rows[Len(part[look.side][l]) + 1])]
               /\ UNCHANGED todo
        <3>1. l \in Ledgers /\ look.see = "rows"
            BY <1>0, <1>3 DEF ReadRow
        <3>2. ASSUME NEW s \in Sides, NEW m \in Ledgers, s # look.side \/ m # l
              PROVE  part'[s][m] = part[s][m]
            BY <1>0, <2>2, <3>1, <3>2 DEF DataInv
        <3>3. \A s \in Sides : \A m \in Ledgers :
                 part[s][m] = <<>> \/ (look.side = s /\ m \in look.of)
            BY <1>0 DEF PartInv
        <3>4. \A s \in Sides : \A m \in Ledgers :
                 part'[s][m] = <<>> \/ (look.side = s /\ m \in look.of)
            BY <3>2, <3>3
        <3> QED BY <2>2, <3>1, <3>4 DEF PartInv
    <2> QED BY <1>9, <2>1, <2>2
<1>4. CASE FinishPass(look)
    <2>1. part' = [part EXCEPT ![look.side] = Nothing] \/ Refuse(look.side, "unstable")
        BY <1>4 DEF FinishPass
    <2> QED BY <1>0, <1>9, <2>1, PartCleared
<1>5. CASE SeeRoot(look)
    <2>1. look.see \notin {"rows", "grown"}
          /\ (UNCHANGED part \/ Refuse("reader", "unstable") \/ Refuse("reader", "neighbour"))
        BY <1>5 DEF SeeRoot
    <2> QED BY <1>0, <1>9, <2>1, NoPartLeft
<1>6. CASE SeeAgreement(look)
    <2>1. look.see \notin {"rows", "grown"} /\ (UNCHANGED part \/ Refuse("reader", "unstable"))
        BY <1>6 DEF SeeAgreement, binding
    <2> QED BY <1>0, <1>9, <2>1, NoPartLeft
<1>7. CASE SeeGrown(look)
    <2>1. part' = [part EXCEPT !["writer"] = Nothing] \/ Refuse("writer", "unstable")
        BY <1>7 DEF SeeGrown
    <2>2. look.side = "writer"
        BY <1>0, <1>7 DEF SeeGrown, LegalLooks
    <2> QED BY <1>0, <1>9, <2>1, <2>2, PartCleared
<1>8. ASSUME NEW lands \in BOOLEAN, NEW succeeds \in BOOLEAN, WriteRow(look, lands, succeeds)
      PROVE  PartInv'
    <2>1. PICK l \in Ledgers :
             /\ look.of = {l}
             /\ \/ /\ lands /\ Advance(read["writer"])
                   /\ part' = [part EXCEPT !["writer"][l] = <<fresh>>]
                \/ Refuse("writer", "io_error")
        BY <1>0, <1>8, WriteIs
    <2>2. look.see = "write"
        BY <1>8 DEF WriteRow
    <2>3. CASE Advance(read["writer"]) /\ part' = [part EXCEPT !["writer"][l] = <<fresh>>]
        <3>1. todo' = Tail(todo) /\ Head(todo').see = "grown" /\ Head(todo').of = {l} /\ todo' # <<>>
            BY <1>0, <2>1, <2>2, <2>3, TailOfGrowth DEF Advance, ControlInv
        <3>2. Head(todo').side = "writer"
            <4>1. todo' \in Seq(LegalLooks)
                BY <1>0, <3>1, HeadTailProperties DEF ControlInv
            <4>2. Head(todo') \in LegalLooks
                BY <3>1, <4>1, HeadTailProperties
            <4> QED BY <3>1, <4>2 DEF LegalLooks
        <3>3. ASSUME NEW s \in Sides, NEW m \in Ledgers
              PROVE  part'[s][m] = <<>> \/ (s = "writer" /\ m = l)
            <4>1. part[s][m] = <<>>
                BY <1>0, <2>2, NoPart
            <4> QED BY <2>3, <4>1 DEF DataInv
        <3> QED BY <3>1, <3>2, <3>3 DEF PartInv
    <2> QED BY <1>9, <2>1, <2>3
<1> QED BY <1>1, <1>2, <1>3, <1>4, <1>5, <1>6, <1>7, <1>8 DEF Step

LEMMA StepHeld ==
    ASSUME HeldInv, Step
    PROVE  HeldInv'
<1>1. todo # <<>>
    BY DEF Step
<1>2. CASE Same
    BY <1>1, <1>2 DEF Same, world, HeldInv
<1>3. CASE ~Same
    <2>1. \E lands, succeeds \in BOOLEAN : WriteRow(Head(todo), lands, succeeds)
        BY <1>3 DEF Step, SeeIdentity, OpenFile, ReadRow, FinishPass, SeeRoot, SeeAgreement, SeeGrown
    <2>2. held' = held \cup {Pair(inodes', path)} /\ path' = path
        BY <2>1 DEF WriteRow
    <2> QED BY <2>2 DEF HeldInv
<1> QED BY <1>2, <1>3

-----------------------------------------------------------------------------
(* Facts *)

(* Nothing but a write takes a fact away.                                      *)
LEMMA FactsStay ==
    ASSUME edits' = edits, UNCHANGED <<inodes, path>>,
           \A s \in Sides : \A l \in Ledgers :
               /\ fd'[s][l] # fd[s][l] => fd'[s][l] = path[l] /\ path[l] # 0
               /\ base'[s][l] # base[s][l] => (edits = 0 => base'[s][l] = Identity(path[l]))
               /\ read'[s][l] # read[s][l] => (edits = 0 => read'[s][l] = inodes[path[l]].rows)
    PROVE  Facts \subseteq Facts'
<1>1. \A l \in Ledgers : Identity(path[l])' = Identity(path[l])
    BY DEF Identity
<1> SUFFICES ASSUME NEW what \in {"fd", "base", "read"}, NEW s \in Sides, NEW l \in Ledgers, Known(what, s, l)
             PROVE  Known(what, s, l)'
    <2>1. ASSUME NEW f \in Facts PROVE f \in Facts'
        <3>1. f \in AllFacts /\ Known(f[1], f[2], f[3])
            BY <2>1 DEF Facts
        <3>2. f[1] \in {"fd", "base", "read"} /\ f[2] \in Sides /\ f[3] \in Ledgers
            BY <3>1 DEF AllFacts
        <3> QED BY <3>1, <3>2 DEF Facts
    <2> QED BY <2>1
<1>2. CASE what = "fd"
    BY <1>2 DEF Known
<1>3. CASE what = "base"
    BY <1>1, <1>3 DEF Known
<1>4. CASE what = "read"
    BY <1>4 DEF Known
<1> QED BY <1>2, <1>3, <1>4

LEMMA GivesKnown ==
    ASSUME NEW look,
           \A what \in {"fd", "base", "read"} : \A s \in Sides : \A l \in Ledgers :
               GivesFact(look, what, s, l) => Known(what, s, l)'
    PROVE  Gives(look) \subseteq Facts'
<1>1. ASSUME NEW f \in Gives(look) PROVE f \in Facts'
    <2>1. f \in AllFacts /\ GivesFact(look, f[1], f[2], f[3])
        BY <1>1 DEF Gives
    <2>2. f[1] \in {"fd", "base", "read"} /\ f[2] \in Sides /\ f[3] \in Ledgers
        BY <2>1 DEF AllFacts
    <2>3. Known(f[1], f[2], f[3])'
        BY <2>1, <2>2
    <2> QED BY <2>1, <2>3 DEF Facts
<1> QED BY <1>1

LEMMA AdvanceFacts ==
    ASSUME ControlInv, FactsInv, todo # <<>>, NEW rows, Advance(rows), operation' = operation,
           Facts \subseteq Facts', Gives(Head(todo)) \subseteq Facts'
    PROVE  FactsInv'
<1> DEFINE G == IF operation = "session" THEN Owned("writer") ELSE {}
           F == Facts
           F2 == Facts'
<1>1. todo' = Tail(todo)
    BY DEF Advance
<1>2. Takes(F \cup Gives(Head(todo)), Tail(todo), G)
    BY TailTakes DEF ControlInv, FactsInv
<1>3. F \cup Gives(Head(todo)) \subseteq F2
    OBVIOUS
<1> HIDE DEF G, F, F2
<1>4. Takes(F2, todo', G)
    BY <1>1, <1>2, <1>3, TakesMore
<1>5. mode' = "open" => Owned("writer") \subseteq F2
    <2>1. CASE mode = "open"
        <3>1. Owned("writer") \subseteq F \cup Gives(Head(todo))
            BY <2>1 DEF FactsInv, Pending, F
        <3> QED BY <1>3, <3>1
    <2>2. CASE mode # "open" /\ mode' = "open"
        <3>1. Tail(todo) = <<>> /\ operation = "session"
            BY <2>2 DEF Advance
        <3>2. todo' = <<>> /\ G = Owned("writer")
            BY <1>1, <3>1 DEF G
        <3>3. \A f \in Owned("writer") : f \in F2 \/ \E j \in 1 .. Len(<<>>) : f \in Gives((<<>>)[j])
            BY <1>4, <3>2 DEF Takes
        <3>4. 1 .. Len(<<>>) = {}
            OBVIOUS
        <3> QED BY <3>3, <3>4
    <2> QED BY <2>1, <2>2
<1> QED BY <1>4, <1>5 DEF FactsInv, G, F2

LEMMA RefuseFacts ==
    ASSUME FactsInv, todo # <<>>, NEW s, NEW why, Refuse(s, why),
           s = "writer" \/ (Facts \subseteq Facts' /\ Head(todo).see # "grown")
    PROVE  FactsInv'
<1>1. todo' = <<>>
    BY DEF Refuse
<1>2. CASE s = "writer"
    <2>1. mode' # "open"
        BY <1>2 DEF Refuse
    <2> QED BY <1>1, <2>1 DEF FactsInv
<1>3. CASE Facts \subseteq Facts' /\ Head(todo).see # "grown"
    <2>1. mode' = "open" => mode = "open"
        BY DEF Refuse
    <2>2. mode = "open" => Owned("writer") \subseteq Facts
        BY <1>3 DEF FactsInv, Pending
    <2> QED BY <1>1, <1>3, <2>1, <2>2 DEF FactsInv
<1> QED BY <1>2, <1>3

LEMMA StillFacts ==
    ASSUME FactsInv, UNCHANGED <<todo, mode, operation>>, Facts \subseteq Facts'
    PROVE  FactsInv'
<1> DEFINE F == Facts
           F2 == Facts'
           G == IF operation = "session" THEN Owned("writer") ELSE {}
<1>1. F \subseteq F2
    OBVIOUS
<1>2. todo # <<>> => Takes(F, todo, G)
    BY DEF FactsInv
<1> HIDE DEF F, F2, G
<1>3. todo # <<>> => Takes(F2, todo, G)
    BY <1>1, <1>2, TakesMore
<1>4. Pending' = Pending
    BY DEF Pending
<1>5. mode = "open" => Owned("writer") \subseteq F2 \cup Pending
    BY <1>1 DEF FactsInv, F
<1> QED BY <1>3, <1>4, <1>5 DEF FactsInv, F2, G

(* A look that moves on leaves a pass with nothing read.                       *)
LEMMA AdvanceQuiet ==
    ASSUME ControlInv, QuietInv, todo # <<>>, Head(todo).see # "write", NEW rows, Advance(rows),
           edits' = edits, root' = root, rootBase' \in {rootBase, root},
           \A s \in Sides : \A l \in Ledgers : part'[s][l] = <<>>
    PROVE  QuietInv'
<1>1. todo' = Tail(todo) /\ refused' = refused
    BY DEF Advance
<1>2. todo' # <<>> => Head(todo').see # "grown"
    BY <1>1, TailOfGrowth DEF ControlInv
<1>3. ASSUME todo' # <<>>
      PROVE  \A l \in Head(todo').of : part'[Head(todo').side][l] = <<>>
    <2>1. todo' \in Seq(LegalLooks)
        BY <1>1, HeadTailProperties DEF ControlInv
    <2>2. Head(todo') \in LegalLooks
        BY <1>3, <2>1, HeadTailProperties
    <2> QED BY <2>2 DEF LegalLooks, AnyLook
<1>4. ASSUME edits = 0, todo' # <<>>, Head(todo').see = "rows", NEW l \in Head(todo').of
      PROVE  LET rows2 == inodes'[path'[l]].rows
                 taken == part'[Head(todo').side][l]
             IN  Len(taken) <= Len(rows2) /\ \A n \in 1 .. Len(taken) : taken[n] = rows2[n]
    <2>1. part'[Head(todo').side][l] = <<>>
        BY <1>3, <1>4
    <2> QED BY <2>1
<1>5. edits = 0 => root = 0 /\ rootBase = 0 /\ refused # "unstable"
    BY DEF QuietInv
<1> QED BY <1>1, <1>2, <1>4, <1>5 DEF QuietInv

LEMMA RefuseQuiet ==
    ASSUME QuietInv, NEW s, NEW why, Refuse(s, why), edits' = edits, root' = root,
           edits = 0 => why # "unstable"
    PROVE  QuietInv'
BY DEF QuietInv, Refuse, binding

(* A look at what nobody changed finds it so.                                  *)
LEMMA SeeIdentityFacts ==
    ASSUME ControlInv, DataInv, PartInv, FactsInv, QuietInv, todo # <<>>, SeeIdentity(Head(todo))
    PROVE  FactsInv' /\ QuietInv'
<1> DEFINE look == Head(todo)
           s == look.side
<1>1. look \in LegalLooks /\ s \in Sides /\ look.see \in {"path", "fd"}
    BY HeadIsLegal DEF SeeIdentity
<1>2. PICK l \in Ledgers : look.of = {l} /\ (CHOOSE one \in look.of : TRUE) = l
    BY <1>1, OneLedger
<1> DEFINE i == IF look.see = "path" THEN path[l] ELSE fd[s][l]
<1>3. /\ UNCHANGED <<inodes, path, root, edits, operation>>
    BY DEF SeeIdentity, Same, world
<1>4. \/ /\ look.bind = "new" \/ Identity(i) = base[s][l]
         /\ base' = [base EXCEPT ![s][l] = Identity(i)]
         /\ Advance(read[s])
         /\ UNCHANGED <<fd, read, part, rootBase>>
      \/ look.bind # "new" /\ Identity(i) # base[s][l] /\ Refuse(s, "unstable")
    BY <1>2 DEF SeeIdentity
<1>5. look.bind \in {"same", "new"} /\ (look.see = "fd" => look.bind = "same")
    BY <1>1 DEF LegalLooks, AnyLook
<1>6. ASSUME edits = 0, look.bind = "same" PROVE Identity(i) = base[s][l]
    <2>1. NeedsFact(look, "base", s, l) /\ (look.see = "fd" => NeedsFact(look, "fd", s, l))
        BY <1>1, <1>2, <1>6 DEF NeedsFact
    <2>2. base[s][l] = Identity(path[l])
        BY <1>1, <1>6, <2>1, HeadKnows DEF Known
    <2>3. look.see = "fd" => fd[s][l] = path[l]
        BY <1>1, <1>6, <2>1, HeadKnows DEF Known
    <2>4. i = path[l]
        BY <1>1, <2>3
    <2> HIDE DEF i
    <2> QED BY <2>2, <2>4
<1>7. CASE /\ look.bind = "new" \/ Identity(i) = base[s][l]
           /\ base' = [base EXCEPT ![s][l] = Identity(i)]
           /\ Advance(read[s])
           /\ UNCHANGED <<fd, read, part, rootBase>>
    <2> DEFINE id == Identity(i)
               T == Identities
    <2>1. i \in 1 .. Len(inodes)
        <3>1. path[l] \in 1 .. Len(inodes)
            BY DEF DataInv
        <3>2. CASE look.see = "fd"
            BY <1>2, <3>2, FdIsOpen
        <3> QED BY <1>1, <3>1, <3>2
    <2>2. id \in T /\ base \in [Sides -> [Ledgers -> T]]
        BY <2>1, IdentityIsTyped DEF DataInv
    <2>3. /\ base'[s][l] = id
          /\ \A s2 \in Sides : \A l2 \in Ledgers : s2 # s \/ l2 # l => base'[s2][l2] = base[s2][l2]
        <3>1. base' = [base EXCEPT ![s][l] = id]
            BY <1>7
        <3> HIDE DEF id, T, s
        <3> QED BY <1>1, <2>2, <3>1, NestedExcept
    <2>4. look.see = "path" => id = Identity(path[l])
        OBVIOUS
    <2>5. look.see = "fd" => id = base[s][l]
        BY <1>5, <1>7
    <2> HIDE DEF id, T, i
    <2>6. \A s2 \in Sides : \A l2 \in Ledgers :
             /\ fd'[s2][l2] = fd[s2][l2] /\ read'[s2][l2] = read[s2][l2]
             /\ base'[s2][l2] # base[s2][l2] => base'[s2][l2] = Identity(path[l2])
        BY <1>1, <1>7, <2>3, <2>4, <2>5
    <2>7. Facts \subseteq Facts'
        BY <1>3, <2>6, FactsStay
    <2>8. Gives(look) \subseteq Facts'
        <3> SUFFICES ASSUME NEW what \in {"fd", "base", "read"}, NEW s2 \in Sides, NEW l2 \in Ledgers,
                            GivesFact(look, what, s2, l2)
                     PROVE  Known(what, s2, l2)'
            BY GivesKnown
        <3>1. look.see = "path" /\ what = "base" /\ s2 = s /\ l2 = l
            BY <1>1, <1>2 DEF GivesFact
        <3>2. base'[s][l] = Identity(path[l])
            BY <2>3, <2>4, <3>1
        <3>3. Identity(path[l])' = Identity(path[l])
            BY <1>3 DEF Identity
        <3> QED BY <3>1, <3>2, <3>3 DEF Known
    <2>9. FactsInv'
        BY <1>3, <1>7, <2>7, <2>8, AdvanceFacts
    <2>10. \A s2 \in Sides : \A l2 \in Ledgers : part'[s2][l2] = <<>>
        BY <1>1, <1>7, NoPart
    <2>11. QuietInv'
        BY <1>1, <1>3, <1>7, <2>10, AdvanceQuiet
    <2> QED BY <2>9, <2>11
<1>8. CASE look.bind # "new" /\ Identity(i) # base[s][l] /\ Refuse(s, "unstable")
    <2>1. UNCHANGED <<fd, base, read>>
        BY <1>8 DEF Refuse, binding
    <2>2. Facts \subseteq Facts'
        BY <1>3, <2>1, FactsStay
    <2>3. FactsInv'
        BY <1>1, <1>8, <2>2, RefuseFacts
    <2>4. QuietInv'
        BY <1>3, <1>5, <1>6, <1>8, RefuseQuiet
    <2> QED BY <2>3, <2>4
<1> QED BY <1>4, <1>7, <1>8

LEMMA OpenFileFacts ==
    ASSUME ControlInv, DataInv, PartInv, FactsInv, QuietInv, todo # <<>>, OpenFile(Head(todo))
    PROVE  FactsInv' /\ QuietInv'
<1> DEFINE look == Head(todo)
           s == look.side
<1>1. look \in LegalLooks /\ s \in Sides /\ look.see = "open"
    BY HeadIsLegal DEF OpenFile
<1>2. PICK l \in Ledgers : look.of = {l}
    BY <1>1, OneLedger
<1>3. /\ fd' = [fd EXCEPT ![s][l] = path[l]] /\ Advance(read[s])
      /\ UNCHANGED <<base, read, part, rootBase, inodes, path, root, edits, operation>>
    BY <1>2 DEF OpenFile, Same, world
<1>4. path[l] \in 0 .. Len(inodes) /\ path[l] # 0
    BY LenProperties DEF DataInv
<1>5. /\ fd'[s][l] = path[l]
      /\ \A s2 \in Sides : \A l2 \in Ledgers : s2 # s \/ l2 # l => fd'[s2][l2] = fd[s2][l2]
    <2> DEFINE T == 0 .. Len(inodes)
               v == path[l]
    <2>1. fd \in [Sides -> [Ledgers -> T]] /\ v \in T /\ fd' = [fd EXCEPT ![s][l] = v]
        BY <1>3, <1>4 DEF DataInv
    <2>2. fd'[s][l] = v
        <3> HIDE DEF T, v, s
        <3> QED BY <1>1, <2>1, NestedExcept
    <2>3. \A s2 \in Sides : \A l2 \in Ledgers : s2 # s \/ l2 # l => fd'[s2][l2] = fd[s2][l2]
        <3> HIDE DEF T, v, s
        <3> QED BY <1>1, <2>1, NestedExcept
    <2> QED BY <2>2, <2>3
<1>6. \A s2 \in Sides : \A l2 \in Ledgers : fd'[s2][l2] # fd[s2][l2] => fd'[s2][l2] = path[l2] /\ path[l2] # 0
    BY <1>1, <1>4, <1>5
<1>7. Facts \subseteq Facts'
    BY <1>3, <1>6, FactsStay
<1>8. Gives(look) \subseteq Facts'
    <2> SUFFICES ASSUME NEW what \in {"fd", "base", "read"}, NEW s2 \in Sides, NEW l2 \in Ledgers,
                        GivesFact(look, what, s2, l2)
                 PROVE  Known(what, s2, l2)'
        BY GivesKnown
    <2>1. what = "fd" /\ s2 = s /\ l2 = l
        BY <1>1, <1>2 DEF GivesFact
    <2> QED BY <1>3, <1>4, <1>5, <2>1 DEF Known
<1>9. \A s2 \in Sides : \A l2 \in Ledgers : part'[s2][l2] = <<>>
    BY <1>1, <1>3, NoPart
<1> QED BY <1>1, <1>3, <1>7, <1>8, <1>9, AdvanceFacts, AdvanceQuiet

LEMMA SeeRootFacts ==
    ASSUME ControlInv, DataInv, PartInv, FactsInv, QuietInv, todo # <<>>, SeeRoot(Head(todo))
    PROVE  FactsInv' /\ QuietInv'
<1>1. /\ Head(todo).see = "root"
      /\ UNCHANGED <<fd, base, read, part, inodes, path, root, edits, operation>>
    BY DEF SeeRoot, Refuse, binding, Same, world
<1>2. Facts \subseteq Facts'
    BY <1>1, FactsStay
<1>3. \/ rootBase' = root /\ Advance(read["writer"])
      \/ root # rootBase /\ Refuse("reader", "unstable")
      \/ Refuse("reader", "neighbour")
    BY DEF SeeRoot
<1>4. CASE rootBase' = root /\ Advance(read["writer"])
    <2>1. Gives(Head(todo)) \subseteq Facts'
        BY <1>1 DEF Gives, GivesFact
    <2>2. \A s2 \in Sides : \A l2 \in Ledgers : part'[s2][l2] = <<>>
        BY <1>1, NoPart
    <2> QED BY <1>1, <1>2, <1>4, <2>1, <2>2, AdvanceFacts, AdvanceQuiet
<1>5. CASE root # rootBase /\ Refuse("reader", "unstable")
    <2>1. edits # 0
        BY <1>5 DEF QuietInv
    <2> QED BY <1>1, <1>2, <1>5, <2>1, RefuseFacts, RefuseQuiet
<1>6. CASE Refuse("reader", "neighbour")
    BY <1>1, <1>2, <1>6, RefuseFacts, RefuseQuiet
<1> QED BY <1>3, <1>4, <1>5, <1>6

LEMMA SeeAgreementFacts ==
    ASSUME ControlInv, DataInv, PartInv, FactsInv, QuietInv, todo # <<>>, SeeAgreement(Head(todo))
    PROVE  FactsInv' /\ QuietInv'
<1>1. /\ Head(todo).see = "agree"
      /\ UNCHANGED <<fd, base, read, part, rootBase, inodes, path, root, edits, operation>>
    BY DEF SeeAgreement, Refuse, binding, Same, world
<1>2. Facts \subseteq Facts'
    BY <1>1, FactsStay
<1>3. \/ Advance(read["writer"])
      \/ ~(base["reader"] = base["writer"] /\ read["reader"] = read["writer"]) /\ Refuse("reader", "unstable")
    BY DEF SeeAgreement
<1>4. CASE Advance(read["writer"])
    <2>1. Gives(Head(todo)) \subseteq Facts'
        BY <1>1 DEF Gives, GivesFact
    <2>2. \A s2 \in Sides : \A l2 \in Ledgers : part'[s2][l2] = <<>>
        BY <1>1, NoPart
    <2> QED BY <1>1, <1>2, <1>4, <2>1, <2>2, AdvanceFacts, AdvanceQuiet
<1>5. CASE /\ ~(base["reader"] = base["writer"] /\ read["reader"] = read["writer"])
           /\ Refuse("reader", "unstable")
    <2>1. ASSUME edits = 0 PROVE FALSE
        <3>1. \A s \in Sides : \A l \in Ledgers :
                 NeedsFact(Head(todo), "base", s, l) /\ NeedsFact(Head(todo), "read", s, l)
            BY <1>1 DEF NeedsFact
        <3>2. \A s \in Sides : \A l \in Ledgers :
                 base[s][l] = Identity(path[l]) /\ read[s][l] = inodes[path[l]].rows
            BY <2>1, <3>1, HeadKnows DEF Known
        <3>3. base["reader"] = base["writer"]
            BY <3>2 DEF DataInv, Sides
        <3>4. read["reader"] = read["writer"]
            BY <3>2 DEF DataInv, Sides
        <3> QED BY <1>5, <3>3, <3>4
    <2> QED BY <1>1, <1>2, <1>5, <2>1, RefuseFacts, RefuseQuiet
<1> QED BY <1>3, <1>4, <1>5

LEMMA ReadRowFacts ==
    ASSUME ControlInv, DataInv, PartInv, FactsInv, QuietInv, todo # <<>>, ReadRow(Head(todo))
    PROVE  FactsInv' /\ QuietInv'
<1> DEFINE look == Head(todo)
           s == look.side
<1>1. look \in LegalLooks /\ s \in Sides /\ look.of \in SUBSET Ledgers /\ look.see = "rows"
    BY HeadIsLegal DEF ReadRow
<1>2. UNCHANGED <<inodes, path, root, edits, operation>>
    BY DEF ReadRow, Same, world
<1>3. PICK l \in look.of :
         LET n == Len(part[s][l]) + 1
         IN  /\ n <= base[s][l].size
             /\ IF n > Len(inodes[fd[s][l]].rows)
                   THEN Refuse(s, "unstable")
                   ELSE /\ part' = [part EXCEPT ![s][l] = Append(@, inodes[fd[s][l]].rows[n])]
                        /\ UNCHANGED <<todo, fd, base, read, rootBase, outcome>>
    BY DEF ReadRow
<1>4. UNCHANGED <<fd, base, read>>
    BY <1>3 DEF Refuse, binding
<1>5. Facts \subseteq Facts'
    BY <1>2, <1>4, FactsStay
<1> DEFINE taken == part[s][l]
           rows == inodes[fd[s][l]].rows
           size == base[s][l].size
<1>6. taken \in Seq(Below(fresh)) /\ Len(taken) \in Nat /\ rows \in Seq(Below(fresh)) /\ Len(rows) \in Nat
    <2>1. fd[s][l] \in 1 .. Len(inodes)
        BY <1>1, FdIsOpen
    <2>2. taken \in Seq(Below(fresh))
        BY <1>1 DEF DataInv
    <2> QED BY <2>1, <2>2, IdentityIsTyped, LenProperties
<1>7. ASSUME edits = 0 PROVE fd[s][l] = path[l] /\ size = Len(rows)
    <2>1. NeedsFact(look, "base", s, l) /\ NeedsFact(look, "fd", s, l)
        BY <1>1 DEF NeedsFact
    <2>2. l \in Ledgers
        BY <1>1
    <2>3. base[s][l] = Identity(path[l]) /\ fd[s][l] = path[l]
        BY <1>1, <1>7, <2>1, <2>2, HeadKnows DEF Known
    <2> QED BY <2>3 DEF Identity
<1>8. Len(taken) + 1 <= size
    BY <1>3
<1>9. CASE Len(taken) + 1 > Len(rows) /\ Refuse(s, "unstable")
    <2>1. edits # 0
        <3>1. edits = 0 => Len(taken) + 1 <= Len(rows) /\ Len(taken) + 1 > Len(rows)
            BY <1>7, <1>8, <1>9
        <3> HIDE DEF taken, rows
        <3> QED BY <1>6, <3>1
    <2> QED BY <1>1, <1>2, <1>5, <1>9, <2>1, RefuseFacts, RefuseQuiet
<1>10. CASE /\ ~(Len(taken) + 1 > Len(rows))
            /\ part' = [part EXCEPT ![s][l] = Append(@, rows[Len(taken) + 1])]
            /\ UNCHANGED <<todo, rootBase, mode, refused>>
    <2>1. FactsInv'
        BY <1>2, <1>5, <1>10, StillFacts
    <2> DEFINE row == rows[Len(taken) + 1]
               grown == Append(taken, row)
    <2>2. Len(taken) + 1 \in 1 .. Len(rows)
        <3>1. ~(Len(taken) + 1 > Len(rows))
            BY <1>10
        <3> HIDE DEF taken, rows
        <3> QED BY <1>6, <3>1
    <2>3. row \in Below(fresh)
        BY <1>6, <2>2, ElementOfSeq
    <2>4. /\ grown \in Seq(Below(fresh)) /\ Len(grown) = Len(taken) + 1 /\ grown[Len(taken) + 1] = row
          /\ \A n \in 1 .. Len(taken) : grown[n] = taken[n]
        <3> HIDE DEF taken, row
        <3> QED BY <1>6, <2>3, AppendProperties
    <2>5. /\ part'[s][l] = grown
          /\ \A s2 \in Sides : \A l2 \in Ledgers : s2 # s \/ l2 # l => part'[s2][l2] = part[s2][l2]
        <3> DEFINE T == Seq(Below(fresh))
        <3>1. part \in [Sides -> [Ledgers -> T]] /\ grown \in T /\ part' = [part EXCEPT ![s][l] = grown]
            BY <1>10, <2>4 DEF DataInv
        <3>2. l \in Ledgers
            BY <1>1
        <3> HIDE DEF T, grown, s
        <3> QED BY <1>1, <3>1, <3>2, NestedExcept
    <2>6. ASSUME edits = 0, NEW l2 \in look.of
          PROVE  LET rows2 == inodes'[path'[l2]].rows
                     taken2 == part'[s][l2]
                 IN  Len(taken2) <= Len(rows2) /\ \A n \in 1 .. Len(taken2) : taken2[n] = rows2[n]
        <3>1. /\ Len(part[s][l2]) <= Len(inodes[path[l2]].rows)
              /\ \A n \in 1 .. Len(part[s][l2]) : part[s][l2][n] = inodes[path[l2]].rows[n]
            BY <1>1, <2>6 DEF QuietInv
        <3>2. CASE l2 # l
            <4>1. part'[s][l2] = part[s][l2]
                BY <1>1, <2>5, <3>2
            <4> QED BY <1>2, <3>1, <4>1
        <3>3. CASE l2 = l
            <4>1. inodes'[path'[l2]].rows = rows /\ part'[s][l2] = grown
                BY <1>2, <1>7, <2>5, <2>6, <3>3
            <4>2. \A n \in 1 .. Len(taken) : taken[n] = rows[n]
                BY <1>7, <2>6, <3>1, <3>3
            <4>3. Len(grown) <= Len(rows) /\ \A n \in 1 .. Len(grown) : grown[n] = rows[n]
                <5>1. grown[Len(taken) + 1] = rows[Len(taken) + 1]
                    BY <2>4
                <5> HIDE DEF taken, rows, grown
                <5> QED BY <1>6, <2>2, <2>4, <4>2, <5>1
            <4> QED BY <4>1, <4>3
        <3> QED BY <3>2, <3>3
    <2>7. QuietInv'
        <3>0. Head(todo') = look /\ look.see = "rows" /\ look.side = s
            BY <1>1, <1>10
        <3> SUFFICES ASSUME edits' = 0
                     PROVE  /\ root' = 0 /\ rootBase' = 0 /\ refused' # "unstable"
                            /\ \A l2 \in look.of :
                                 LET rows2 == inodes'[path'[l2]].rows
                                     taken2 == part'[s][l2]
                                 IN  Len(taken2) <= Len(rows2) /\ \A n \in 1 .. Len(taken2) : taken2[n] = rows2[n]
            <4> HIDE DEF look, s
            <4> QED BY <3>0 DEF QuietInv
        <3>1. edits = 0
            BY <1>2
        <3>2. root' = 0 /\ rootBase' = 0 /\ refused' # "unstable"
            BY <1>2, <1>10, <3>1 DEF QuietInv
        <3> QED BY <2>6, <3>1, <3>2
    <2> QED BY <2>1, <2>7
<1> QED BY <1>3, <1>9, <1>10 DEF outcome

LEMMA FinishPassFacts ==
    ASSUME ControlInv, DataInv, PartInv, FactsInv, QuietInv, todo # <<>>, FinishPass(Head(todo))
    PROVE  FactsInv' /\ QuietInv'
<1> DEFINE look == Head(todo)
           s == look.side
           new == [l \in Ledgers |-> IF l \in look.of THEN part[s][l] ELSE read[s][l]]
<1>1. look \in LegalLooks /\ s \in Sides /\ look.of \in SUBSET Ledgers /\ look.see = "rows"
    BY HeadIsLegal DEF FinishPass
<1>2. UNCHANGED <<inodes, path, root, edits, operation, fd, base, rootBase>>
    BY DEF FinishPass, Refuse, binding, Same, world
<1>3. \A l \in look.of : Len(part[s][l]) = base[s][l].size
    BY DEF FinishPass
<1>4. \/ /\ read' = [read EXCEPT ![s] = new] /\ part' = [part EXCEPT ![s] = Nothing]
         /\ Advance(read'[s])
      \/ /\ ~(look.bind = "new" \/ \A l \in look.of : part[s][l] = read[s][l])
         /\ Refuse(s, "unstable")
    BY <1>1 DEF FinishPass, DataInv
<1>5. ASSUME edits = 0, NEW l \in look.of
      PROVE  /\ part[s][l] = inodes[path[l]].rows
             /\ look.bind # "new" => part[s][l] = read[s][l]
    <2>0. l \in Ledgers /\ path[l] \in 1 .. Len(inodes)
        BY <1>1 DEF DataInv
    <2>1. NeedsFact(look, "base", s, l) /\ (look.bind # "new" => NeedsFact(look, "read", s, l))
        BY <1>1 DEF NeedsFact, LegalLooks, AnyLook
    <2>2. base[s][l] = Identity(path[l])
        BY <1>1, <1>5, <2>0, <2>1, HeadKnows DEF Known
    <2>3. look.bind # "new" => read[s][l] = inodes[path[l]].rows
        BY <1>1, <1>5, <2>0, <2>1, HeadKnows DEF Known
    <2>4. Len(part[s][l]) = Len(inodes[path[l]].rows)
        BY <1>3, <2>2 DEF Identity
    <2>5. \A n \in 1 .. Len(part[s][l]) : part[s][l][n] = inodes[path[l]].rows[n]
        BY <1>1, <1>5 DEF QuietInv
    <2>6. part[s][l] \in Seq(Below(fresh)) /\ inodes[path[l]].rows \in Seq(Below(fresh))
        BY <1>1, <2>0, IdentityIsTyped DEF DataInv
    <2>7. part[s][l] = inodes[path[l]].rows
        BY <2>4, <2>5, <2>6, SeqEqual
    <2> QED BY <2>3, <2>7
<1>6. CASE /\ read' = [read EXCEPT ![s] = new] /\ part' = [part EXCEPT ![s] = Nothing]
           /\ Advance(read'[s])
    <2>1. read'[s] = new /\ \A s2 \in Sides : s2 # s => read'[s2] = read[s2]
        BY <1>1, <1>6 DEF DataInv
    <2>2. ASSUME NEW s2 \in Sides, NEW l2 \in Ledgers, read'[s2][l2] # read[s2][l2], edits = 0
          PROVE  read'[s2][l2] = inodes[path[l2]].rows
        <3>1. s2 = s /\ l2 \in look.of /\ read'[s2][l2] = part[s][l2]
            BY <2>1, <2>2
        <3> QED BY <1>5, <2>2, <3>1
    <2>3. Facts \subseteq Facts'
        BY <1>2, <2>2, FactsStay
    <2>4. Gives(look) \subseteq Facts'
        <3> SUFFICES ASSUME NEW what \in {"fd", "base", "read"}, NEW s2 \in Sides, NEW l2 \in Ledgers,
                            GivesFact(look, what, s2, l2)
                     PROVE  Known(what, s2, l2)'
            BY GivesKnown
        <3>1. what = "read" /\ s2 = s /\ l2 \in look.of
            BY <1>1 DEF GivesFact
        <3>2. edits = 0 => read'[s2][l2] = inodes[path[l2]].rows
            BY <1>5, <2>1, <3>1
        <3> QED BY <1>2, <3>1, <3>2 DEF Known
    <2>5. \A s2 \in Sides : \A l2 \in Ledgers : part'[s2][l2] = <<>>
        <3>1. \A l2 \in Ledgers : part'[s][l2] = <<>>
            BY <1>1, <1>6 DEF DataInv, Nothing
        <3>2. \A s2 \in Sides : s2 # s => \A l2 \in Ledgers : part'[s2][l2] = <<>>
            BY <1>6 DEF DataInv, PartInv
        <3> QED BY <3>1, <3>2
    <2>6. FactsInv'
        BY <1>2, <1>6, <2>3, <2>4, AdvanceFacts
    <2>7. QuietInv'
        BY <1>1, <1>2, <1>6, <2>5, AdvanceQuiet
    <2> QED BY <2>6, <2>7
<1>7. CASE /\ ~(look.bind = "new" \/ \A l \in look.of : part[s][l] = read[s][l])
           /\ Refuse(s, "unstable")
    <2>1. edits # 0
        BY <1>5, <1>7
    <2>2. UNCHANGED read
        BY <1>7 DEF Refuse, binding
    <2>3. Facts \subseteq Facts'
        BY <1>2, <2>2, FactsStay
    <2> QED BY <1>1, <1>2, <1>7, <2>1, <2>3, RefuseFacts, RefuseQuiet
<1> QED BY <1>4, <1>6, <1>7

LEMMA SeeGrownFacts ==
    ASSUME ControlInv, DataInv, PartInv, FactsInv, QuietInv, todo # <<>>, SeeGrown(Head(todo))
    PROVE  FactsInv' /\ QuietInv'
<1> DEFINE look == Head(todo)
<1>1. look \in LegalLooks /\ look.see = "grown" /\ look.side = "writer" /\ "writer" \in Sides
    BY HeadIsLegal DEF SeeGrown, LegalLooks, Sides
<1>2. PICK l \in Ledgers : look.of = {l}
    BY <1>1, OneLedger
<1> DEFINE id == Identity(fd["writer"][l])
           whole == read["writer"][l] \o part["writer"][l]
<1>3. UNCHANGED <<inodes, path, root, edits, operation>>
    BY DEF SeeGrown, Same, world
<1>4. \/ /\ base' = [base EXCEPT !["writer"][l] = id]
         /\ read' = [read EXCEPT !["writer"][l] = whole]
         /\ part' = [part EXCEPT !["writer"] = Nothing]
         /\ Advance(read["writer"])
         /\ UNCHANGED <<fd, rootBase>>
      \/ /\ ~(id.inode = base["writer"][l].inode /\ id.size = base["writer"][l].size + 1)
         /\ Refuse("writer", "unstable")
    BY <1>2 DEF SeeGrown, DataInv
<1>5. fd["writer"][l] \in 1 .. Len(inodes) /\ (edits = 0 => fd["writer"][l] = path[l])
    BY <1>1, <1>2, FdIsOpen DEF Known
<1>6. edits = 0 => Growing(l)
    BY <1>1, <1>2 DEF QuietInv
<1>7. CASE /\ base' = [base EXCEPT !["writer"][l] = id]
           /\ read' = [read EXCEPT !["writer"][l] = whole]
           /\ part' = [part EXCEPT !["writer"] = Nothing]
           /\ Advance(read["writer"])
           /\ UNCHANGED <<fd, rootBase>>
    <2>1. /\ base'["writer"][l] = id
          /\ \A s2 \in Sides : \A l2 \in Ledgers : s2 # "writer" \/ l2 # l => base'[s2][l2] = base[s2][l2]
        <3> DEFINE T == Identities
        <3>1. base \in [Sides -> [Ledgers -> T]] /\ id \in T /\ base' = [base EXCEPT !["writer"][l] = id]
            BY <1>5, <1>7, IdentityIsTyped DEF DataInv
        <3> HIDE DEF T, id
        <3> QED BY <1>1, <3>1, NestedExcept
    <2>2. /\ read'["writer"][l] = whole
          /\ \A s2 \in Sides : \A l2 \in Ledgers : s2 # "writer" \/ l2 # l => read'[s2][l2] = read[s2][l2]
        <3> DEFINE T == Seq(Below(fresh))
        <3>1. read \in [Sides -> [Ledgers -> T]] /\ whole \in T /\ read' = [read EXCEPT !["writer"][l] = whole]
            BY <1>1, <1>7, ConcatProperties DEF DataInv
        <3> HIDE DEF T, whole
        <3> QED BY <1>1, <3>1, NestedExcept
    <2>3. edits = 0 => id = Identity(path[l]) /\ whole = inodes[path[l]].rows
        BY <1>5, <1>6 DEF Growing
    <2> HIDE DEF id, whole
    <2>4. \A s2 \in Sides : \A l2 \in Ledgers :
             /\ fd'[s2][l2] = fd[s2][l2]
             /\ base'[s2][l2] # base[s2][l2] => (edits = 0 => base'[s2][l2] = Identity(path[l2]))
             /\ read'[s2][l2] # read[s2][l2] => (edits = 0 => read'[s2][l2] = inodes[path[l2]].rows)
        BY <1>7, <2>1, <2>2, <2>3
    <2>5. Facts \subseteq Facts'
        BY <1>3, <2>4, FactsStay
    <2>6. Gives(look) \subseteq Facts'
        <3> SUFFICES ASSUME NEW what \in {"fd", "base", "read"}, NEW s2 \in Sides, NEW l2 \in Ledgers,
                            GivesFact(look, what, s2, l2)
                     PROVE  Known(what, s2, l2)'
            BY GivesKnown
        <3>1. what \in {"base", "read"} /\ s2 = "writer" /\ l2 = l
            BY <1>1, <1>2 DEF GivesFact
        <3>2. Identity(path[l])' = Identity(path[l])
            BY <1>3 DEF Identity
        <3>3. CASE what = "base"
            BY <1>3, <2>1, <2>3, <3>1, <3>2, <3>3 DEF Known
        <3>4. CASE what = "read"
            BY <1>3, <2>2, <2>3, <3>1, <3>4 DEF Known
        <3> QED BY <3>1, <3>3, <3>4
    <2>7. \A s2 \in Sides : \A l2 \in Ledgers : part'[s2][l2] = <<>>
        <3>1. \A l2 \in Ledgers : part'["writer"][l2] = <<>>
            BY <1>1, <1>7 DEF DataInv, Nothing
        <3>2. \A s2 \in Sides : s2 # "writer" => \A l2 \in Ledgers : part'[s2][l2] = <<>>
            BY <1>1, <1>7 DEF DataInv, PartInv
        <3> QED BY <3>1, <3>2
    <2>8. FactsInv'
        BY <1>3, <1>7, <2>5, <2>6, AdvanceFacts
    <2>9. QuietInv'
        BY <1>1, <1>3, <1>7, <2>7, AdvanceQuiet
    <2> QED BY <2>8, <2>9
<1>8. CASE /\ ~(id.inode = base["writer"][l].inode /\ id.size = base["writer"][l].size + 1)
           /\ Refuse("writer", "unstable")
    <2>1. ASSUME edits = 0 PROVE FALSE
        <3>1. /\ base["writer"][l].inode = path[l]
              /\ base["writer"][l].size + 1 = Len(inodes[path[l]].rows)
            BY <1>6, <2>1 DEF Growing
        <3>2. id.inode = path[l] /\ id.size = Len(inodes[path[l]].rows)
            BY <1>5, <2>1 DEF Identity
        <3> QED BY <1>8, <3>1, <3>2
    <2> QED BY <1>3, <1>8, <2>1, RefuseFacts, RefuseQuiet
<1> QED BY <1>4, <1>7, <1>8

LEMMA NextToLast ==
    ASSUME NEW q \in Seq(LegalLooks), Len(q) \in Nat \ {0}, GrowthLast(q), q[1].see = "write"
    PROVE  Len(q) = 2
<1> DEFINE n == Len(q)
<1>1. \A k \in 1 .. n : q[k].see = "write" => k + 1 = n
    BY DEF GrowthLast
<1>2. n \in Nat \ {0}
    OBVIOUS
<1> HIDE DEF n
<1>3. n = 2
    BY <1>1, <1>2
<1> QED BY <1>3 DEF n

(* A write is the next to last look: only the look at the grown file follows.  *)
LEMMA GrowthFollows ==
    ASSUME ControlInv, todo # <<>>, Head(todo).see = "write"
    PROVE  /\ operation \notin Reading /\ Len(Tail(todo)) = 1 /\ Tail(todo) # <<>>
           /\ LET next == Head(Tail(todo)) IN
                 /\ next = Tail(todo)[1] /\ next \in LegalLooks /\ next.see = "grown"
                 /\ next.side = "writer" /\ next.of = Head(todo).of
<1> DEFINE q == todo
           t == Tail(todo)
<1>1. /\ q \in Seq(LegalLooks) /\ GrowthLast(q) /\ q # <<>>
      /\ t \in Seq(LegalLooks) /\ Len(t) = Len(q) - 1 /\ Len(q) \in Nat \ {0} /\ Head(q) = q[1]
    BY HeadTailProperties, EmptySeq DEF ControlInv
<1>2. t # <<>> /\ Head(t).see = "grown" /\ Head(t).of = Head(q).of
    BY <1>1, TailOfGrowth
<1>3. Len(q) = 2
    <2>1. q[1].see = "write"
        BY <1>1
    <2> HIDE DEF q
    <2> QED BY <1>1, <2>1, NextToLast
<1>4. operation \notin Reading
    BY HeadIsLegal DEF CalmLooks
<1>5. Head(t) \in LegalLooks /\ Head(t) = t[1]
    BY <1>1, <1>2, HeadTailProperties
<1>6. Head(t).side = "writer"
    BY <1>2, <1>5 DEF LegalLooks
<1> HIDE DEF q
<1> QED BY <1>1, <1>2, <1>3, <1>4, <1>5, <1>6 DEF q

(* A write takes from its ledger what the side knew of it; the look at the     *)
(* grown file gives it back.                                                   *)
LEMMA WriteRowFacts ==
    ASSUME ControlInv, DataInv, PartInv, FactsInv, QuietInv, todo # <<>>,
           NEW lands \in BOOLEAN, NEW succeeds \in BOOLEAN, WriteRow(Head(todo), lands, succeeds)
    PROVE  FactsInv' /\ QuietInv'
<1> DEFINE look == Head(todo)
           next == Head(Tail(todo))
<1>1. look.see = "write" /\ look.side = "writer" /\ "writer" \in Sides
    BY WriteIs DEF Sides
<1>2. PICK l \in Ledgers :
         /\ look.of = {l} /\ fd["writer"][l] \in 1 .. Len(inodes)
         /\ IF lands
               THEN /\ inodes' = Replaced(fd["writer"][l], Append(inodes[fd["writer"][l]].rows, fresh))
                    /\ fresh' = fresh + 1
               ELSE inodes' = inodes /\ fresh' = fresh
         /\ \/ /\ lands /\ Advance(read["writer"])
               /\ part' = [part EXCEPT !["writer"][l] = <<fresh>>]
               /\ UNCHANGED <<fd, base, read, rootBase>>
            \/ Refuse("writer", "io_error")
    BY WriteIs
<1>3. UNCHANGED <<path, root, operation, edits>>
    BY WriteIs
<1>4. CASE Refuse("writer", "io_error")
    BY <1>3, <1>4, RefuseFacts, RefuseQuiet
<1>5. CASE /\ lands /\ Advance(read["writer"])
           /\ part' = [part EXCEPT !["writer"][l] = <<fresh>>]
           /\ UNCHANGED <<fd, base, read, rootBase>>
    <2> DEFINE i == fd["writer"][l]
               old == inodes[i].rows
               rows == Append(old, fresh)
    <2>1. /\ todo' = Tail(todo) /\ todo' # <<>> /\ Len(todo') = 1 /\ Head(todo') = next /\ todo'[1] = next
          /\ next.see = "grown" /\ next.side = "writer" /\ next.of = {l} /\ operation \notin Reading
        BY <1>1, <1>2, <1>5, GrowthFollows DEF Advance
    <2>2. UNCHANGED <<mode, refused>>
        BY <1>5, <2>1 DEF Advance
    <2>3. /\ i \in 1 .. Len(inodes) /\ old \in Seq(Below(fresh)) /\ Len(old) \in Nat /\ Len(inodes) \in Nat
          /\ fresh \in Nat
        BY <1>2, IdentityIsTyped, LenProperties DEF DataInv
    <2>4. /\ rows \in Seq(Below(fresh + 1)) /\ Len(rows) = Len(old) + 1 /\ rows = old \o <<fresh>>
        <3>1. old \in Seq(Below(fresh + 1)) /\ fresh \in Below(fresh + 1)
            BY <2>3, LaterRows DEF Below
        <3> HIDE DEF old
        <3> QED BY <3>1, AppendProperties, AppendIsConcat
    <2>5. inodes'[i].rows = rows /\ \A j \in 1 .. Len(inodes) : j # i => inodes'[j] = inodes[j]
        <3>1. inodes' = Replaced(i, rows)
            BY <1>2, <1>5
        <3> HIDE DEF i, rows
        <3>2. inodes'[i] = [rows |-> rows, stamp |-> now] /\ \A j \in 1 .. Len(inodes) : j # i => inodes'[j] = inodes[j]
            <4>1. i \in 1 .. Len(inodes) /\ rows \in Seq(Below(fresh + 1))
                BY <2>3, <2>4
            <4> QED BY <3>1, <4>1, FilesChange
        <3> QED BY <3>2
    <2>6. \A what \in {"fd", "base", "read"} : Known(what, "writer", l)
        <3> SUFFICES ASSUME NEW what \in {"fd", "base", "read"} PROVE NeedsFact(look, what, "writer", l)
            BY <1>1, HeadKnows
        <3> QED BY <1>1, <1>2 DEF NeedsFact
    <2>7. Known("fd", "writer", l)'
        BY <1>3, <1>5, <2>6 DEF Known
    <2>8. ASSUME edits = 0
          PROVE  /\ i = path[l] /\ base["writer"][l].inode = i /\ base["writer"][l].size = Len(old)
                 /\ read["writer"][l] = old
        <3>1. i = path[l] /\ base["writer"][l] = Identity(i) /\ read["writer"][l] = old
            BY <2>6, <2>8 DEF Known
        <3> QED BY <3>1 DEF Identity
    <2>9. Needs(next) \subseteq Facts'
        <3>1. ASSUME NEW f \in Needs(next) PROVE f \in Facts'
            <4>1. f \in AllFacts /\ NeedsFact(next, f[1], f[2], f[3])
                BY <3>1 DEF Needs
            <4>2. f[1] = "fd" /\ f[2] = "writer" /\ f[3] = l
                BY <2>1, <4>1 DEF NeedsFact
            <4>3. Known(f[1], f[2], f[3])'
                BY <2>7, <4>2
            <4> QED BY <4>1, <4>3 DEF Facts
        <3> QED BY <3>1
    <2>10. Takes(Facts', todo', {})
        <3> DEFINE F2 == Facts'
                   t2 == todo'
        <3>1. Len(t2) = 1 /\ t2[1] = next /\ Needs(next) \subseteq F2
            BY <2>1, <2>9
        <3> HIDE DEF F2, t2, next
        <3>2. \A k \in 1 .. Len(t2) : k = 1
            BY <3>1
        <3>3. Takes(F2, t2, {})
            BY <3>1, <3>2 DEF Takes
        <3> QED BY <3>3 DEF F2, t2
    <2>11. ASSUME mode = "open" PROVE Owned("writer") \subseteq Facts' \cup Pending'
        <3>1. Owned("writer") \subseteq Facts
            BY <1>1, <2>11 DEF FactsInv, Pending
        <3>2. ASSUME NEW what \in {"fd", "base", "read"}, NEW m \in Ledgers
              PROVE  Known(what, "writer", m)' \/ GivesFact(next, what, "writer", m)
            <4>1. Known(what, "writer", m)
                <5> DEFINE f == <<what, "writer", m>>
                <5>1. f \in Owned("writer") /\ f[1] = what /\ f[2] = "writer" /\ f[3] = m
                    BY DEF Owned
                <5> QED BY <3>1, <5>1 DEF Facts
            <4>2. CASE what = "fd"
                BY <1>3, <1>5, <4>1, <4>2 DEF Known
            <4>3. CASE m = l /\ what # "fd"
                BY <2>1, <4>3 DEF GivesFact
            <4>4. CASE m # l /\ what # "fd"
                <5>1. edits = 0 => inodes'[path[m]] = inodes[path[m]]
                    <6>1. path[m] # path[l] /\ path[m] \in 1 .. Len(inodes)
                        BY <4>4 DEF DataInv, Ledgers
                    <6> QED BY <2>5, <2>8, <6>1
                <5>2. edits = 0 => Identity(path[m])' = Identity(path[m])
                    BY <1>3, <5>1 DEF Identity
                <5>3. CASE what = "base"
                    BY <1>3, <1>5, <4>1, <5>2, <5>3 DEF Known
                <5>4. CASE what = "read"
                    BY <1>3, <1>5, <4>1, <5>1, <5>4 DEF Known
                <5> QED BY <4>4, <5>3, <5>4
            <4> QED BY <4>2, <4>3, <4>4
        <3>3. Pending' = Gives(next)
            BY <2>1 DEF Pending
        <3>4. ASSUME NEW f \in Owned("writer") PROVE f \in Facts' \cup Gives(next)
            <4>1. f \in AllFacts /\ f[1] \in {"fd", "base", "read"} /\ f[2] = "writer" /\ f[3] \in Ledgers
                BY <1>1 DEF Owned, AllFacts
            <4>2. Known(f[1], f[2], f[3])' \/ GivesFact(next, f[1], f[2], f[3])
                BY <3>2, <4>1
            <4> QED BY <4>1, <4>2 DEF Facts, Gives
        <3> QED BY <3>3, <3>4
    <2>12. operation # "session"
        BY <2>1 DEF Reading
    <2>13. FactsInv'
        BY <1>3, <2>2, <2>10, <2>11, <2>12 DEF FactsInv
    <2>14. edits = 0 => Growing(l)'
        <3>1. part'["writer"][l] = <<fresh>>
            BY <1>1, <1>5 DEF DataInv
        <3> HIDE DEF old, i, rows
        <3> QED BY <1>3, <1>5, <2>4, <2>5, <2>8, <3>1 DEF Growing
    <2>15. QuietInv'
        <3>1. edits = 0 => root' = 0 /\ rootBase' = 0 /\ refused' # "unstable"
            BY <1>3, <1>5, <2>2 DEF QuietInv
        <3>2. Head(todo').see = "grown" /\ Head(todo').of = {l}
            BY <2>1
        <3> HIDE DEF next
        <3> QED BY <1>3, <2>14, <3>1, <3>2 DEF QuietInv
    <2> QED BY <2>13, <2>15
<1> QED BY <1>2, <1>4, <1>5

LEMMA StepFacts ==
    ASSUME ControlInv, DataInv, PartInv, FactsInv, QuietInv, Step
    PROVE  FactsInv' /\ QuietInv'
<1>0. todo # <<>>
    BY DEF Step
<1>1. ASSUME NEW lands \in BOOLEAN, NEW succeeds \in BOOLEAN, WriteRow(Head(todo), lands, succeeds)
      PROVE  FactsInv' /\ QuietInv'
    BY <1>0, <1>1, WriteRowFacts
<1> QED BY <1>0, <1>1, SeeIdentityFacts, OpenFileFacts, ReadRowFacts, FinishPassFacts, SeeRootFacts,
           SeeAgreementFacts, SeeGrownFacts DEF Step

LEMMA NoScriptBeginsGrown ==
    ASSUME NEW name \in DOMAIN Scripts, Scripts[name] # <<>>
    PROVE  Head(Scripts[name]).see # "grown" /\ Head(Scripts[name]) \in LegalLooks
<1>0. Scripts[name] \in Seq(LegalLooks) /\ Head(Scripts[name]) \in LegalLooks
    BY ScriptsAreLegal, HeadTailProperties
<1>1. CASE name \in Reading
    <2>1. Head(Scripts[name]) \in CalmLooks
        BY <1>1, ScriptsAreLegal, HeadTailProperties
    <2> QED BY <1>0, <2>1 DEF CalmLooks
<1>2. ASSUME NEW l \in Ledgers, Scripts[name] = AppendTo(l)
      PROVE  Head(Scripts[name]).see # "grown"
    <2> DEFINE p == Recheck
               q == << Stat("write", "writer", l), Stat("grown", "writer", l) >>
    <2>1. p \in Seq(LegalLooks) /\ q \in Seq(LegalLooks)
        BY RecheckIsLegal, KeepingIsCalm, CalmHasNoGrowth, GrowthIsLegal
    <2>2. Len(p) = 4 /\ Len(q) = 2 /\ p[1] = Stat("fd", "writer", "events")
        BY DEF Recheck
    <2>3. Scripts[name] = p \o q
        BY <1>2 DEF AppendTo
    <2> HIDE DEF p, q
    <2>4. (p \o q)[1] = p[1] /\ Len(p \o q) = 6 /\ p \o q \in Seq(LegalLooks)
        <3>1. /\ p \o q \in Seq(LegalLooks) /\ Len(p \o q) = Len(p) + Len(q)
              /\ \A i \in 1 .. Len(p) + Len(q) : (p \o q)[i] = IF i <= Len(p) THEN p[i] ELSE q[i - Len(p)]
            BY <2>1, ConcatProperties
        <3>2. 1 \in 1 .. Len(p) + Len(q) /\ 1 <= Len(p)
            BY <2>2
        <3> QED BY <2>2, <3>1, <3>2
    <2>5. Head(p \o q) = p[1]
        BY <2>4, EmptySeq, HeadTailProperties
    <2> QED BY <2>2, <2>3, <2>5 DEF Stat, Look
<1>3. CASE name = "append_event"
    BY <1>0, <1>2, <1>3 DEF Scripts, Ledgers
<1>4. CASE name = "append_raw"
    BY <1>0, <1>2, <1>4 DEF Scripts, Ledgers
<1> QED BY <1>0, <1>1, <1>3, <1>4 DEF Scripts, Reading

LEMMA BeginFacts ==
    ASSUME ControlInv, DataInv, FactsInv, QuietInv, NEW name \in DOMAIN Scripts, Begin(name)
    PROVE  FactsInv' /\ QuietInv'
<1>1. /\ todo = <<>> /\ operation' = name /\ todo' = Scripts[name] /\ refused' = "no"
      /\ mode = IF name \in {"verify", "session"} THEN "none" ELSE "open"
      /\ part' = [s \in Sides |-> Nothing]
      /\ UNCHANGED <<inodes, path, root, fd, base, read, rootBase, mode, edits>>
    BY DEF Begin, world
<1>2. Facts \subseteq Facts'
    BY <1>1, FactsStay
<1>3. mode = "open" => Owned("writer") \subseteq Facts'
    <2>1. mode = "open" => Owned("writer") \subseteq Facts
        BY <1>1 DEF FactsInv, Pending
    <2> QED BY <1>2, <2>1
<1>4. Takes(Facts', todo', IF name = "session" THEN Owned("writer") ELSE {})
    <2> DEFINE F == IF name \in {"verify", "session"} THEN {} ELSE Owned("writer")
               F2 == Facts'
               q == Scripts[name]
               G == IF name = "session" THEN Owned("writer") ELSE {}
    <2>1. F \subseteq F2
        BY <1>1, <1>3
    <2>2. Takes(F, q, G)
        BY ScriptsTake
    <2> HIDE DEF F, F2, q, G
    <2>3. Takes(F2, q, G)
        BY <2>1, <2>2, TakesMore
    <2> QED BY <1>1, <2>3 DEF F2, q, G
<1>5. FactsInv'
    <2>1. mode' = "open" => Owned("writer") \subseteq Facts' \cup Pending'
        BY <1>1, <1>3
    <2> QED BY <1>1, <1>4, <2>1 DEF FactsInv
<1>6. \A s \in Sides : \A l \in Ledgers : part'[s][l] = <<>>
    BY <1>1 DEF Nothing
<1>7. todo' # <<>> => Head(todo').see # "grown" /\ Head(todo').side \in Sides /\ Head(todo').of \in SUBSET Ledgers
    <2>1. todo' # <<>> => Head(todo').see # "grown" /\ Head(todo') \in LegalLooks
        BY <1>1, NoScriptBeginsGrown
    <2> QED BY <2>1 DEF LegalLooks, AnyLook
<1>8. QuietInv'
    <2>1. ASSUME todo' # <<>>, NEW l \in Head(todo').of
          PROVE  LET rows2 == inodes'[path'[l]].rows
                     taken == part'[Head(todo').side][l]
                 IN  Len(taken) <= Len(rows2) /\ \A n \in 1 .. Len(taken) : taken[n] = rows2[n]
        <3>1. part'[Head(todo').side][l] = <<>>
            BY <1>6, <1>7, <2>1
        <3>2. path[l] \in 1 .. Len(inodes) /\ l \in Ledgers
            BY <1>7, <2>1 DEF DataInv
        <3>3. Len(inodes[path[l]].rows) \in Nat
            BY <3>2, IdentityIsTyped
        <3> QED BY <1>1, <3>1, <3>3
    <2>2. edits = 0 => root' = 0 /\ rootBase' = 0 /\ refused' # "unstable"
        BY <1>1 DEF QuietInv
    <2>3. edits' = edits
        BY <1>1
    <2> QED BY <1>7, <2>1, <2>2, <2>3 DEF QuietInv
<1> QED BY <1>5, <1>8

LEMMA EditFacts ==
    ASSUME DataInv, FactsInv, NEW l \in Ledgers, Edit(l)
    PROVE  FactsInv' /\ QuietInv'
<1>1. edits' = edits + 1 /\ UNCHANGED <<todo, mode, operation, fd>>
    BY EditIs
<1>2. edits' # 0
    BY <1>1 DEF DataInv
<1>3. Facts \subseteq Facts'
    <2>1. ASSUME NEW f \in Facts PROVE f \in Facts'
        <3>1. f \in AllFacts /\ Known(f[1], f[2], f[3])
            BY <2>1 DEF Facts
        <3>2. Known(f[1], f[2], f[3])'
            BY <1>1, <1>2, <3>1 DEF Known
        <3> QED BY <3>1, <3>2 DEF Facts
    <2> QED BY <2>1
<1> QED BY <1>1, <1>2, <1>3, StillFacts DEF QuietInv

LEMMA TickFacts ==
    ASSUME FactsInv, QuietInv, Tick
    PROVE  FactsInv' /\ QuietInv'
<1>1. UNCHANGED <<inodes, path, root, operation, todo, fd, base, read, part, rootBase, mode, refused, edits>>
    BY DEF Tick, binding, outcome
<1>2. Facts \subseteq Facts'
    BY <1>1, FactsStay
<1>3. FactsInv'
    BY <1>1, <1>2, StillFacts
<1>4. \A l : Growing(l)' = Growing(l)
    BY <1>1 DEF Growing
<1> QED BY <1>1, <1>3, <1>4 DEF QuietInv

LEMMA BesideFacts ==
    ASSUME FactsInv, QuietInv, Beside
    PROVE  FactsInv' /\ QuietInv'
<1>1. UNCHANGED <<inodes, path, root, operation, todo, fd, base, read, part, rootBase, mode, refused, edits>>
    BY DEF Beside, binding, outcome
<1>2. Facts \subseteq Facts'
    BY <1>1, FactsStay
<1>3. FactsInv'
    BY <1>1, <1>2, StillFacts
<1>4. \A l : Growing(l)' = Growing(l)
    BY <1>1 DEF Growing
<1> QED BY <1>1, <1>3, <1>4 DEF QuietInv

-----------------------------------------------------------------------------
(* What an operation accepts *)

LEMMA PrefixIs ==
    ASSUME NEW B, NEW s \in Seq(B), NEW t \in Seq(B), Len(s) <= Len(t),
           \A n \in 1 .. Len(s) : s[n] = t[n]
    PROVE  IsPrefix(s, t)
<1> DEFINE m == Len(s)
           a == SubSeq(s, 1, m)
           b == SubSeq(t, 1, m)
<1>1. m \in Nat /\ Len(t) \in Nat /\ m <= Len(t)
    BY LenProperties
<1>2. (\A i \in 1 .. m : s[i] \in B) /\ (\A i \in 1 .. m : t[i] \in B)
    <2>1. \A i \in 1 .. m : i \in 1 .. Len(t)
        BY <1>1
    <2> QED BY <2>1, ElementOfSeq
<1> HIDE DEF m
<1>3. /\ a \in Seq(B) /\ Len(a) = IF 1 <= m THEN m - 1 + 1 ELSE 0
      /\ \A i \in 1 .. m - 1 + 1 : a[i] = s[1 + i - 1]
    BY <1>1, <1>2, SubSeqProperties
<1>4. /\ b \in Seq(B) /\ Len(b) = IF 1 <= m THEN m - 1 + 1 ELSE 0
      /\ \A i \in 1 .. m - 1 + 1 : b[i] = t[1 + i - 1]
    BY <1>1, <1>2, SubSeqProperties
<1> HIDE DEF a, b
<1>5. \A i \in 1 .. Len(a) : a[i] = b[i]
    <2>1. ASSUME NEW i \in 1 .. Len(a) PROVE a[i] = b[i]
        <3>1. i \in 1 .. m - 1 + 1 /\ 1 + i - 1 = i /\ i \in 1 .. m
            BY <1>1, <1>3
        <3>2. a[i] = s[i] /\ b[i] = t[i]
            BY <1>3, <1>4, <3>1
        <3> QED BY <3>1, <3>2 DEF m
    <2> QED BY <2>1
<1>6. a = b
    BY <1>3, <1>4, <1>5, SeqEqual
<1> QED BY <1>1, <1>6 DEF IsPrefix, m, a, b

(* Before a row of the pass is read, either the reading stands under the two   *)
(* names, or something of it is already elsewhere or gone.                     *)
Standing == Pair(inodes, path) \in held
Unread == \A l \in Ledgers : part[Reader][l] = <<>>

LEMMA StartOfPass == DataInv /\ Standing /\ Unread => Possible
<1> SUFFICES ASSUME DataInv, Standing, Unread,
                    ~(\E see \in {"fd", "path"}, l \in Ledgers : Strays(see, l)),
                    ~(\E l \in Ledgers : \E n \in 1 .. Len(read[Reader][l]) : Gone(l, n))
             PROVE  Witnessed
    BY DEF Possible
<1>1. Reader \in Sides
    BY DEF Reader, Sides
<1>2. ASSUME NEW l \in Ledgers
      PROVE  IsPrefix(read[Reader][l], inodes[path[l]].rows)
    <2> DEFINE s == read[Reader][l]
               t == inodes[path[l]].rows
    <2>1. path[l] = fd[Reader][l]
        BY <1>2 DEF Strays
    <2>2. path[l] \in 1 .. Len(inodes)
        BY DEF DataInv
    <2>3. s \in Seq(Below(fresh)) /\ t \in Seq(Below(fresh))
        BY <1>1, <2>2, IdentityIsTyped DEF DataInv
    <2>4. \A n \in 1 .. Len(s) : ~Gone(l, n)
        OBVIOUS
    <2>5. Len(part[Reader][l]) = 0
        BY DEF Unread
    <2> HIDE DEF s
    <2>6. ASSUME NEW n \in 1 .. Len(s) PROVE n <= Len(t) /\ t[n] = s[n]
        <3>1. ~(n > Len(part[Reader][l]) \/ part[Reader][l][n] # s[n]) \/ ~(n > Len(t) \/ t[n] # s[n])
            BY <2>1, <2>4, <2>6 DEF Gone, s
        <3>2. n > Len(part[Reader][l])
            BY <2>5
        <3>3. n \in Nat /\ Len(t) \in Nat
            BY <2>3, LenProperties
        <3> HIDE DEF t
        <3> QED BY <3>1, <3>2, <3>3
    <2>7. Len(s) <= Len(t)
        <3>1. Len(s) \in Nat /\ Len(t) \in Nat
            BY <2>3, LenProperties
        <3>2. Len(s) # 0 => Len(s) \in 1 .. Len(s)
            BY <3>1
        <3> HIDE DEF t
        <3> QED BY <2>6, <3>1, <3>2
    <2> HIDE DEF t
    <2>8. IsPrefix(s, t)
        BY <2>3, <2>6, <2>7, PrefixIs
    <2> QED BY <2>8 DEF s, t
<1>3. \A l \in Ledgers : Pair(inodes, path)[l] = inodes[path[l]].rows
    BY DEF Pair
<1> QED BY <1>2, <1>3 DEF Standing, Witnessed

LEMMA StartOfNextPass == DataInv' /\ Standing' /\ Unread' => Possible'
BY StartOfPass, PTL

LEMMA BeginCompare ==
    ASSUME NEW name \in DOMAIN Scripts, Begin(name), DataInv'
    PROVE  CompareInv' /\ AcceptedPairExisted'
<1>1. /\ operation' = name /\ todo' = Scripts[name] /\ accepted' = {}
      /\ held' = {Pair(inodes, path)} /\ part' = [s \in Sides |-> Nothing]
      /\ UNCHANGED <<inodes, path>>
    BY DEF Begin, world
<1>2. AcceptedPairExisted'
    BY <1>1 DEF AcceptedPairExisted
<1>3. Reader' = IF name = "verify" THEN "reader" ELSE "writer"
    BY <1>1 DEF Reader
<1>4. Standing'
    BY <1>1 DEF Standing
<1>5. Unread'
    BY <1>1, <1>3 DEF Unread, Sides, Nothing
<1>6. Possible'
    BY <1>4, <1>5, StartOfNextPass
<1>7. ASSUME name \in Reading PROVE CompareInv'
    <2>1. Compares(todo', Reader')
        BY <1>1, <1>3, <1>7, ScriptsCompare
    <2> QED BY <1>6, <2>1 DEF Compares, CompareInv
<1>8. ASSUME name \notin Reading PROVE CompareInv'
    BY <1>1, <1>8 DEF CompareInv
<1> QED BY <1>2, <1>7, <1>8

(* A row that is gone from its place does not come back: an edit puts a new    *)
(* row there, or none.                                                         *)
LEMMA StaysGone ==
    ASSUME DataInv, NEW l \in Ledgers, NEW n \in 1 .. Len(read[Reader][l]), Gone(l, n),
           UNCHANGED <<operation, fd, read>>,
           \A m \in 1 .. Len(inodes'[fd[Reader][l]].rows) :
               \/ inodes'[fd[Reader][l]].rows[m] = fresh
               \/ /\ m <= Len(inodes[fd[Reader][l]].rows)
                  /\ inodes'[fd[Reader][l]].rows[m] = inodes[fd[Reader][l]].rows[m],
           n > Len(part'[Reader][l]) \/ part'[Reader][l][n] # read[Reader][l][n],
           Len(inodes'[fd[Reader][l]].rows) \in Nat, Len(inodes[fd[Reader][l]].rows) \in Nat
    PROVE  Gone(l, n)'
<1> DEFINE row == read[Reader][l][n]
           old == inodes[fd[Reader][l]].rows
           rows == inodes'[fd[Reader][l]].rows
<1>1. Reader' = Reader /\ Reader \in Sides
    BY DEF Reader, Sides
<1>2. row # fresh /\ n \in Nat
    <2>1. read[Reader][l] \in Seq(Below(fresh))
        BY <1>1 DEF DataInv
    <2>2. row \in Below(fresh) /\ fresh \in Nat /\ Len(read[Reader][l]) \in Nat
        BY <2>1, ElementOfSeq, LenProperties DEF DataInv
    <2> HIDE DEF row
    <2> QED BY <2>2 DEF Below
<1>3. n > Len(old) \/ old[n] # row
    BY DEF Gone
<1>4. n > Len(rows) \/ rows[n] # row
    <2>1. CASE n > Len(rows)
        BY <2>1
    <2>2. CASE n \in 1 .. Len(rows)
        <3>1. rows[n] = fresh \/ (n <= Len(old) /\ rows[n] = old[n])
            BY <2>2
        <3>2. Len(old) \in Nat
            OBVIOUS
        <3> HIDE DEF row, old, rows
        <3> QED BY <1>2, <1>3, <3>1, <3>2
    <2>3. n > Len(rows) \/ n \in 1 .. Len(rows)
        <3>1. Len(rows) \in Nat
            OBVIOUS
        <3> HIDE DEF rows
        <3> QED BY <1>2, <3>1
    <2> QED BY <2>1, <2>2, <2>3
<1> QED BY <1>1, <1>4 DEF Gone

(* The side that reads in the pass under way, and the files it has open.       *)
JointPass == /\ todo # <<>> /\ Head(todo).see = "rows" /\ Head(todo).side = Reader
             /\ Head(todo).of = Ledgers

LEMMA JointPassIsOpen ==
    ASSUME ControlInv, DataInv, FactsInv, JointPass, NEW l \in Ledgers
    PROVE  /\ fd[Reader][l] \in 1 .. Len(inodes)
           /\ Len(inodes[fd[Reader][l]].rows) \in Nat
<1>1. l \in Head(todo).of /\ todo # <<>> /\ Head(todo).see \in {"fd", "rows", "write", "grown"}
    BY DEF JointPass
<1>2. fd[Reader][l] \in 1 .. Len(inodes)
    BY <1>1, FdIsOpen DEF JointPass
<1> QED BY <1>2, IdentityIsTyped

LEMMA StillCompare ==
    ASSUME ControlInv, DataInv, CompareInv, AcceptedPairExisted,
           UNCHANGED <<operation, todo, fd, base, read, accepted>>, held \subseteq held',
           \A l \in Ledgers : path'[l] = path[l] \/ path'[l] = Len(inodes) + 1,
           JointPass => \A l \in Ledgers : \A n \in 1 .. Len(read[Reader][l]) : Gone(l, n) => Gone(l, n)'
    PROVE  CompareInv' /\ AcceptedPairExisted'
<1>1. AcceptedPairExisted'
    BY DEF AcceptedPairExisted
<1>2. Reader' = Reader /\ Reader \in Sides
    BY DEF Reader, Sides
<1>3. Witnessed => Witnessed'
    BY <1>2 DEF Witnessed
<1>4. ASSUME NEW see \in {"fd", "path"}, NEW l \in Ledgers, Strays(see, l)
      PROVE  Strays(see, l)'
    <2>1. base[Reader][l].inode <= Len(inodes) /\ base[Reader][l].inode \in Nat /\ Len(inodes) \in Nat
        <3>1. base[Reader][l] \in Identities
            BY <1>2 DEF DataInv
        <3> QED BY <1>2, <3>1, LenProperties DEF DataInv, Identities
    <2>2. base[Reader][l].inode # Len(inodes) + 1
        BY <2>1
    <2> QED BY <1>2, <1>4, <2>2 DEF Strays
<1>5. JointPass /\ Possible => Possible'
    BY <1>2, <1>3, <1>4 DEF Possible
<1>6. Caught => Caught'
    <2>1. ASSUME Caught PROVE Caught'
        <3>1. PICK see \in {"fd", "path"}, l \in Ledgers :
                 Strays(see, l) /\ \E j \in 1 .. Len(todo) : todo[j] = Stat(see, Reader, l)
            BY <2>1 DEF Caught
        <3>2. Strays(see, l)'
            BY <1>4, <3>1
        <3> QED BY <1>2, <3>1, <3>2 DEF Caught
    <2> QED BY <2>1
<1>7. ASSUME todo # <<>>, NEW k \in 1 .. Len(todo), k = 1, ComparesAt(todo, k, Reader)
      PROVE  JointPass
    <2>1. Head(todo) = todo[1]
        BY <1>7, HeadTailProperties DEF ControlInv
    <2> QED BY <1>7, <2>1 DEF JointPass, ComparesAt, Look
<1>8. CompareInv'
    <2> SUFFICES ASSUME todo # <<>>, operation \in Reading
                 PROVE  CompareInv'
        BY DEF CompareInv
    <2>1. Settles(todo[Len(todo)], Reader)
        BY DEF CompareInv
    <2>2. CASE \E k \in 1 .. Len(todo) : ComparesAt(todo, k, Reader) /\ (k = 1 => Possible)
        <3>1. PICK k \in 1 .. Len(todo) : ComparesAt(todo, k, Reader) /\ (k = 1 => Possible)
            BY <2>2
        <3>2. k = 1 => Possible'
            BY <1>5, <1>7, <3>1
        <3> QED BY <1>2, <2>1, <3>1, <3>2 DEF CompareInv
    <2>3. CASE Keeps(todo, Reader) /\ (Witnessed \/ Caught)
        BY <1>2, <1>3, <1>6, <2>1, <2>3 DEF CompareInv
    <2> QED BY <2>2, <2>3 DEF CompareInv
<1> QED BY <1>1, <1>8

LEMMA TickCompare ==
    ASSUME ControlInv, DataInv, CompareInv, AcceptedPairExisted, Tick
    PROVE  CompareInv' /\ AcceptedPairExisted'
<1>1. UNCHANGED <<inodes, path, operation, todo, fd, base, read, part, accepted, held>>
    BY DEF Tick, binding, outcome
<1>2. \A l, n : Gone(l, n)' = Gone(l, n)
    BY <1>1 DEF Gone, Reader
<1> QED BY <1>1, <1>2, StillCompare

LEMMA BesideCompare ==
    ASSUME ControlInv, DataInv, CompareInv, AcceptedPairExisted, Beside
    PROVE  CompareInv' /\ AcceptedPairExisted'
<1>1. UNCHANGED <<inodes, path, operation, todo, fd, base, read, part, accepted, held>>
    BY DEF Beside, binding, outcome
<1>2. \A l, n : Gone(l, n)' = Gone(l, n)
    BY <1>1 DEF Gone, Reader
<1> QED BY <1>1, <1>2, StillCompare

LEMMA EditCompare ==
    ASSUME ControlInv, DataInv, FactsInv, CompareInv, AcceptedPairExisted, NEW l0 \in Ledgers, Edit(l0)
    PROVE  CompareInv' /\ AcceptedPairExisted'
<1>1. /\ held \subseteq held' /\ path[l0] \in 1 .. Len(inodes)
      /\ UNCHANGED <<operation, todo, fd, base, read, part, accepted>>
    BY EditIs
<1>2. PICK rows \in Seq(Below(fresh + 1)) :
         /\ EditsFile(l0, rows) \/ SavesFile(l0, rows)
         /\ \A n \in 1 .. Len(rows) :
               \/ rows[n] = fresh
               \/ n <= Len(inodes[path[l0]].rows) /\ rows[n] = inodes[path[l0]].rows[n]
    BY EditIs
<1>3. \A l \in Ledgers : path'[l] = path[l] \/ path'[l] = Len(inodes) + 1
    BY <1>2 DEF EditsFile, SavesFile, DataInv
<1>4. ASSUME JointPass, NEW l \in Ledgers, NEW n \in 1 .. Len(read[Reader][l]), Gone(l, n)
      PROVE  Gone(l, n)'
    <2> DEFINE i == fd[Reader][l]
    <2>1. i \in 1 .. Len(inodes) /\ Len(inodes[i].rows) \in Nat
        BY <1>4, JointPassIsOpen
    <2>2. /\ Len(inodes'[i].rows) \in Nat
          /\ \A m \in 1 .. Len(inodes'[i].rows) :
               \/ inodes'[i].rows[m] = fresh
               \/ m <= Len(inodes[i].rows) /\ inodes'[i].rows[m] = inodes[i].rows[m]
        <3> HIDE DEF i
        <3>1. CASE inodes'[i] = inodes[i]
            BY <2>1, <3>1
        <3>2. CASE i = path[l0] /\ inodes'[i] = [rows |-> rows, stamp |-> now]
            BY <1>2, <3>2, LenProperties
        <3>3. CASE EditsFile(l0, rows)
            <4>1. inodes' = Replaced(path[l0], rows)
                BY <3>3 DEF EditsFile
            <4>2. /\ inodes'[path[l0]] = [rows |-> rows, stamp |-> now]
                  /\ \A j \in 1 .. Len(inodes) : j # path[l0] => inodes'[j] = inodes[j]
                BY <1>1, <4>1, FilesChange
            <4>3. CASE i = path[l0]
                BY <3>2, <4>2, <4>3
            <4>4. CASE i # path[l0]
                BY <2>1, <3>1, <4>2, <4>4
            <4> QED BY <4>3, <4>4
        <3>4. CASE SavesFile(l0, rows)
            <4>1. inodes' = Append(inodes, [rows |-> rows, stamp |-> now])
                BY <3>4 DEF SavesFile
            <4>2. \A j \in 1 .. Len(inodes) : inodes'[j] = inodes[j]
                BY <4>1, FileIsSaved
            <4> QED BY <2>1, <3>1, <4>2
        <3> QED BY <1>2, <3>3, <3>4
    <2>3. n > Len(part'[Reader][l]) \/ part'[Reader][l][n] # read[Reader][l][n]
        BY <1>1, <1>4 DEF Gone
    <2> QED BY <1>1, <1>4, <2>1, <2>2, <2>3, StaysGone
<1> QED BY <1>1, <1>3, <1>4, StillCompare

LEMMA RefuseCompare ==
    ASSUME AcceptedPairExisted, todo' = <<>>, accepted' = accepted, held \subseteq held'
    PROVE  CompareInv' /\ AcceptedPairExisted'
<1>1. CompareInv'
    BY DEF CompareInv
<1>2. AcceptedPairExisted'
    BY DEF AcceptedPairExisted
<1> QED BY <1>1, <1>2

LEMMA ReadRowCompare ==
    ASSUME ControlInv, DataInv, FactsInv, CompareInv, AcceptedPairExisted, todo # <<>>, ReadRow(Head(todo))
    PROVE  CompareInv' /\ AcceptedPairExisted'
<1> DEFINE look == Head(todo)
           s == look.side
<1>1. look.see = "rows" /\ s \in Sides /\ look.of \in SUBSET Ledgers
    BY HeadIsLegal DEF ReadRow
<1>2. UNCHANGED <<inodes, path, operation, held>>
    BY DEF ReadRow, Same, world
<1>3. PICK l \in look.of :
         \/ Refuse(s, "unstable")
         \/ /\ ~(Len(part[s][l]) + 1 > Len(inodes[fd[s][l]].rows))
            /\ part' = [part EXCEPT ![s][l] = Append(@, inodes[fd[s][l]].rows[Len(part[s][l]) + 1])]
            /\ UNCHANGED <<todo, fd, base, read, accepted>>
    BY DEF ReadRow, outcome
<1>4. CASE Refuse(s, "unstable")
    BY <1>2, <1>4, RefuseCompare DEF Refuse
<1>5. CASE /\ ~(Len(part[s][l]) + 1 > Len(inodes[fd[s][l]].rows))
           /\ part' = [part EXCEPT ![s][l] = Append(@, inodes[fd[s][l]].rows[Len(part[s][l]) + 1])]
           /\ UNCHANGED <<todo, fd, base, read, accepted>>
    <2> DEFINE taken == part[s][l]
               rows == inodes[fd[s][l]].rows
               row == rows[Len(taken) + 1]
               grown == Append(taken, row)
    <2>1. l \in Ledgers /\ taken \in Seq(Below(fresh)) /\ Len(taken) \in Nat
        BY <1>1, <1>3, LenProperties DEF DataInv
    <2>2. rows \in Seq(Below(fresh)) /\ Len(rows) \in Nat
        <3>1. fd[s][l] \in 1 .. Len(inodes)
            BY <1>1, <1>3, FdIsOpen
        <3> QED BY <3>1, IdentityIsTyped
    <2>3. Len(taken) + 1 \in 1 .. Len(rows)
        <3>1. ~(Len(taken) + 1 > Len(rows))
            BY <1>5
        <3> HIDE DEF taken, rows
        <3> QED BY <2>1, <2>2, <3>1
    <2>4. /\ grown \in Seq(Below(fresh)) /\ Len(grown) = Len(taken) + 1 /\ grown[Len(taken) + 1] = row
          /\ \A n \in 1 .. Len(taken) : grown[n] = taken[n]
        <3>1. row \in Below(fresh)
            BY <2>2, <2>3, ElementOfSeq
        <3> HIDE DEF taken, row
        <3> QED BY <2>1, <3>1, AppendProperties
    <2>5. /\ part'[s][l] = grown
          /\ \A s2 \in Sides : \A l2 \in Ledgers : s2 # s \/ l2 # l => part'[s2][l2] = part[s2][l2]
        <3> DEFINE T == Seq(Below(fresh))
        <3>1. part \in [Sides -> [Ledgers -> T]] /\ grown \in T /\ part' = [part EXCEPT ![s][l] = grown]
            BY <1>5, <2>4 DEF DataInv
        <3> HIDE DEF T, grown, s
        <3> QED BY <1>1, <2>1, <3>1, NestedExcept
    <2>6. ASSUME JointPass, NEW l2 \in Ledgers, NEW n \in 1 .. Len(read[Reader][l2]), Gone(l2, n)
          PROVE  Gone(l2, n)'
        <3>1. Len(inodes[fd[Reader][l2]].rows) \in Nat /\ Reader = s
            BY <2>6, JointPassIsOpen DEF JointPass
        <3>2. n > Len(part'[Reader][l2]) \/ part'[Reader][l2][n] # read[Reader][l2][n]
            <4>1. CASE l2 # l
                BY <1>1, <2>5, <2>6, <3>1, <4>1 DEF Gone
            <4>2. CASE l2 = l
                <5> DEFINE old == read[Reader][l2][n]
                <5>1. /\ n > Len(rows) \/ rows[n] # old
                      /\ n > Len(taken) \/ taken[n] # old
                    BY <2>6, <3>1, <4>2 DEF Gone
                <5>2. n \in Nat /\ n >= 1
                    <6>1. read[Reader][l2] \in Seq(Below(fresh))
                        BY <1>1, <3>1 DEF DataInv
                    <6> QED BY <6>1, LenProperties
                <5>3. n > Len(grown) \/ grown[n] # old
                    <6>0. row = rows[Len(taken) + 1]
                        OBVIOUS
                    <6> HIDE DEF taken, rows, row, grown, old
                    <6>1. CASE n = Len(taken) + 1
                        BY <2>1, <2>2, <2>3, <2>4, <5>1, <6>0, <6>1
                    <6>2. CASE n \in 1 .. Len(taken)
                        BY <2>1, <2>4, <5>1, <6>2
                    <6>3. CASE n > Len(taken) + 1
                        BY <2>4, <6>3
                    <6> QED BY <2>1, <5>2, <6>1, <6>2, <6>3
                <5> QED BY <2>5, <3>1, <4>2, <5>3
            <4> QED BY <4>1, <4>2
        <3>3. \A m \in 1 .. Len(inodes'[fd[Reader][l2]].rows) :
                 /\ m <= Len(inodes[fd[Reader][l2]].rows)
                 /\ inodes'[fd[Reader][l2]].rows[m] = inodes[fd[Reader][l2]].rows[m]
            BY <1>2, <3>1
        <3> HIDE DEF rows, taken, row, grown
        <3> QED BY <1>2, <1>5, <2>6, <3>1, <3>2, <3>3, StaysGone
    <2> QED BY <1>2, <1>5, <2>6, StillCompare
<1> QED BY <1>3, <1>4, <1>5

(* A look that moves on has found what it looked for: a stray name or          *)
(* descriptor cannot be the one it looked at, and after the joint pass no row  *)
(* of the reading can be gone.                                                 *)
LEMMA AdvanceCompare ==
    ASSUME ControlInv, HeldInv, CompareInv, DataInv', todo # <<>>, operation \in Reading,
           NEW rows, Advance(rows), UNCHANGED <<inodes, path, operation, held>>,
           \A s \in Sides : \A l \in Ledgers : part'[s][l] = <<>>,
           ~Rebinds(Head(todo), Reader) =>
               \A l \in Ledgers : /\ read'[Reader][l] = read[Reader][l] /\ fd'[Reader][l] = fd[Reader][l]
                                  /\ base'[Reader][l] = base[Reader][l],
           Settles(Head(todo), Reader) => rows = read[Reader],
           JointPass /\ Head(todo).bind = "same" => \A l \in Ledgers : part[Reader][l] = read[Reader][l],
           \A see \in {"fd", "path"} : \A l \in Ledgers :
               Head(todo) = Stat(see, Reader, l) => ~Strays(see, l)
    PROVE  CompareInv' /\ AcceptedPairExisted'
<1> DEFINE q == todo
           t == Tail(todo)
           look == Head(todo)
<1>1. /\ q \in Seq(LegalLooks) /\ t \in Seq(LegalLooks) /\ Len(t) = Len(q) - 1 /\ Len(q) \in Nat \ {0}
      /\ look = q[1] /\ \A i \in 1 .. Len(t) : t[i] = q[i + 1]
    BY HeadTailProperties, EmptySeq DEF ControlInv
<1>2. Reader' = Reader /\ Reader \in Sides /\ todo' = t /\ accepted = {}
    BY DEF Reader, Sides, Advance, ControlInv
<1>3. Possible'
    <2>1. Standing' /\ Unread'
        BY <1>2 DEF HeldInv, Standing, Unread
    <2> QED BY <2>1, StartOfNextPass
<1>4. ASSUME ~Rebinds(look, Reader)
      PROVE  /\ Witnessed => Witnessed'
             /\ \A see \in {"fd", "path"} : \A l \in Ledgers : Strays(see, l) => Strays(see, l)'
    BY <1>2, <1>4 DEF Witnessed, Strays
<1> HIDE DEF look
<1>5. ASSUME ComparesAt(q, 1, Reader), Possible
      PROVE  t # <<>> /\ Keeps(t, Reader) /\ (Witnessed' \/ Caught')
    <2> HIDE DEF q, t
    <2>1. look = Look("rows", Reader, Ledgers, "same") /\ ~Rebinds(look, Reader)
        <3>1. 1 \in 1 .. Len(q)
            BY <1>1
        <3> QED BY <1>1, <1>5, <3>1 DEF ComparesAt
    <2>2. JointPass /\ look.bind = "same"
        BY <2>1 DEF JointPass, Look, look
    <2>3. Keeps(t, Reader)
        <3>1. ASSUME NEW j \in 1 .. Len(t) PROVE ~Rebinds(t[j], Reader)
            <4>1. j + 1 \in 1 .. Len(q)
                BY <1>1
            <4> QED BY <1>1, <1>5, <4>1 DEF ComparesAt
        <3> QED BY <3>1 DEF Keeps
    <2>4. ASSUME NEW see \in {"fd", "path"}, NEW l \in Ledgers
          PROVE  \E j \in 1 .. Len(t) : t[j] = Stat(see, Reader, l)
        <3>1. PICK j \in 1 + 1 .. Len(q) : q[j] = Stat(see, Reader, l)
            BY <1>5 DEF ComparesAt
        <3>2. j - 1 \in 1 .. Len(t) /\ j - 1 + 1 = j
            BY <1>1
        <3> QED BY <1>1, <3>1, <3>2
    <2>5. t # <<>>
        <3>1. \E j \in 1 .. Len(t) : t[j] = Stat("fd", Reader, "raw")
            BY <2>4 DEF Ledgers
        <3> QED BY <3>1
    <2>6. Witnessed \/ \E see \in {"fd", "path"}, l \in Ledgers : Strays(see, l)
        <3>1. ASSUME NEW l \in Ledgers, NEW n \in 1 .. Len(read[Reader][l]) PROVE ~Gone(l, n)
            <4>1. part[Reader][l] = read[Reader][l]
                BY <2>2 DEF look
            <4>2. n \in Nat /\ n <= Len(read[Reader][l]) /\ Len(read[Reader][l]) \in Nat
                <5>1. read'[Reader][l] = read[Reader][l]
                    BY <2>1 DEF look
                <5>2. read'[Reader][l] \in Seq(Below(fresh'))
                    BY <1>2 DEF DataInv
                <5>3. Len(read[Reader][l]) \in Nat
                    BY <5>1, <5>2, LenProperties
                <5> QED BY <5>3
            <4>3. ~(n > Len(part[Reader][l]) \/ part[Reader][l][n] # read[Reader][l][n])
                BY <4>1, <4>2
            <4> QED BY <4>3 DEF Gone
        <3> QED BY <1>5, <3>1 DEF Possible
    <2>7. CASE Witnessed
        BY <1>4, <2>1, <2>3, <2>5, <2>7
    <2>8. ASSUME NEW see \in {"fd", "path"}, NEW l \in Ledgers, Strays(see, l)
          PROVE  Caught'
        <3>1. Strays(see, l)'
            BY <1>4, <2>1, <2>8
        <3>2. todo' = t
            BY <1>2
        <3> QED BY <1>2, <2>4, <3>1, <3>2 DEF Caught
    <2> QED BY <2>3, <2>5, <2>6, <2>7, <2>8
<1>6. ASSUME Keeps(q, Reader), Witnessed \/ Caught
      PROVE  /\ Keeps(t, Reader) /\ (Witnessed' \/ Caught')
             /\ t = <<>> => Witnessed
    <2>1. ~Rebinds(look, Reader)
        <3> HIDE DEF q
        <3> QED BY <1>1, <1>6 DEF Keeps
    <2>2. Keeps(t, Reader)
        <3> HIDE DEF q, t
        <3>1. ASSUME NEW j \in 1 .. Len(t) PROVE ~Rebinds(t[j], Reader)
            <4>1. j + 1 \in 1 .. Len(q)
                BY <1>1
            <4> QED BY <1>1, <1>6, <4>1 DEF Keeps
        <3> QED BY <3>1 DEF Keeps
    <2>3. CASE Witnessed
        BY <1>4, <2>1, <2>2, <2>3
    <2>4. CASE Caught
        <3>1. PICK see \in {"fd", "path"}, l \in Ledgers :
                 Strays(see, l) /\ \E j \in 1 .. Len(q) : q[j] = Stat(see, Reader, l)
            BY <2>4 DEF Caught
        <3>2. PICK j \in 1 .. Len(q) : q[j] = Stat(see, Reader, l)
            BY <3>1
        <3>3. Strays(see, l)'
            BY <1>4, <2>1, <3>1
        <3>4. j # 1
            BY <1>1, <3>1, <3>2 DEF look
        <3>5. j - 1 \in 1 .. Len(t) /\ t[j - 1] = Stat(see, Reader, l)
            <4> HIDE DEF q, t
            <4>1. j - 1 \in 1 .. Len(t) /\ j - 1 + 1 = j
                BY <1>1, <3>4
            <4> QED BY <1>1, <3>2, <4>1
        <3> HIDE DEF q, t
        <3>6. todo' = t
            BY <1>2
        <3>7. Caught'
            BY <1>2, <3>3, <3>5, <3>6 DEF Caught
        <3>8. t # <<>>
            BY <3>5
        <3> QED BY <2>2, <3>7, <3>8
    <2> QED BY <1>6, <2>3, <2>4
<1> HIDE DEF q, t
<1>7. /\ Settles(q[Len(q)], Reader)
      /\ \/ \E k \in 1 .. Len(q) : ComparesAt(q, k, Reader) /\ (k = 1 => Possible)
         \/ Keeps(q, Reader) /\ (Witnessed \/ Caught)
    BY DEF CompareInv, q
<1>10. ASSUME Settles(t[Len(t)], Reader),
             \/ \E k \in 1 .. Len(t) : ComparesAt(t, k, Reader) /\ (k = 1 => Possible')
             \/ Keeps(t, Reader) /\ (Witnessed' \/ Caught')
      PROVE  CompareInv'
    <2>1. todo' = t /\ Reader' = Reader
        BY <1>2
    <2>2. Settles(todo'[Len(todo')], Reader')
        BY <1>10, <2>1
    <2>3. CASE \E k \in 1 .. Len(t) : ComparesAt(t, k, Reader) /\ (k = 1 => Possible')
        <3>1. PICK k \in 1 .. Len(t) : ComparesAt(t, k, Reader) /\ (k = 1 => Possible')
            BY <2>3
        <3>2. k \in 1 .. Len(todo') /\ ComparesAt(todo', k, Reader')
            BY <2>1, <3>1
        <3> QED BY <2>2, <3>1, <3>2 DEF CompareInv
    <2>4. CASE Keeps(t, Reader) /\ (Witnessed' \/ Caught')
        <3>1. Keeps(todo', Reader')
            BY <2>1, <2>4
        <3> QED BY <2>2, <2>4, <3>1 DEF CompareInv
    <2> QED BY <1>10, <2>3, <2>4
<1>8. CASE t # <<>>
    <2>1. AcceptedPairExisted'
        BY <1>2, <1>8 DEF Advance, AcceptedPairExisted, t
    <2>2. Settles(t[Len(t)], Reader)
        <3>1. Len(t) \in 1 .. Len(t) /\ Len(t) + 1 = Len(q)
            BY <1>1, <1>8, EmptySeq
        <3> QED BY <1>1, <1>7, <3>1
    <2>3. CASE \E k \in 1 .. Len(q) : ComparesAt(q, k, Reader) /\ (k = 1 => Possible)
        <3>1. PICK k \in 1 .. Len(q) : ComparesAt(q, k, Reader) /\ (k = 1 => Possible)
            BY <2>3
        <3>2. CASE k = 1
            BY <1>5, <1>10, <2>1, <2>2, <3>1, <3>2
        <3>3. CASE k # 1
            <4>1. k - 1 \in 1 .. Len(t) /\ ComparesAt(t, k - 1, Reader)
                BY <1>1, <1>2, <3>1, <3>3, TailCompares DEF t, q
            <4> QED BY <1>3, <1>10, <2>1, <2>2, <4>1
        <3> QED BY <3>1, <3>2, <3>3
    <2>4. CASE Keeps(q, Reader) /\ (Witnessed \/ Caught)
        BY <1>6, <1>10, <2>1, <2>2, <2>4
    <2> QED BY <1>7, <2>1, <2>3, <2>4
<1>9. CASE t = <<>>
    <2>1. CompareInv'
        BY <1>2, <1>9 DEF CompareInv
    <2>2. Len(q) = 1
        BY <1>1, <1>9
    <2>3. accepted' = {read[Reader]}
        <3>1. accepted' = {rows}
            BY <1>9 DEF Advance, Result, t
        <3>2. Settles(look, Reader)
            BY <1>1, <1>7, <2>2
        <3> QED BY <3>1, <3>2 DEF look
    <2>4. Witnessed
        <3>1. CASE \E k \in 1 .. Len(q) : ComparesAt(q, k, Reader) /\ (k = 1 => Possible)
            <4>1. PICK k \in 1 .. Len(q) : ComparesAt(q, k, Reader) /\ (k = 1 => Possible)
                BY <3>1
            <4>2. k = 1
                BY <2>2
            <4> QED BY <1>5, <1>9, <4>1, <4>2
        <3>2. CASE Keeps(q, Reader) /\ (Witnessed \/ Caught)
            BY <1>6, <1>9, <3>2
        <3> QED BY <1>7, <3>1, <3>2
    <2>5. AcceptedPairExisted'
        BY <2>3, <2>4 DEF AcceptedPairExisted, Witnessed
    <2> QED BY <2>1, <2>5
<1> QED BY <1>8, <1>9

LEMMA SeeIdentityCompare ==
    ASSUME ControlInv, DataInv, PartInv, HeldInv, FactsInv, CompareInv, AcceptedPairExisted, DataInv',
           todo # <<>>, operation \in Reading, SeeIdentity(Head(todo))
    PROVE  CompareInv' /\ AcceptedPairExisted'
<1> DEFINE look == Head(todo)
           s == look.side
<1>1. look \in LegalLooks /\ s \in Sides /\ look.see \in {"path", "fd"}
    BY HeadIsLegal DEF SeeIdentity
<1>2. PICK l \in Ledgers : look.of = {l} /\ (CHOOSE one \in look.of : TRUE) = l
    BY <1>1, OneLedger
<1> DEFINE i == IF look.see = "path" THEN path[l] ELSE fd[s][l]
           id == Identity(i)
<1>3. UNCHANGED <<inodes, path, operation, held>>
    BY DEF SeeIdentity, Same, world
<1>4. \/ /\ look.bind = "new" \/ id = base[s][l]
         /\ base' = [base EXCEPT ![s][l] = id] /\ Advance(read[s]) /\ UNCHANGED <<fd, read, part>>
      \/ Refuse(s, "unstable")
    BY <1>2 DEF SeeIdentity
<1>5. CASE Refuse(s, "unstable")
    BY <1>3, <1>5, RefuseCompare DEF Refuse
<1>6. CASE /\ look.bind = "new" \/ id = base[s][l]
           /\ base' = [base EXCEPT ![s][l] = id] /\ Advance(read[s]) /\ UNCHANGED <<fd, read, part>>
    <2>1. \A s2 \in Sides : \A l2 \in Ledgers : part'[s2][l2] = <<>>
        BY <1>1, <1>6, NoPart
    <2>2. /\ base'[s][l] = id
          /\ \A s2 \in Sides : \A l2 \in Ledgers : s2 # s \/ l2 # l => base'[s2][l2] = base[s2][l2]
        <3> DEFINE T == Identities
        <3>1. i \in 1 .. Len(inodes)
            <4>1. look.see = "fd" => fd[s][l] \in 1 .. Len(inodes)
                BY <1>1, <1>2, FdIsOpen
            <4> QED BY <1>1, <4>1 DEF DataInv
        <3>2. base \in [Sides -> [Ledgers -> T]] /\ id \in T /\ base' = [base EXCEPT ![s][l] = id]
            BY <1>6, <3>1, IdentityIsTyped DEF DataInv
        <3> HIDE DEF T, id, s
        <3> QED BY <1>1, <1>2, <3>2, NestedExcept
    <2>3. id.inode = i
        BY DEF Identity
    <2> HIDE DEF id
    <2>4. ~Rebinds(look, Reader) =>
              \A l2 \in Ledgers : /\ read'[Reader][l2] = read[Reader][l2] /\ fd'[Reader][l2] = fd[Reader][l2]
                                  /\ base'[Reader][l2] = base[Reader][l2]
        <3>1. Reader \in Sides
            BY DEF Reader, Sides
        <3>2. CASE Reader # s
            BY <1>6, <2>2, <3>1, <3>2
        <3>3. CASE Reader = s
            <4>1. ~Rebinds(look, Reader) => look.bind # "new"
                BY <1>1, <3>3 DEF Rebinds, LegalLooks
            <4>2. ~Rebinds(look, Reader) => base'[s][l] = base[s][l]
                BY <1>6, <2>2, <4>1
            <4> QED BY <1>6, <2>2, <3>1, <3>3, <4>2
        <3> QED BY <3>2, <3>3
    <2>5. Settles(look, Reader) => read[s] = read[Reader]
        BY <1>1 DEF Settles
    <2>6. ~JointPass
        BY <1>1 DEF JointPass
    <2>7. ASSUME NEW see \in {"fd", "path"}, NEW l2 \in Ledgers, look = Stat(see, Reader, l2)
          PROVE  ~Strays(see, l2)
        <3>1. look.see = see /\ s = Reader /\ l2 = l /\ look.bind = "same"
            BY <1>2, <2>7 DEF Stat, Look
        <3>2. id = base[s][l]
            BY <1>6, <3>1
        <3> QED BY <2>3, <2>7, <3>1, <3>2 DEF Strays
    <2> QED BY <1>3, <1>6, <2>1, <2>4, <2>5, <2>6, <2>7, AdvanceCompare
<1> QED BY <1>4, <1>5, <1>6

LEMMA OpenFileCompare ==
    ASSUME ControlInv, DataInv, PartInv, HeldInv, CompareInv, AcceptedPairExisted, DataInv',
           todo # <<>>, operation \in Reading, OpenFile(Head(todo))
    PROVE  CompareInv' /\ AcceptedPairExisted'
<1> DEFINE look == Head(todo)
           s == look.side
<1>1. look \in LegalLooks /\ s \in Sides /\ look.see = "open" /\ look.of \in SUBSET Ledgers
    BY HeadIsLegal DEF OpenFile
<1>2. PICK l \in look.of : fd' = [fd EXCEPT ![s][l] = path[l]]
    BY DEF OpenFile
<1>3. UNCHANGED <<inodes, path, operation, held, base, read, part>> /\ Advance(read[s])
    BY DEF OpenFile, Same, world
<1>4. \A s2 \in Sides : \A l2 \in Ledgers : part'[s2][l2] = <<>>
    BY <1>1, <1>3, NoPart
<1>5. ~Rebinds(look, Reader) =>
          \A l2 \in Ledgers : /\ read'[Reader][l2] = read[Reader][l2] /\ fd'[Reader][l2] = fd[Reader][l2]
                              /\ base'[Reader][l2] = base[Reader][l2]
    <2>1. Reader \in Sides /\ (~Rebinds(look, Reader) => Reader # s)
        BY <1>1 DEF Reader, Sides, Rebinds
    <2> QED BY <1>2, <1>3, <2>1 DEF DataInv
<1>6. ~Settles(look, Reader) /\ ~JointPass
    BY <1>1 DEF Settles, JointPass
<1>7. \A see \in {"fd", "path"} : \A l2 \in Ledgers : look # Stat(see, Reader, l2)
    BY <1>1 DEF Stat, Look
<1> QED BY <1>3, <1>4, <1>5, <1>6, <1>7, AdvanceCompare

LEMMA FinishPassCompare ==
    ASSUME ControlInv, DataInv, PartInv, HeldInv, CompareInv, AcceptedPairExisted, DataInv',
           todo # <<>>, operation \in Reading, FinishPass(Head(todo))
    PROVE  CompareInv' /\ AcceptedPairExisted'
<1> DEFINE look == Head(todo)
           s == look.side
           new == [l \in Ledgers |-> IF l \in look.of THEN part[s][l] ELSE read[s][l]]
<1>1. look \in LegalLooks /\ s \in Sides /\ look.of \in SUBSET Ledgers /\ look.see = "rows"
    BY HeadIsLegal DEF FinishPass
<1>2. UNCHANGED <<inodes, path, operation, held>>
    BY DEF FinishPass, Same, world
<1>3. \/ /\ look.bind = "new" \/ \A l \in look.of : part[s][l] = read[s][l]
         /\ read' = [read EXCEPT ![s] = new] /\ part' = [part EXCEPT ![s] = Nothing]
         /\ Advance(read'[s]) /\ UNCHANGED <<fd, base>>
      \/ Refuse(s, "unstable")
    BY <1>1 DEF FinishPass, DataInv
<1>4. CASE Refuse(s, "unstable")
    BY <1>2, <1>4, RefuseCompare DEF Refuse
<1>5. CASE /\ look.bind = "new" \/ \A l \in look.of : part[s][l] = read[s][l]
           /\ read' = [read EXCEPT ![s] = new] /\ part' = [part EXCEPT ![s] = Nothing]
           /\ Advance(read'[s]) /\ UNCHANGED <<fd, base>>
    <2>1. \A s2 \in Sides : \A l2 \in Ledgers : part'[s2][l2] = <<>>
        <3>1. \A l2 \in Ledgers : part'[s][l2] = <<>>
            BY <1>1, <1>5 DEF DataInv, Nothing
        <3>2. \A s2 \in Sides : s2 # s => \A l2 \in Ledgers : part'[s2][l2] = <<>>
            BY <1>5 DEF DataInv, PartInv
        <3> QED BY <3>1, <3>2
    <2>2. read'[s] = new /\ \A s2 \in Sides : s2 # s => read'[s2] = read[s2]
        BY <1>1, <1>5 DEF DataInv
    <2>3. ~Rebinds(look, Reader) =>
              \A l2 \in Ledgers : /\ read'[Reader][l2] = read[Reader][l2] /\ fd'[Reader][l2] = fd[Reader][l2]
                                  /\ base'[Reader][l2] = base[Reader][l2]
        <3>1. Reader \in Sides
            BY DEF Reader, Sides
        <3>2. CASE Reader # s
            BY <1>5, <2>2, <3>1, <3>2
        <3>3. CASE Reader = s
            <4>1. ~Rebinds(look, Reader) => \A l \in look.of : part[s][l] = read[s][l]
                BY <1>1, <1>5, <3>3 DEF Rebinds
            <4>2. ~Rebinds(look, Reader) => \A l2 \in Ledgers : read'[s][l2] = read[s][l2]
                BY <2>2, <4>1
            <4> QED BY <1>5, <3>3, <4>2
        <3> QED BY <3>2, <3>3
    <2>4. JointPass /\ look.bind = "same" => \A l \in Ledgers : part[Reader][l] = read[Reader][l]
        BY <1>5 DEF JointPass
    <2>5. ~Settles(look, Reader)
        BY <1>1 DEF Settles
    <2>6. \A see \in {"fd", "path"} : \A l2 \in Ledgers : look # Stat(see, Reader, l2)
        BY <1>1 DEF Stat, Look
    <2> HIDE DEF new
    <2> QED BY <1>2, <1>5, <2>1, <2>3, <2>4, <2>5, <2>6, AdvanceCompare
<1> QED BY <1>3, <1>4, <1>5

LEMMA SeeRootCompare ==
    ASSUME ControlInv, DataInv, PartInv, HeldInv, CompareInv, AcceptedPairExisted, DataInv',
           todo # <<>>, operation \in Reading, SeeRoot(Head(todo)) \/ SeeAgreement(Head(todo))
    PROVE  CompareInv' /\ AcceptedPairExisted'
<1> DEFINE look == Head(todo)
<1>1. look.see \in {"root", "agree"} /\ UNCHANGED <<inodes, path, operation, held>>
    BY DEF SeeRoot, SeeAgreement, Same, world
<1>2. \/ Advance(read["writer"]) /\ UNCHANGED <<fd, base, read, part>>
      \/ \E why \in {"unstable", "neighbour"} : Refuse("reader", why)
    BY DEF SeeRoot, SeeAgreement, binding
<1>3. ASSUME NEW why \in {"unstable", "neighbour"}, Refuse("reader", why)
      PROVE  CompareInv' /\ AcceptedPairExisted'
    BY <1>1, <1>3, RefuseCompare DEF Refuse
<1>4. CASE Advance(read["writer"]) /\ UNCHANGED <<fd, base, read, part>>
    <2>1. \A s2 \in Sides : \A l2 \in Ledgers : part'[s2][l2] = <<>>
        BY <1>1, <1>4, NoPart
    <2>2. Settles(look, Reader) => read["writer"] = read[Reader]
        BY <1>1 DEF Settles
    <2>3. ~JointPass /\ \A see \in {"fd", "path"} : \A l2 \in Ledgers : look # Stat(see, Reader, l2)
        BY <1>1 DEF JointPass, Stat, Look
    <2> QED BY <1>1, <1>4, <2>1, <2>2, <2>3, AdvanceCompare
<1> QED BY <1>2, <1>3, <1>4

(* An operation that does not read accepts nothing.                            *)
LEMMA NothingIsAccepted ==
    ASSUME ControlInv, todo # <<>>, operation \notin Reading, Step
    PROVE  operation' = operation /\ accepted' = {}
<1> DEFINE look == Head(todo)
<1>0. accepted = {}
    BY DEF ControlInv
<1>1. ASSUME NEW rows, Advance(rows) PROVE accepted' = {}
    BY <1>0, <1>1 DEF Advance, Result
<1>2. ASSUME NEW s, NEW why, Refuse(s, why) PROVE accepted' = {}
    BY <1>0, <1>2 DEF Refuse
<1>3. CASE SeeIdentity(look)
    BY <1>1, <1>2, <1>3 DEF SeeIdentity, Same
<1>4. CASE OpenFile(look)
    BY <1>1, <1>4 DEF OpenFile, Same
<1>5. CASE ReadRow(look)
    BY <1>0, <1>2, <1>5 DEF ReadRow, Same, outcome
<1>6. CASE FinishPass(look)
    BY <1>1, <1>2, <1>6 DEF FinishPass, Same
<1>7. CASE SeeRoot(look)
    BY <1>1, <1>2, <1>7 DEF SeeRoot, Same
<1>8. CASE SeeAgreement(look)
    BY <1>1, <1>2, <1>8 DEF SeeAgreement, Same
<1>9. CASE SeeGrown(look)
    BY <1>1, <1>2, <1>9 DEF SeeGrown, Same
<1>10. ASSUME NEW lands \in BOOLEAN, NEW succeeds \in BOOLEAN, WriteRow(look, lands, succeeds)
       PROVE  operation' = operation /\ accepted' = {}
    BY <1>1, <1>2, <1>10 DEF WriteRow
<1> QED BY <1>3, <1>4, <1>5, <1>6, <1>7, <1>8, <1>9, <1>10 DEF Step

LEMMA StepCompare ==
    ASSUME ControlInv, DataInv, PartInv, HeldInv, FactsInv, CompareInv, AcceptedPairExisted, DataInv', Step
    PROVE  CompareInv' /\ AcceptedPairExisted'
<1>0. todo # <<>>
    BY DEF Step
<1>1. CASE operation \notin Reading
    <2>1. operation' = operation /\ accepted' = {}
        BY <1>0, <1>1, NothingIsAccepted
    <2>2. CompareInv'
        BY <1>1, <2>1 DEF CompareInv
    <2>3. AcceptedPairExisted'
        BY <2>1 DEF AcceptedPairExisted
    <2> QED BY <2>2, <2>3
<1>2. CASE operation \in Reading
    <2>1. Head(todo).see \notin {"write", "grown"}
        BY <1>0, <1>2, HeadIsLegal DEF CalmLooks
    <2>2. \/ SeeIdentity(Head(todo)) \/ OpenFile(Head(todo)) \/ ReadRow(Head(todo)) \/ FinishPass(Head(todo))
          \/ SeeRoot(Head(todo)) \/ SeeAgreement(Head(todo))
        BY <2>1 DEF Step, SeeGrown, WriteRow
    <2> QED BY <1>0, <1>2, <2>2, SeeIdentityCompare, OpenFileCompare, ReadRowCompare, FinishPassCompare,
               SeeRootCompare
<1> QED BY <1>1, <1>2

-----------------------------------------------------------------------------
(* Theorems *)

LEMMA InitIsGood ==
    ASSUME Init
    PROVE  IInv
<1>1. EventRows \in Nat /\ RawRows \in Nat
    BY AllConstantsAreLegal DEF ConstantsAreLegal
<1>2. ControlInv
    BY NoLookIsLegal DEF Init, ControlInv
<1>3. DataInv
    <2> DEFINE F == EventRows + RawRows + 1
               e == [n \in 1 .. EventRows |-> n]
               r == [n \in 1 .. RawRows |-> EventRows + n]
               B == Below(F)
    <2>1. fresh = F /\ F \in Nat
        BY <1>1 DEF Init
    <2>2. e \in Seq(B) /\ r \in Seq(B)
        <3>1. (\A n \in 1 .. EventRows : n \in B) /\ (\A n \in 1 .. RawRows : EventRows + n \in B)
            BY <1>1 DEF Below
        <3> HIDE DEF B
        <3>2. e \in [1 .. EventRows -> B] /\ r \in [1 .. RawRows -> B]
            BY <3>1
        <3> HIDE DEF e, r
        <3>3. [1 .. EventRows -> B] \subseteq Seq(B) /\ [1 .. RawRows -> B] \subseteq Seq(B)
            BY <1>1, SeqDef, Zenon
        <3> QED BY <3>2, <3>3
    <2>3. inodes \in Seq(Files(fresh)) /\ Len(inodes) = 2
        <3>1. [rows |-> e, stamp |-> 0] \in Files(F) /\ [rows |-> r, stamp |-> 0] \in Files(F)
            BY <2>2 DEF Files
        <3>2. inodes = << [rows |-> e, stamp |-> 0], [rows |-> r, stamp |-> 0] >>
            BY DEF Init
        <3> HIDE DEF e, r, F
        <3> QED BY <2>1, <3>1, <3>2
    <2>4. path = [l \in Ledgers |-> IF l = "events" THEN 1 ELSE 2]
        BY DEF Init
    <2>5. path \in [Ledgers -> 1 .. Len(inodes)] /\ path["events"] # path["raw"]
        BY <2>3, <2>4 DEF Ledgers
    <2>6. fd = [s \in Sides |-> [l \in Ledgers |-> 0]] /\ base = [s \in Sides |-> [l \in Ledgers |-> Unbound]]
        BY DEF Init
    <2>7. fd \in [Sides -> [Ledgers -> 0 .. Len(inodes)]] /\ base \in [Sides -> [Ledgers -> Identities]]
        BY <2>3, <2>6 DEF Unbound, Identities
    <2>8. \A s \in Sides : \A l \in Ledgers : base[s][l].inode <= Len(inodes)
        BY <2>3, <2>6 DEF Unbound
    <2>9. read = [s \in Sides |-> Nothing] /\ part = [s \in Sides |-> Nothing]
        BY DEF Init
    <2>10. read \in [Sides -> [Ledgers -> Seq(Below(fresh))]] /\ part \in [Sides -> [Ledgers -> Seq(Below(fresh))]]
        <3> DEFINE S == Below(fresh)
        <3> HIDE DEF S
        <3>1. Nothing \in [Ledgers -> Seq(S)]
            BY DEF Nothing
        <3> QED BY <2>9, <3>1 DEF S
    <2>11. now \in Nat /\ root \in Nat /\ rootBase \in Nat /\ edits \in Nat
        BY DEF Init
    <2> QED BY <2>1, <2>3, <2>5, <2>7, <2>8, <2>10, <2>11 DEF DataInv
<1>4. PartInv /\ HeldInv /\ CompareInv
    BY DEF Init, PartInv, HeldInv, CompareInv
<1>5. FactsInv
    BY DEF Init, FactsInv
<1>6. QuietInv
    BY DEF Init, QuietInv
<1>7. AcceptedPairExisted
    BY DEF Init, AcceptedPairExisted
<1> QED BY <1>2, <1>3, <1>4, <1>5, <1>6, <1>7 DEF IInv

LEMMA BeginIsGood ==
    ASSUME IInv, NEW name \in DOMAIN Scripts, Begin(name)
    PROVE  IInv'
<1>1. ControlInv' /\ DataInv' /\ FactsInv' /\ QuietInv'
    BY BeginControl, BeginData, BeginFacts DEF IInv
<1>2. CompareInv' /\ AcceptedPairExisted'
    BY <1>1, BeginCompare
<1>3. PartInv'
    <2>1. part' = [s \in Sides |-> Nothing]
        BY DEF Begin
    <2> QED BY <2>1 DEF PartInv, Nothing
<1>4. HeldInv'
    BY DEF Begin, world, HeldInv
<1> QED BY <1>1, <1>2, <1>3, <1>4 DEF IInv

LEMMA EditIsGood ==
    ASSUME IInv, NEW l \in Ledgers, Edit(l)
    PROVE  IInv'
<1>1. UNCHANGED <<operation, todo, part, mode, accepted>> /\ held' = held \cup {Pair(inodes', path')}
    BY EditIs DEF IInv
<1>2. ControlInv' /\ PartInv'
    BY <1>1, StillControl DEF IInv, PartInv
<1>3. HeldInv'
    BY <1>1 DEF HeldInv
<1>4. DataInv' /\ FactsInv' /\ QuietInv'
    BY EditData, EditFacts DEF IInv
<1>5. CompareInv' /\ AcceptedPairExisted'
    BY EditCompare DEF IInv
<1> QED BY <1>2, <1>3, <1>4, <1>5 DEF IInv

LEMMA TickIsGood ==
    ASSUME IInv, Tick
    PROVE  IInv'
<1>1. UNCHANGED <<inodes, path, operation, todo, part, mode, accepted, held>>
    BY DEF Tick, binding, outcome
<1>2. ControlInv' /\ PartInv'
    BY <1>1, StillControl DEF IInv, PartInv
<1>3. HeldInv'
    BY <1>1 DEF IInv, HeldInv
<1>4. DataInv' /\ FactsInv' /\ QuietInv'
    BY TickData, TickFacts DEF IInv
<1>5. CompareInv' /\ AcceptedPairExisted'
    BY TickCompare DEF IInv
<1> QED BY <1>2, <1>3, <1>4, <1>5 DEF IInv

LEMMA BesideIsGood ==
    ASSUME IInv, Beside
    PROVE  IInv'
<1>1. UNCHANGED <<inodes, path, operation, todo, part, mode, accepted, held>>
    BY DEF Beside, binding, outcome
<1>2. ControlInv' /\ PartInv'
    BY <1>1, StillControl DEF IInv, PartInv
<1>3. HeldInv'
    BY <1>1 DEF IInv, HeldInv
<1>4. DataInv' /\ FactsInv' /\ QuietInv'
    BY BesideData, BesideFacts DEF IInv
<1>5. CompareInv' /\ AcceptedPairExisted'
    BY BesideCompare DEF IInv
<1> QED BY <1>2, <1>3, <1>4, <1>5 DEF IInv

LEMMA NextIsGood ==
    ASSUME IInv, Next
    PROVE  IInv'
<1>1. CASE Step
    <2>1. ControlInv' /\ DataInv' /\ PartInv' /\ HeldInv' /\ FactsInv' /\ QuietInv'
        BY <1>1, StepControl, StepData, StepPart, StepHeld, StepFacts DEF IInv
    <2>2. CompareInv' /\ AcceptedPairExisted'
        BY <1>1, <2>1, StepCompare DEF IInv
    <2> QED BY <2>1, <2>2 DEF IInv
<1> QED BY <1>1, BeginIsGood, EditIsGood, BesideIsGood, TickIsGood DEF Next

LEMMA StutterIsGood ==
    ASSUME IInv, UNCHANGED vars
    PROVE  IInv'
<1>1. /\ UNCHANGED <<inodes, path, root, now, fresh, operation, todo, fd, base, read, part, rootBase>>
      /\ UNCHANGED <<mode, refused, accepted, held, edits>>
    BY DEF vars, world, binding, outcome
<1>2. Facts' = Facts /\ Pending' = Pending /\ Reader' = Reader
    BY <1>1 DEF Facts, Known, Identity, Pending, Reader
<1>3. ControlInv' /\ DataInv' /\ PartInv' /\ HeldInv'
    BY <1>1 DEF IInv, ControlInv, DataInv, PartInv, HeldInv
<1>4. FactsInv'
    BY <1>1, <1>2 DEF IInv, FactsInv
<1>5. QuietInv'
    BY <1>1 DEF IInv, QuietInv, Growing
<1>6. \A l, n : Gone(l, n)' = Gone(l, n)
    BY <1>1, <1>2 DEF Gone
<1>7. CompareInv' /\ AcceptedPairExisted'
    BY <1>1, <1>6, StillCompare DEF IInv
<1> QED BY <1>3, <1>4, <1>5, <1>7 DEF IInv

LEMMA Invariance == MCSpec => []IInv
<1>1. MCInit => IInv
    BY InitIsGood DEF MCInit
<1>2. IInv /\ [MCNext]_<<subject, vars, registry>> => IInv'
    BY NextIsGood, StutterIsGood DEF MCNext
<1> QED BY <1>1, <1>2, PTL DEF MCSpec

(* Whatever verification, a session, a scan or a revalidation accepts was, at  *)
(* one moment since it began, what both ledgers began with under their names,  *)
(* for any number of edits from outside in any tick of the clock.              *)
THEOREM AcceptedRowsStood == MCSpec => []AcceptedPairExisted
<1>1. IInv => AcceptedPairExisted
    BY DEF IInv
<1> QED BY <1>1, Invariance, PTL

-----------------------------------------------------------------------------
(* What happens beside the capsule: only a session and its revalidation look   *)
(* at the directories, and a stamp there never goes back.                      *)

InnerLooks == { look \in LegalLooks : look.see # "root" }
Rooted == {"session", "revalidate"}

NeighbourInv ==
    /\ now \in Nat /\ parent \in Nat /\ parentBase \in Nat
    /\ parentBase <= parent /\ parent <= now
    /\ operation \notin Rooted => todo \in Seq(InnerLooks)
    /\ todo # <<>> => refused # "neighbour"
    /\ refused = "neighbour" => operation \in Rooted /\ parentBase < parent

LEMMA StatIsInner ==
    ASSUME NEW see \in {"path", "open", "fd", "write", "grown"}, NEW s \in Sides, NEW l \in Ledgers,
           see \in {"write", "grown"} => s = "writer"
    PROVE  Stat(see, s, l) \in InnerLooks
BY DEF InnerLooks, Stat, Look, LegalLooks, AnyLook, Sees

LEMMA OpeningIsInner ==
    ASSUME NEW s \in Sides, NEW l \in Ledgers
    PROVE  Opening(s, l, "new") \in Seq(InnerLooks)
<1>1. Look("path", s, {l}, "new") \in InnerLooks
    BY DEF InnerLooks, Look, LegalLooks, AnyLook, Sees
<1> QED BY <1>1, StatIsInner DEF Opening

LEMMA ThreePassesAreInner ==
    ASSUME NEW s \in Sides, NEW bind \in {"same", "new"}
    PROVE  ThreePasses(s, bind) \in Seq(InnerLooks)
<1>1. \A ls \in SUBSET Ledgers : \A b \in {"same", "new"} : Look("rows", s, ls, b) \in InnerLooks
    BY DEF InnerLooks, Look, LegalLooks, AnyLook, Sees
<1>2. << Look("rows", s, {"events"}, bind), Look("rows", s, {"raw"}, bind),
         Look("rows", s, Ledgers, "same") >> \in Seq(InnerLooks)
    BY <1>1 DEF Ledgers
<1>3. BothStats(s) \in Seq(InnerLooks)
    BY StatIsInner DEF BothStats, Ledgers
<1> QED BY <1>2, <1>3, ConcatProperties DEF ThreePasses

LEMMA ScriptsAreInner ==
    ASSUME NEW name \in DOMAIN Scripts, name \notin Rooted
    PROVE  Scripts[name] \in Seq(InnerLooks)
<1>1. CASE name = "verify"
    <2>1. Opening("reader", "events", "new") \in Seq(InnerLooks)
        BY OpeningIsInner DEF Sides, Ledgers
    <2>2. Opening("reader", "raw", "new") \in Seq(InnerLooks)
        BY OpeningIsInner DEF Sides, Ledgers
    <2>3. ThreePasses("reader", "new") \in Seq(InnerLooks)
        BY ThreePassesAreInner DEF Sides
    <2>4. Opening("reader", "events", "new") \o Opening("reader", "raw", "new") \in Seq(InnerLooks)
        BY <2>1, <2>2, ConcatProperties
    <2>5. ReadPair \in Seq(InnerLooks)
        BY <2>3, <2>4, ConcatProperties DEF ReadPair
    <2> QED BY <1>1, <2>5 DEF Scripts
<1>2. CASE name = "scan"
    <2>1. << Stat("fd", "writer", "events"), Stat("fd", "writer", "raw") >> \in Seq(InnerLooks)
        BY StatIsInner DEF Sides, Ledgers
    <2>2. ScanRetained \in Seq(InnerLooks)
        BY <2>1, ThreePassesAreInner, ConcatProperties DEF ScanRetained, Sides
    <2> QED BY <1>2, <2>2 DEF Scripts
<1>3. ASSUME NEW l \in Ledgers PROVE AppendTo(l) \in Seq(InnerLooks)
    <2>1. Recheck \in Seq(InnerLooks)
        BY StatIsInner DEF Recheck, Sides, Ledgers
    <2>2. << Stat("write", "writer", l), Stat("grown", "writer", l) >> \in Seq(InnerLooks)
        BY StatIsInner DEF Sides
    <2> QED BY <2>1, <2>2, ConcatProperties DEF AppendTo
<1>4. CASE name = "append_event"
    BY <1>3, <1>4 DEF Scripts, Ledgers
<1>5. CASE name = "append_raw"
    BY <1>3, <1>5 DEF Scripts, Ledgers
<1> QED BY <1>1, <1>2, <1>4, <1>5 DEF Scripts, Rooted

(* A look leaves the rest, is contradicted, or, at a root, meets a neighbour.  *)
LEMMA StepBeside ==
    ASSUME Step
    PROVE  /\ todo # <<>> /\ UNCHANGED <<now, parent, operation>>
           /\ \/ /\ todo' \in {todo, Tail(todo)} /\ refused' = refused
                 /\ parentBase' \in {parentBase, parent}
              \/ todo' = <<>> /\ refused' # "neighbour" /\ parentBase' = parentBase
              \/ /\ todo' = <<>> /\ refused' = "neighbour" /\ parentBase' = parentBase
                 /\ Head(todo).see = "root" /\ parent # parentBase
<1> DEFINE look == Head(todo)
<1>0. todo # <<>>
    BY DEF Step
<1>1. ASSUME NEW rows, Advance(rows) PROVE todo' = Tail(todo) /\ refused' = refused
    BY <1>1 DEF Advance
<1>2. ASSUME NEW s, NEW why, Refuse(s, why)
      PROVE  todo' = <<>> /\ refused' = why /\ parentBase' = parentBase
    BY <1>2 DEF Refuse, binding
<1>3. Same => UNCHANGED <<now, parent, operation>>
    BY DEF Same, world
<1>4. CASE SeeIdentity(look)
    BY <1>0, <1>1, <1>2, <1>3, <1>4 DEF SeeIdentity
<1>5. CASE OpenFile(look)
    BY <1>0, <1>1, <1>3, <1>5 DEF OpenFile
<1>6. CASE ReadRow(look)
    <2>1. \/ Refuse(look.side, "unstable")
          \/ UNCHANGED <<todo, parentBase, refused>>
        BY <1>6 DEF ReadRow, outcome
    <2> QED BY <1>0, <1>2, <1>3, <1>6, <2>1 DEF ReadRow
<1>7. CASE FinishPass(look)
    BY <1>0, <1>1, <1>2, <1>3, <1>7 DEF FinishPass
<1>8. CASE SeeRoot(look)
    BY <1>0, <1>1, <1>2, <1>3, <1>8 DEF SeeRoot
<1>9. CASE SeeAgreement(look)
    BY <1>0, <1>1, <1>2, <1>3, <1>9 DEF SeeAgreement, binding
<1>10. CASE SeeGrown(look)
    <2>1. /\ Same
          /\ \/ Refuse("writer", "unstable")
             \/ Advance(read["writer"]) /\ parentBase' = parentBase
        BY <1>10 DEF SeeGrown
    <2> QED BY <1>0, <1>1, <1>2, <1>3, <2>1
<1>11. ASSUME NEW lands \in BOOLEAN, NEW succeeds \in BOOLEAN, WriteRow(look, lands, succeeds)
       PROVE  /\ UNCHANGED <<now, parent, operation>>
              /\ \/ todo' = Tail(todo) /\ refused' = refused /\ parentBase' = parentBase
                 \/ todo' = <<>> /\ refused' # "neighbour" /\ parentBase' = parentBase
    BY <1>1, <1>2, <1>11 DEF WriteRow
<1> QED BY <1>0, <1>4, <1>5, <1>6, <1>7, <1>8, <1>9, <1>10, <1>11 DEF Step

LEMMA StepNeighbour ==
    ASSUME NeighbourInv, Step
    PROVE  NeighbourInv'
<1>1. /\ todo # <<>> /\ UNCHANGED <<now, parent, operation>>
      /\ \/ /\ todo' \in {todo, Tail(todo)} /\ refused' = refused
            /\ parentBase' \in {parentBase, parent}
         \/ todo' = <<>> /\ refused' # "neighbour" /\ parentBase' = parentBase
         \/ /\ todo' = <<>> /\ refused' = "neighbour" /\ parentBase' = parentBase
            /\ Head(todo).see = "root" /\ parent # parentBase
    BY StepBeside
<1>2. operation \notin Rooted => todo' \in Seq(InnerLooks)
    <2>1. SUFFICES ASSUME operation \notin Rooted PROVE todo' \in Seq(InnerLooks)
        OBVIOUS
    <2>2. todo \in Seq(InnerLooks) /\ todo # <<>>
        BY <1>1, <2>1 DEF NeighbourInv
    <2>3. Tail(todo) \in Seq(InnerLooks)
        BY <2>2, HeadTailProperties
    <2>4. todo' \in {todo, Tail(todo), <<>>}
        BY <1>1
    <2>5. <<>> \in Seq(InnerLooks)
        OBVIOUS
    <2> QED BY <2>2, <2>3, <2>4, <2>5
<1>3. Head(todo).see = "root" => operation \in Rooted
    <2>1. SUFFICES ASSUME operation \notin Rooted PROVE Head(todo).see # "root"
        OBVIOUS
    <2>2. Head(todo) \in InnerLooks
        BY <1>1, <2>1, HeadTailProperties DEF NeighbourInv
    <2> QED BY <2>2 DEF InnerLooks
<1> QED BY <1>1, <1>2, <1>3 DEF NeighbourInv

LEMMA NextNeighbour ==
    ASSUME NeighbourInv, Next
    PROVE  NeighbourInv'
<1>1. CASE Step
    BY <1>1, StepNeighbour
<1>2. ASSUME NEW name \in DOMAIN Scripts, Begin(name) PROVE NeighbourInv'
    <2>1. /\ operation' = name /\ todo' = Scripts[name] /\ refused' = "no"
          /\ UNCHANGED <<now, parent, parentBase>>
        BY <1>2 DEF Begin, world
    <2>2. name \notin Rooted => todo' \in Seq(InnerLooks)
        BY <2>1, ScriptsAreInner
    <2> QED BY <2>1, <2>2 DEF NeighbourInv
<1>3. ASSUME NEW l \in Ledgers, Edit(l) PROVE NeighbourInv'
    BY <1>3 DEF Edit, binding, outcome, NeighbourInv
<1>4. CASE Beside
    BY <1>4 DEF Beside, binding, outcome, NeighbourInv
<1>5. CASE Tick
    BY <1>5 DEF Tick, binding, outcome, NeighbourInv
<1> QED BY <1>1, <1>2, <1>3, <1>4, <1>5 DEF Next

LEMMA NeighbourInvariance == MCSpec => []NeighbourInv
<1>1. MCInit => NeighbourInv
    <2>1. <<>> \in Seq(InnerLooks)
        OBVIOUS
    <2>2. MCInit => /\ now = 0 /\ parent = 0 /\ parentBase = 0
                    /\ operation = "none" /\ todo = <<>> /\ refused = "no"
        BY DEF MCInit, Init
    <2> QED BY <2>1, <2>2 DEF NeighbourInv
<1>2. ASSUME NeighbourInv, UNCHANGED vars PROVE NeighbourInv'
    BY <1>2 DEF vars, world, binding, outcome, NeighbourInv
<1>3. NeighbourInv /\ [MCNext]_<<subject, vars, registry>> => NeighbourInv'
    BY <1>2, NextNeighbour DEF MCNext
<1> QED BY <1>1, <1>3, PTL DEF MCSpec

(* As long as nobody else touches the ledgers, no operation is refused for     *)
(* what it saw of them: every look finds what its side is bound to, the        *)
(* session's own appends included.  And what happens beside the capsule in the *)
(* results root is met by a session or its revalidation alone, and only where  *)
(* it left its stamp after the session was bound.                              *)
THEOREM QuietIsAccepted == MCSpec => []QuietFilesAreAccepted
<1>1. IInv /\ NeighbourInv => QuietFilesAreAccepted
    BY DEF IInv, QuietInv, NeighbourInv, Rooted, QuietFilesAreAccepted
<1> QED BY <1>1, Invariance, NeighbourInvariance, PTL

-----------------------------------------------------------------------------
(* The registry of identities, as the behaviours of MCVerification run it, for *)
(* any values, digests and damages.  First induction over slots and probes.    *)

LEMMA LeastNatural ==
    ASSUME NEW T \in SUBSET Nat, T # {}
    PROVE  \E x \in T : \A y \in T : x <= y
<1>. DEFINE R == OpToRel(<, Nat)
<1>1. IsWellFoundedOn(R, Nat)
    BY NatLessThanWellFounded
<1>2. \A x, y \in Nat : x < y => <<x, y>> \in R
    BY DEF OpToRel
<1>. HIDE DEF R
<1>3. PICK x \in T : \A y \in T : ~ (<<y, x>> \in R)
    BY <1>1, WFMin
<1>4. \A y \in T : ~(y < x)
    BY <1>2, <1>3
<1>. QED BY <1>4

LEMMA UpTo ==
    ASSUME NEW T, NEW n \in Nat, 0 \in T, \A i \in 0 .. n - 1 : i \in T => i + 1 \in T
    PROVE  \A i \in 0 .. n : i \in T
<1>. DEFINE Bad == { i \in 0 .. n : i \notin T }
<1>. SUFFICES ASSUME Bad # {} PROVE FALSE
    OBVIOUS
<1>1. Bad \in SUBSET Nat
    OBVIOUS
<1>2. PICK x \in Bad : \A y \in Bad : x <= y
    <2>. HIDE DEF Bad
    <2>. QED BY <1>1, LeastNatural
<1>3. x # 0 /\ x - 1 \in 0 .. n - 1
    BY <1>2
<1>4. x - 1 \in T
    BY <1>2, <1>3
<1>. QED BY <1>2, <1>3, <1>4

-----------------------------------------------------------------------------
(* Probing *)

LEMMA DivUnique ==
    ASSUME NEW c \in Nat \ {0}, NEW k \in Int, NEW r \in 0 .. c - 1
    PROVE  (c * k + r) % c = r
OBVIOUS

(* Probing passes every slot of a region.                                      *)
LEMMA EveryResidue ==
    ASSUME NEW c \in Nat \ {0}, NEW h \in Nat, NEW r \in 0 .. c - 1
    PROVE  \E p \in 0 .. c - 1 : (h + p) % c = r
<1>. DEFINE q == h % c
            d == h \div c
<1>1. q \in 0 .. c - 1 /\ d \in Nat /\ h = c * d + q
    OBVIOUS
<1>. HIDE DEF q, d
<1>2. CASE r >= q
    <2>1. h + (r - q) = c * d + r /\ r - q \in 0 .. c - 1
        BY <1>1, <1>2
    <2>2. (c * d + r) % c = r
        BY <1>1, DivUnique
    <2>. QED BY <2>1, <2>2
<1>3. CASE r < q
    <2>1. h + (r - q + c) = c * (d + 1) + r /\ r - q + c \in 0 .. c - 1
        BY <1>1, <1>3
    <2>2. (c * (d + 1) + r) % c = r
        BY <1>1, DivUnique
    <2>. QED BY <2>1, <2>2
<1>. QED BY <1>1, <1>2, <1>3

Blank == Registry!Empty
Spoilt == Registry!Damaged
Rec(v, tag) == Registry!Record(v, tag)
Tags == Kinds \cup {"seal"}
Records == [value : Values \cup {NoValue}, tag : Tags \cup {"empty", "damaged"}]
Slots(b, c) == b .. b + c - 1

LEMMA RecordsAre ==
    /\ Blank \in Records /\ Spoilt \in Records /\ Blank # Spoilt
    /\ Blank.value = NoValue /\ Spoilt.value = NoValue
    /\ Blank.tag = "empty"
    /\ "empty" \notin Tags /\ "damaged" \notin Tags
    /\ \A v \in Values, tag \in Tags :
          /\ Rec(v, tag) \in Records /\ Rec(v, tag).value = v /\ Rec(v, tag).tag = tag
          /\ Rec(v, tag) # Blank /\ Rec(v, tag) # Spoilt
    /\ NoValue \notin Values
BY AllConstantsAreLegal DEF Registry!ConstantsAreLegal, Blank, Spoilt, Rec, Registry!Empty,
   Registry!Damaged, Registry!Record, Tags, Records

(* A place in the region of c slots that begins at b.                          *)
Regional(b, c) == b \in Nat /\ c \in Nat \ {0} /\ hash \in [Values -> Hashes]

LEMMA SlotIsRegional ==
    ASSUME NEW b, NEW c, Regional(b, c), NEW v \in Values, NEW p \in Nat
    PROVE  Registry!Slot(b, c, v, p) \in Slots(b, c)
<1>1. hash[v] \in Nat
    BY AllConstantsAreLegal DEF Registry!ConstantsAreLegal, Regional
<1>. DEFINE h == hash[v] + p
<1>2. h \in Nat
    BY <1>1
<1>. HIDE DEF h
<1>3. h % c \in 0 .. c - 1
    BY <1>2 DEF Regional
<1>. QED BY <1>3 DEF Registry!Slot, Slots, Regional, h

LEMMA EverySlotIsProbed ==
    ASSUME NEW b, NEW c, Regional(b, c), NEW v \in Values, NEW s \in Slots(b, c)
    PROVE  \E p \in 0 .. c - 1 : Registry!Slot(b, c, v, p) = s
<1>1. hash[v] \in Nat
    BY AllConstantsAreLegal DEF Registry!ConstantsAreLegal, Regional
<1>2. s - b \in 0 .. c - 1 /\ s \in Int /\ b \in Nat
    BY DEF Slots, Regional
<1>3. PICK p \in 0 .. c - 1 : (hash[v] + p) % c = s - b
    BY <1>1, <1>2, EveryResidue DEF Regional
<1>4. b + (s - b) = s
    BY <1>2
<1>. QED BY <1>3, <1>4 DEF Registry!Slot

(* p is where a lookup of v ends.                                              *)
IsFirst(t, b, c, v, p) ==
    /\ p \in 0 .. c - 1
    /\ Registry!Ends(t, b, c, v, p)
    /\ \A q \in 0 .. p - 1 : ~Registry!Ends(t, b, c, v, q)

LEMMA FirstIsPlace ==
    ASSUME NEW t, NEW b, NEW c, Regional(b, c), NEW v \in Values,
           NEW p \in 0 .. c - 1, Registry!Ends(t, b, c, v, p)
    PROVE  \E q : /\ IsFirst(t, b, c, v, q) /\ q <= p
                  /\ Registry!Place(t, b, c, v) = Registry!Slot(b, c, v, q)
                  /\ Registry!Found(t, b, c, v) = t[Registry!Slot(b, c, v, q)]
<1>. DEFINE T == { q \in 0 .. p : Registry!Ends(t, b, c, v, q) }
            First(q) == Registry!Ends(t, b, c, v, q) /\ \A i \in 0 .. q - 1 : ~Registry!Ends(t, b, c, v, i)
            f == CHOOSE q \in 0 .. c - 1 : First(q)
<1>1. T \in SUBSET Nat /\ p \in T
    OBVIOUS
<1>2. PICK x \in T : \A y \in T : x <= y
    <2>. HIDE DEF T
    <2>. QED BY <1>1, LeastNatural
<1>3. x \in 0 .. c - 1 /\ x <= p
    BY Regional(b, c) DEF Regional
<1>4. First(x)
    BY <1>2
<1>5. f \in 0 .. c - 1 /\ First(f)
    <2>. HIDE DEF First
    <2>. QED BY <1>3, <1>4
<1>6. f <= p
    <2>1. ~(x < f)
        <3>. HIDE DEF f
        <3>. SUFFICES ASSUME x < f PROVE FALSE
            OBVIOUS
        <3>1. x \in 0 .. f - 1
            BY <1>3, <1>5
        <3>. QED BY <3>1, <1>4, <1>5
    <2>. HIDE DEF f, First
    <2>. QED BY <2>1, <1>3, <1>5
<1>7. IsFirst(t, b, c, v, f)
    BY <1>5 DEF IsFirst
<1>8. Registry!Place(t, b, c, v) = Registry!Slot(b, c, v, f)
    BY DEF Registry!Place
<1>9. Registry!Found(t, b, c, v) = t[Registry!Slot(b, c, v, f)]
    BY <1>8 DEF Registry!Found
<1>. HIDE DEF f
<1>. QED BY <1>6, <1>7, <1>8, <1>9

LEMMA NothingEnds ==
    ASSUME NEW t, NEW b, NEW c, NEW v, \A p \in 0 .. c - 1 : ~Registry!Ends(t, b, c, v, p)
    PROVE  Registry!Found(t, b, c, v) = Spoilt
BY DEF Registry!Found, Spoilt
-----------------------------------------------------------------------------
(* What a sound region holds *)

(* A of a value is the tag of its accepted declaration, or "empty".            *)
Acceptances == [Values -> Tags \cup {"empty"}]

(* Only accepted declarations, each value once, and each where a lookup passes *)
(* no empty slot before it.                                                    *)
OnlyAccepted(t, b, c, A) ==
    \A s \in Slots(b, c) :
        t[s] # Blank => \E v \in Values : A[v] # "empty" /\ t[s] = Rec(v, A[v])
HeldOnce(t, b, c) ==
    \A s1, s2 \in Slots(b, c) : t[s1] # Blank /\ t[s1].value = t[s2].value => s1 = s2
Reached(t, b, c, A, v) ==
    \E p \in 0 .. c - 1 :
        /\ t[Registry!Slot(b, c, v, p)] = Rec(v, A[v])
        /\ \A q \in 0 .. p - 1 : t[Registry!Slot(b, c, v, q)] # Blank
Sound(t, b, c, A) ==
    /\ OnlyAccepted(t, b, c, A)
    /\ HeldOnce(t, b, c)
    /\ \A v \in Values : A[v] # "empty" => Reached(t, b, c, A, v)

(* A lookup in a sound region finds what was accepted.                         *)
LEMMA AcceptedIsFound ==
    ASSUME NEW t, NEW b, NEW c, Regional(b, c), NEW A \in Acceptances, Sound(t, b, c, A),
           NEW v \in Values, A[v] # "empty"
    PROVE  Registry!Found(t, b, c, v) = Rec(v, A[v])
<1>1. PICK p \in 0 .. c - 1 :
          /\ t[Registry!Slot(b, c, v, p)] = Rec(v, A[v])
          /\ \A q \in 0 .. p - 1 : t[Registry!Slot(b, c, v, q)] # Blank
    BY DEF Sound, Reached
<1>2. A[v] \in Tags
    BY DEF Acceptances
<1>3. Registry!Ends(t, b, c, v, p)
    BY <1>1, <1>2, RecordsAre DEF Registry!Ends
<1>4. PICK q : /\ IsFirst(t, b, c, v, q) /\ q <= p
               /\ Registry!Found(t, b, c, v) = t[Registry!Slot(b, c, v, q)]
    BY <1>3, FirstIsPlace
<1>. DEFINE r == t[Registry!Slot(b, c, v, q)]
<1>5. q \in 0 .. c - 1 /\ (r \in {Blank, Spoilt} \/ r.value = v)
    BY <1>4 DEF IsFirst, Registry!Ends, Blank, Spoilt
<1>6. r # Blank
    <2>1. CASE q = p
        BY <2>1, <1>1, <1>2, RecordsAre
    <2>2. CASE q \in 0 .. p - 1
        BY <2>2, <1>1
    <2>. QED BY <1>4, <1>5, <2>1, <2>2
<1>7. Registry!Slot(b, c, v, q) \in Slots(b, c)
    BY <1>5, SlotIsRegional
<1>8. PICK u \in Values : A[u] # "empty" /\ r = Rec(u, A[u])
    BY <1>6, <1>7 DEF Sound, OnlyAccepted
<1>9. A[u] \in Tags
    BY <1>8 DEF Acceptances
<1>10. u = v
    BY <1>5, <1>8, <1>9, RecordsAre
<1>. QED BY <1>4, <1>8, <1>10

(* One of what was not finds an empty slot, as long as there is one.           *)
LEMMA OthersAreNot ==
    ASSUME NEW t, NEW b, NEW c, Regional(b, c), NEW A \in Acceptances, Sound(t, b, c, A),
           NEW v \in Values, A[v] = "empty", NEW s \in Slots(b, c), t[s] = Blank
    PROVE  Registry!Found(t, b, c, v) = Blank
<1>1. PICK p \in 0 .. c - 1 : Registry!Slot(b, c, v, p) = s
    BY EverySlotIsProbed
<1>2. Registry!Ends(t, b, c, v, p)
    BY <1>1 DEF Registry!Ends, Blank
<1>3. PICK q : /\ IsFirst(t, b, c, v, q)
               /\ Registry!Found(t, b, c, v) = t[Registry!Slot(b, c, v, q)]
    BY <1>2, FirstIsPlace
<1>. DEFINE r == t[Registry!Slot(b, c, v, q)]
<1>4. q \in 0 .. c - 1 /\ (r \in {Blank, Spoilt} \/ r.value = v)
    BY <1>3 DEF IsFirst, Registry!Ends, Blank, Spoilt
<1>5. Registry!Slot(b, c, v, q) \in Slots(b, c)
    BY <1>4, SlotIsRegional
<1>6. SUFFICES ASSUME r # Blank PROVE FALSE
    BY <1>3
<1>7. PICK u \in Values : A[u] # "empty" /\ r = Rec(u, A[u])
    BY <1>5, <1>6 DEF Sound, OnlyAccepted
<1>8. A[u] \in Tags
    BY <1>7 DEF Acceptances
<1>. QED BY <1>4, <1>7, <1>8, RecordsAre

(* A value stored where its lookup finds an empty slot.                        *)
LEMMA StoredIsSound ==
    ASSUME NEW t, NEW b, NEW c, Regional(b, c), NEW A \in Acceptances, Sound(t, b, c, A),
           NEW v \in Values, A[v] = "empty", NEW tag \in Tags, NEW p \in 0 .. c - 1,
           NEW D, t = [i \in D |-> t[i]], Slots(b, c) \subseteq D,
           t[Registry!Slot(b, c, v, p)] = Blank,
           \A q \in 0 .. p - 1 : t[Registry!Slot(b, c, v, q)] # Blank
    PROVE  Sound([t EXCEPT ![Registry!Slot(b, c, v, p)] = Rec(v, tag)], b, c, [A EXCEPT ![v] = tag])
<1>. DEFINE s == Registry!Slot(b, c, v, p)
            u2 == [t EXCEPT ![s] = Rec(v, tag)]
            B == [A EXCEPT ![v] = tag]
<1>1. s \in Slots(b, c)
    BY SlotIsRegional
<1>2. /\ u2[s] = Rec(v, tag)
      /\ \A i \in Slots(b, c) : i # s => u2[i] = t[i]
    <2>. HIDE DEF s
    <2>. QED BY <1>1
<1>3. B[v] = tag /\ \A u \in Values : u # v => B[u] = A[u]
    BY DEF Acceptances
<1>4. \A u \in Values : A[u] # "empty" => A[u] \in Tags /\ u # v
    BY DEF Acceptances
<1>5. t[s] = Blank
    OBVIOUS
<1>6. \A q \in 0 .. p - 1 : Registry!Slot(b, c, v, q) # s
    BY <1>5
<1>7. \A u \in Values, q \in 0 .. c - 1 : Registry!Slot(b, c, u, q) \in Slots(b, c)
    BY SlotIsRegional
<1>. HIDE DEF s, u2, B
<1>8. OnlyAccepted(u2, b, c, B)
    <2>. SUFFICES ASSUME NEW i \in Slots(b, c), u2[i] # Blank
                  PROVE  \E u \in Values : B[u] # "empty" /\ u2[i] = Rec(u, B[u])
        BY DEF OnlyAccepted
    <2>1. CASE i = s
        BY <2>1, <1>2, <1>3, RecordsAre
    <2>2. CASE i # s
        <3>1. PICK u \in Values : A[u] # "empty" /\ t[i] = Rec(u, A[u])
            BY <2>2, <1>2 DEF Sound, OnlyAccepted
        <3>. QED BY <3>1, <2>2, <1>2, <1>3, <1>4
    <2>. QED BY <2>1, <2>2
<1>9. \A i \in Slots(b, c) : i # s => u2[i].value # v
    <2>. SUFFICES ASSUME NEW i \in Slots(b, c), i # s PROVE t[i].value # v
        BY <1>2
    <2>1. CASE t[i] = Blank
        BY <2>1, RecordsAre
    <2>2. CASE t[i] # Blank
        <3>1. PICK u \in Values : A[u] # "empty" /\ t[i] = Rec(u, A[u])
            BY <2>2 DEF Sound, OnlyAccepted
        <3>. QED BY <3>1, <1>4, RecordsAre
    <2>. QED BY <2>1, <2>2
<1>10. HeldOnce(u2, b, c)
    <2>. SUFFICES ASSUME NEW i \in Slots(b, c), NEW j \in Slots(b, c),
                         u2[i] # Blank, u2[i].value = u2[j].value
                  PROVE  i = j
        BY DEF HeldOnce
    <2>1. u2[s].value = v
        BY <1>2, RecordsAre
    <2>2. CASE i = s \/ j = s
        BY <2>2, <2>1, <1>9
    <2>3. CASE i # s /\ j # s
        BY <2>3, <1>2 DEF Sound, HeldOnce
    <2>. QED BY <2>2, <2>3
<1>11. ASSUME NEW u \in Values, B[u] # "empty"
       PROVE  Reached(u2, b, c, B, u)
    <2>1. CASE u = v
        <3>1. \A q \in 0 .. p - 1 : q \in 0 .. c - 1
            BY DEF Regional
        <3>2. \A q \in 0 .. p - 1 : u2[Registry!Slot(b, c, v, q)] # Blank
            BY <3>1, <1>2, <1>6, <1>7
        <3>3. u2[Registry!Slot(b, c, v, p)] = Rec(v, B[v])
            BY <1>2, <1>3 DEF s
        <3>. QED BY <2>1, <3>2, <3>3 DEF Reached
    <2>2. CASE u # v
        <3>1. A[u] # "empty" /\ A[u] \in Tags /\ B[u] = A[u]
            BY <2>2, <1>3, <1>4, <1>11
        <3>2. PICK x \in 0 .. c - 1 :
                  /\ t[Registry!Slot(b, c, u, x)] = Rec(u, A[u])
                  /\ \A q \in 0 .. x - 1 : t[Registry!Slot(b, c, u, q)] # Blank
            BY <3>1 DEF Sound, Reached
        <3>3. \A q \in 0 .. x : q \in 0 .. c - 1
            BY DEF Regional
        <3>4. Registry!Slot(b, c, u, x) # s
            BY <3>1, <3>2, <1>5, RecordsAre
        <3>5. u2[Registry!Slot(b, c, u, x)] = Rec(u, B[u])
            BY <3>1, <3>2, <3>4, <1>2, <1>7
        <3>6. \A q \in 0 .. x - 1 : u2[Registry!Slot(b, c, u, q)] # Blank
            <4>. SUFFICES ASSUME NEW q \in 0 .. x - 1
                          PROVE  u2[Registry!Slot(b, c, u, q)] # Blank
                OBVIOUS
            <4>1. t[Registry!Slot(b, c, u, q)] # Blank /\ q \in 0 .. c - 1
                BY <3>2, <3>3
            <4>. QED BY <4>1, <1>2, <1>5, <1>7
        <3>. QED BY <3>5, <3>6 DEF Reached
    <2>. QED BY <2>1, <2>2
<1>12. Sound(u2, b, c, B)
    BY <1>8, <1>10, <1>11 DEF Sound
<1>. QED BY <1>12 DEF u2, B, s
-----------------------------------------------------------------------------
(* Counting *)

Held(t, lo, hi) == { s \in lo .. hi : t[s] # Blank }

LEMMA HeldIsFinite ==
    ASSUME NEW t, NEW lo \in Nat, NEW hi \in Int
    PROVE  /\ IsFiniteSet(Held(t, lo, hi))
           /\ Cardinality(Held(t, lo, hi)) \in Nat
           /\ hi >= lo => Cardinality(Held(t, lo, hi)) <= hi - lo + 1
<1>1. IsFiniteSet(lo .. hi) /\ Cardinality(lo .. hi) = IF lo > hi THEN 0 ELSE hi - lo + 1
    BY FS_Interval
<1>2. Held(t, lo, hi) \in SUBSET (lo .. hi)
    BY DEF Held
<1>3. IsFiniteSet(Held(t, lo, hi)) /\ Cardinality(Held(t, lo, hi)) <= Cardinality(lo .. hi)
    BY <1>1, <1>2, FS_Subset
<1>4. Cardinality(Held(t, lo, hi)) \in Nat
    BY <1>3, FS_CardinalityType
<1>. QED BY <1>1, <1>3, <1>4

LEMMA OccupiedIsHeld ==
    ASSUME NEW t, NEW b, NEW c
    PROVE  Registry!Occupied(t, b, c) = Held(t, b, b + c - 1)
BY DEF Registry!Occupied, Held, Blank

(* A region that is not full has an empty slot.                                *)
LEMMA SomeAreEmpty ==
    ASSUME NEW t, NEW b \in Nat, NEW c \in Nat \ {0},
           Cardinality(Held(t, b, b + c - 1)) < c
    PROVE  \E s \in Slots(b, c) : t[s] = Blank
<1>. SUFFICES ASSUME \A s \in Slots(b, c) : t[s] # Blank PROVE FALSE
    OBVIOUS
<1>1. Held(t, b, b + c - 1) = b .. b + c - 1
    BY DEF Held, Slots
<1>2. Cardinality(b .. b + c - 1) = c
    <2>1. b \in Int /\ b + c - 1 \in Int /\ ~(b > b + c - 1) /\ (b + c - 1) - b + 1 = c
        OBVIOUS
    <2>. QED BY <2>1, FS_Interval
<1>. QED BY <1>1, <1>2

(* One more record counts one more, one erased counts one less.                *)
LEMMA OneMoreIsHeld ==
    ASSUME NEW t, NEW lo \in Nat, NEW hi \in Int, NEW s \in lo .. hi, NEW r, r # Blank, t[s] = Blank,
           NEW D, t = [i \in D |-> t[i]], lo .. hi \subseteq D
    PROVE  Cardinality(Held([t EXCEPT ![s] = r], lo, hi)) = Cardinality(Held(t, lo, hi)) + 1
<1>1. Held([t EXCEPT ![s] = r], lo, hi) = Held(t, lo, hi) \cup {s} /\ s \notin Held(t, lo, hi)
    BY DEF Held
<1>2. IsFiniteSet(Held(t, lo, hi))
    BY HeldIsFinite
<1>. QED BY <1>1, <1>2, FS_AddElement

LEMMA OneLessIsHeld ==
    ASSUME NEW t, NEW lo \in Nat, NEW hi \in Int, NEW s \in lo .. hi, t[s] # Blank,
           NEW D, t = [i \in D |-> t[i]], lo .. hi \subseteq D
    PROVE  Cardinality(Held([t EXCEPT ![s] = Blank], lo, hi)) = Cardinality(Held(t, lo, hi)) - 1
<1>1. Held([t EXCEPT ![s] = Blank], lo, hi) = Held(t, lo, hi) \ {s} /\ s \in Held(t, lo, hi)
    BY DEF Held
<1>2. IsFiniteSet(Held(t, lo, hi))
    BY HeldIsFinite
<1>. QED BY <1>1, <1>2, FS_RemoveElement

-----------------------------------------------------------------------------
(* Migration *)

New == first + capacity
Size == 2 * capacity
Grown == [slot \in 0 .. New + Size - 1 |-> IF slot < New THEN table[slot] ELSE Blank]
Moved(after, n) ==
    IF n = 0 THEN Grown
    ELSE LET r == table[first + n - 1]
         IN  IF r = Blank THEN after[n - 1]
             ELSE [after[n - 1] EXCEPT ![Registry!Place(after[n - 1], New, Size, r.value)] = r]

LEMMA MovesAre ==
    ASSUME capacity \in Nat
    PROVE  \A n \in 0 .. capacity : Registry!Moves[n] = Moved(Registry!Moves, n)
<1>. DEFINE Good(m, f) == f = [n \in 0 .. m |-> Moved(f, n)]
            T == { m \in 0 .. capacity : \E f : Good(m, f) }
<1>1. 0 \in T
    <2>. DEFINE f == [n \in 0 .. 0 |-> Grown]
    <2>1. f = [n \in 0 .. 0 |-> Moved(f, n)]
        <3>1. \A n \in 0 .. 0 : Moved(f, n) = Grown
            BY DEF Moved
        <3>. QED BY <3>1
    <2>2. Good(0, f)
        BY <2>1
    <2>. HIDE DEF Good
    <2>. QED BY <2>2
<1>2. ASSUME NEW m \in 0 .. capacity - 1, m \in T
      PROVE  m + 1 \in T
    <2>1. PICK f : Good(m, f)
        BY <1>2
    <2>. DEFINE h == [n \in 0 .. m + 1 |-> IF n = m + 1 THEN Moved(f, m + 1) ELSE f[n]]
    <2>2. \A n \in 0 .. m + 1 : h[n] = Moved(h, n)
        <3>. SUFFICES ASSUME NEW n \in 0 .. m + 1 PROVE h[n] = Moved(h, n)
            OBVIOUS
        <3>1. n # 0 => h[n - 1] = f[n - 1]
            OBVIOUS
        <3>2. Moved(h, n) = Moved(f, n)
            <4>. HIDE DEF h
            <4>. QED BY <3>1 DEF Moved
        <3>3. CASE n = m + 1
            BY <3>2, <3>3
        <3>4. CASE n \in 0 .. m
            <4>1. f[n] = Moved(f, n)
                BY <2>1, <3>4
            <4>. QED BY <4>1, <3>2, <3>4
        <3>. QED BY <3>3, <3>4
    <2>3. Good(m + 1, h)
        <3>. HIDE DEF h
        <3>1. h = [n \in 0 .. m + 1 |-> h[n]]
            BY DEF h
        <3>. QED BY <2>2, <3>1
    <2>. HIDE DEF Good, h
    <2>. QED BY <2>3
<1>3. \E f : Good(capacity, f)
    <2>. HIDE DEF T
    <2>1. \A m \in 0 .. capacity - 1 : m \in T => m + 1 \in T
        BY <1>2
    <2>2. \A m \in 0 .. capacity : m \in T
        BY <1>1, <2>1, UpTo
    <2>3. capacity \in T
        BY <2>2
    <2>. QED BY <2>3 DEF T
<1>4. Registry!Moves = CHOOSE f : Good(capacity, f)
    BY Zenon DEF Registry!Moves, Moved, Grown, New, Size, Blank
<1>5. Good(capacity, Registry!Moves)
    <2>. HIDE DEF Good
    <2>. QED BY <1>3, <1>4
<1>. QED BY <1>5
-----------------------------------------------------------------------------
(* Storing *)

LEMMA EmptyPlace ==
    ASSUME NEW t, NEW b, NEW c, Regional(b, c), NEW v \in Values,
           Registry!Found(t, b, c, v) = Blank
    PROVE  \E p \in 0 .. c - 1 :
              /\ Registry!Place(t, b, c, v) = Registry!Slot(b, c, v, p)
              /\ t[Registry!Slot(b, c, v, p)] = Blank
              /\ \A q \in 0 .. p - 1 : t[Registry!Slot(b, c, v, q)] # Blank
<1>1. PICK x \in 0 .. c - 1 : Registry!Ends(t, b, c, v, x)
    BY NothingEnds, RecordsAre
<1>2. PICK p : /\ IsFirst(t, b, c, v, p)
               /\ Registry!Place(t, b, c, v) = Registry!Slot(b, c, v, p)
               /\ Registry!Found(t, b, c, v) = t[Registry!Slot(b, c, v, p)]
    BY <1>1, FirstIsPlace
<1>3. \A q \in 0 .. p - 1 : t[Registry!Slot(b, c, v, q)] # Blank
    BY <1>2 DEF IsFirst, Registry!Ends, Blank
<1>. QED BY <1>2, <1>3 DEF IsFirst

Regions(b, c) == [0 .. b + c - 1 -> Records]
Stored(t, b, c, v, tag) == [t EXCEPT ![Registry!Place(t, b, c, v)] = Rec(v, tag)]

(* A new record in whatever the region holds.                                  *)
LEMMA StoredIsCounted ==
    ASSUME NEW b, NEW c, Regional(b, c), NEW t \in Regions(b, c), NEW v \in Values, NEW tag \in Tags,
           Registry!Found(t, b, c, v) = Blank
    PROVE  /\ Stored(t, b, c, v, tag) \in Regions(b, c)
           /\ Cardinality(Held(Stored(t, b, c, v, tag), b, b + c - 1))
                = Cardinality(Held(t, b, b + c - 1)) + 1
           /\ \A i \in Slots(b, c) : t[i] = Spoilt => Stored(t, b, c, v, tag)[i] = Spoilt
<1>. DEFINE s == Registry!Place(t, b, c, v)
            t2 == [t EXCEPT ![s] = Rec(v, tag)]
<1>1. s \in Slots(b, c) /\ t[s] = Blank
    BY EmptyPlace, SlotIsRegional
<1>2. b \in Nat /\ b + c - 1 \in Int /\ Slots(b, c) \subseteq 0 .. b + c - 1 /\ s \in b .. b + c - 1
    BY <1>1 DEF Regional, Slots
<1>3. t = [i \in 0 .. b + c - 1 |-> t[i]] /\ Rec(v, tag) \in Records /\ Rec(v, tag) # Blank
    BY RecordsAre DEF Regions
<1>. HIDE DEF s
<1>4. t2 \in Regions(b, c) /\ \A i \in Slots(b, c) : t[i] = Spoilt => t2[i] = Spoilt
    BY <1>1, <1>2, <1>3, RecordsAre DEF Regions
<1>5. Cardinality(Held(t2, b, b + c - 1)) = Cardinality(Held(t, b, b + c - 1)) + 1
    BY <1>1, <1>2, <1>3, OneMoreIsHeld DEF Slots
<1>. QED BY <1>4, <1>5 DEF s, Stored

(* In a sound region it leaves a sound one.                                    *)
LEMMA StoringIsSound ==
    ASSUME NEW b, NEW c, Regional(b, c), NEW t \in Regions(b, c), NEW v \in Values, NEW tag \in Tags,
           NEW A \in Acceptances, Sound(t, b, c, A), A[v] = "empty",
           Cardinality(Held(t, b, b + c - 1)) < c
    PROVE  /\ Registry!Found(t, b, c, v) = Blank
           /\ Sound(Stored(t, b, c, v, tag), b, c, [A EXCEPT ![v] = tag])
<1>1. PICK s \in Slots(b, c) : t[s] = Blank
    BY SomeAreEmpty DEF Regional
<1>2. Registry!Found(t, b, c, v) = Blank
    BY <1>1, OthersAreNot
<1>3. PICK p \in 0 .. c - 1 :
          /\ Registry!Place(t, b, c, v) = Registry!Slot(b, c, v, p)
          /\ t[Registry!Slot(b, c, v, p)] = Blank
          /\ \A q \in 0 .. p - 1 : t[Registry!Slot(b, c, v, q)] # Blank
    BY <1>2, EmptyPlace
<1>4. t = [i \in 0 .. b + c - 1 |-> t[i]] /\ Slots(b, c) \subseteq 0 .. b + c - 1
    BY DEF Regions, Regional, Slots
<1>5. Sound([t EXCEPT ![Registry!Slot(b, c, v, p)] = Rec(v, tag)], b, c, [A EXCEPT ![v] = tag])
    BY <1>3, <1>4, StoredIsSound
<1>. QED BY <1>2, <1>3, <1>5 DEF Stored

-----------------------------------------------------------------------------
(* The larger region after some slots of the smaller one *)

Passed(n) == [v \in Values |-> IF \E s \in first .. first + n - 1 : table[s].value = v
                               THEN declared[v] ELSE "empty"]
IsMoved(n, t) ==
    /\ t \in Regions(New, Size)
    /\ Sound(t, New, Size, Passed(n))
    /\ Cardinality(Held(t, New, New + Size - 1)) = Cardinality(Held(table, first, first + n - 1))

SoundNow ==
    /\ Regional(first, capacity) /\ table \in Regions(first, capacity) /\ declared \in Acceptances
    /\ Sound(table, first, capacity, declared)

LEMMA SizesAre ==
    ASSUME SoundNow
    PROVE  /\ Regional(New, Size) /\ New + Size - 1 \in Nat
           /\ Slots(first, capacity) \subseteq 0 .. New - 1
           /\ capacity \in Nat \ {0} /\ first \in Nat
BY DEF SoundNow, Regional, New, Size, Slots

LEMMA PassedAreAcceptances ==
    ASSUME SoundNow, NEW n
    PROVE  Passed(n) \in Acceptances
BY DEF SoundNow, Passed, Acceptances

LEMMA NothingIsMoved ==
    ASSUME SoundNow
    PROVE  IsMoved(0, Grown)
<1>1. Grown \in Regions(New, Size)
    <2>. SUFFICES ASSUME NEW i \in 0 .. New + Size - 1 PROVE Grown[i] \in Records
        BY DEF Regions, Grown
    <2>1. i < New => i \in 0 .. first + capacity - 1
        BY SizesAre DEF New
    <2>. QED BY <2>1, RecordsAre DEF Grown, SoundNow, Regions
<1>2. \A i \in Slots(New, Size) : Grown[i] = Blank
    BY SizesAre DEF Grown, Slots, Regional
<1>3. \A v \in Values : Passed(0)[v] = "empty"
    BY SizesAre DEF Passed
<1>4. Sound(Grown, New, Size, Passed(0))
    BY <1>2, <1>3 DEF Sound, OnlyAccepted, HeldOnce
<1>5. Held(Grown, New, New + Size - 1) = {} /\ Held(table, first, first + 0 - 1) = {}
    BY <1>2, SizesAre DEF Held, Slots
<1>. QED BY <1>1, <1>4, <1>5 DEF IsMoved

LEMMA EmptyIsPassed ==
    ASSUME SoundNow, NEW n \in 0 .. capacity - 1, NEW t, IsMoved(n, t), table[first + n] = Blank
    PROVE  IsMoved(n + 1, t)
<1>1. \A s : s \in first .. first + (n + 1) - 1 <=> s \in first .. first + n - 1 \/ s = first + n
    BY SizesAre
<1>2. \A v \in Values : table[first + n].value # v
    BY RecordsAre
<1>3. Passed(n + 1) = Passed(n)
    BY <1>1, <1>2 DEF Passed
<1>4. Held(table, first, first + (n + 1) - 1) = Held(table, first, first + n - 1)
    BY <1>1 DEF Held
<1>. QED BY <1>3, <1>4 DEF IsMoved

LEMMA RecordIsPassed ==
    ASSUME SoundNow, NEW n \in 0 .. capacity - 1, NEW t, IsMoved(n, t), table[first + n] # Blank
    PROVE  LET r == table[first + n]
           IN  IsMoved(n + 1, [t EXCEPT ![Registry!Place(t, New, Size, r.value)] = r])
<1>. DEFINE s == first + n
            r == table[s]
            lo == first
            old == Held(table, first, first + n - 1)
<1>1. s \in Slots(first, capacity) /\ n \in Nat
    BY SizesAre DEF Slots
<1>2. PICK v \in Values : declared[v] # "empty" /\ r = Rec(v, declared[v])
    BY <1>1 DEF SoundNow, Sound, OnlyAccepted
<1>. DEFINE tag == declared[v]
<1>3. tag \in Tags /\ r.value = v
    BY <1>2, RecordsAre DEF SoundNow, Acceptances
<1>4. \A i : i \in first .. first + (n + 1) - 1 <=> i \in first .. first + n - 1 \/ i = s
    BY SizesAre
<1>5. \A i \in first .. first + n - 1 : i \in Slots(first, capacity) /\ i # s
    BY SizesAre DEF Slots
<1>6. \A i \in first .. first + n - 1 : table[i].value # v
    <2>. SUFFICES ASSUME NEW i \in first .. first + n - 1, table[i].value = v PROVE FALSE
        OBVIOUS
    <2>1. r # Blank /\ r.value = table[i].value
        BY <1>2, <1>3
    <2>. QED BY <2>1, <1>1, <1>5 DEF SoundNow, Sound, HeldOnce
<1>7. Passed(n)[v] = "empty" /\ Passed(n) \in Acceptances
    BY <1>6, PassedAreAcceptances DEF Passed
<1>8. Passed(n + 1) = [Passed(n) EXCEPT ![v] = tag]
    <2>1. \A u \in Values : Passed(n + 1)[u] = IF u = v THEN tag ELSE Passed(n)[u]
        BY <1>3, <1>4 DEF Passed
    <2>2. Passed(n + 1) = [u \in Values |-> Passed(n + 1)[u]] /\ Passed(n) = [u \in Values |-> Passed(n)[u]]
        BY DEF Passed
    <2>. QED BY <2>1, <2>2
<1>9. Held(table, first, first + (n + 1) - 1) = old \cup {s} /\ s \notin old
    BY <1>4, <1>5 DEF Held
<1>10. IsFiniteSet(old) /\ Cardinality(old) \in Nat /\ Cardinality(old) <= n
    <2>1. first \in Nat /\ first + n - 1 \in Int
        BY SizesAre
    <2>2. CASE n = 0
        <3>1. old = {}
            BY <2>2, SizesAre DEF Held
        <3>. QED BY <3>1, <2>2, FS_EmptySet
    <2>3. CASE n # 0
        <3>1. first + n - 1 >= first /\ (first + n - 1) - first + 1 = n
            BY <2>3, SizesAre
        <3>. QED BY <3>1, <2>1, HeldIsFinite
    <2>. QED BY <2>2, <2>3
<1>11. Cardinality(old \cup {s}) = Cardinality(old) + 1
    BY <1>9, <1>10, FS_AddElement
<1>12. Cardinality(Held(t, New, New + Size - 1)) = Cardinality(old)
    BY DEF IsMoved
<1>13. Cardinality(old) < Size
    BY <1>10, SizesAre DEF Size
<1>14. /\ t \in Regions(New, Size) /\ Sound(t, New, Size, Passed(n)) /\ Regional(New, Size)
       /\ Cardinality(Held(t, New, New + Size - 1)) < Size
    BY <1>12, <1>13, SizesAre DEF IsMoved
<1>. DEFINE t2 == Stored(t, New, Size, v, tag)
<1>. HIDE DEF tag
<1>15. /\ Registry!Found(t, New, Size, v) = Blank
       /\ Sound(t2, New, Size, [Passed(n) EXCEPT ![v] = tag])
    BY <1>3, <1>7, <1>14, StoringIsSound
<1>16. /\ t2 \in Regions(New, Size)
       /\ Cardinality(Held(t2, New, New + Size - 1)) = Cardinality(Held(t, New, New + Size - 1)) + 1
    BY <1>3, <1>14, <1>15, StoredIsCounted
<1>. HIDE DEF t2, s, old
<1>17. IsMoved(n + 1, t2)
    BY <1>8, <1>9, <1>11, <1>12, <1>15, <1>16 DEF IsMoved, old
<1>. QED BY <1>2, <1>3, <1>17 DEF t2, tag, s, Stored

LEMMA MigratedIsSound ==
    ASSUME SoundNow
    PROVE  /\ Registry!Migrated \in Regions(New, Size)
           /\ Sound(Registry!Migrated, New, Size, declared)
           /\ Cardinality(Held(Registry!Migrated, New, New + Size - 1))
                = Cardinality(Held(table, first, first + capacity - 1))
<1>. DEFINE T == { n \in 0 .. capacity : IsMoved(n, Registry!Moves[n]) }
<1>1. capacity \in Nat /\ \A n \in 0 .. capacity : Registry!Moves[n] = Moved(Registry!Moves, n)
    BY SizesAre, MovesAre
<1>2. 0 \in T
    <2>1. 0 \in 0 .. capacity
        BY <1>1
    <2>2. Registry!Moves[0] = Moved(Registry!Moves, 0)
        BY <1>1, <2>1
    <2>3. Moved(Registry!Moves, 0) = Grown
        BY DEF Moved
    <2>. QED BY <2>1, <2>2, <2>3, NothingIsMoved
<1>3. ASSUME NEW n \in 0 .. capacity - 1, n \in T
      PROVE  n + 1 \in T
    <2>. DEFINE t == Registry!Moves[n]
                r == table[first + n]
                m == n + 1
    <2>1. IsMoved(n, t) /\ m \in 0 .. capacity /\ m # 0 /\ m - 1 = n /\ first + m - 1 = first + n
        BY <1>1, <1>3, SizesAre
    <2>. HIDE DEF m
    <2>2. Registry!Moves[m] = IF r = Blank THEN t
                              ELSE [t EXCEPT ![Registry!Place(t, New, Size, r.value)] = r]
        BY <1>1, <2>1 DEF Moved
    <2>. HIDE DEF t
    <2>3. IsMoved(n + 1, Registry!Moves[m])
        <3>1. CASE r = Blank
            BY <3>1, <2>1, <2>2, EmptyIsPassed
        <3>2. CASE r # Blank
            BY <3>2, <2>1, <2>2, RecordIsPassed
        <3>. QED BY <3>1, <3>2
    <2>. QED BY <2>1, <2>3 DEF m
<1>4. \A n \in 0 .. capacity : n \in T
    <2>. HIDE DEF T
    <2>. QED BY <1>1, <1>2, <1>3, UpTo
<1>5. IsMoved(capacity, Registry!Moves[capacity])
    BY <1>1, <1>4
<1>6. Passed(capacity) = declared
    <2>1. declared = [v \in Values |-> declared[v]]
        BY DEF SoundNow, Acceptances
    <2>2. ASSUME NEW v \in Values, declared[v] # "empty"
          PROVE  \E s \in first .. first + capacity - 1 : table[s].value = v
        <3>1. PICK p \in 0 .. capacity - 1 :
                  table[Registry!Slot(first, capacity, v, p)] = Rec(v, declared[v])
            BY <2>2 DEF SoundNow, Sound, Reached
        <3>2. Registry!Slot(first, capacity, v, p) \in Slots(first, capacity)
            BY SlotIsRegional DEF SoundNow
        <3>3. Rec(v, declared[v]).value = v
            BY DEF Rec, Registry!Record
        <3>. QED BY <3>1, <3>2, <3>3 DEF Slots
    <2>. QED BY <2>1, <2>2 DEF Passed
<1>. QED BY <1>5, <1>6 DEF IsMoved, Registry!Migrated
-----------------------------------------------------------------------------
(* The registry *)

Counted == Cardinality(Held(table, first, first + capacity - 1))
Suspect == Registry!ScanFails(table, first, capacity, count)

RTypes ==
    /\ Regional(first, capacity) /\ table \in Regions(first, capacity)
    /\ declared \in Acceptances
    /\ count \in Nat /\ 2 * count <= capacity /\ Counted <= count
Exact ==
    /\ ~mistaken
    /\ Sound(table, first, capacity, declared)
    /\ Counted = count

(* An open registry holds exactly what was accepted, or a scan of it fails.    *)
RInv ==
    /\ mistaken \in BOOLEAN /\ damages \in Nat /\ state \in {"open", "failed", "closed"}
    /\ damages = 0 => ~mistaken
    /\ state = "failed" => damages # 0
    /\ state = "closed" => ~mistaken
    /\ state = "open" => RTypes /\ (Exact \/ (damages # 0 /\ Suspect))

LEMMA SameCardinality ==
    ASSUME NEW S
    PROVE  Registry!Cardinality(S) = Cardinality(S)
BY Zenon DEF Registry!Cardinality, Cardinality

LEMMA ScanFailsIf ==
    ASSUME NEW t, NEW b, NEW c, NEW n
    PROVE  Registry!ScanFails(t, b, c, n) <=>
               \/ \E s \in Slots(b, c) : t[s] = Spoilt
               \/ Cardinality(Held(t, b, b + c - 1)) # n
BY OccupiedIsHeld, SameCardinality DEF Registry!ScanFails, Slots, Spoilt

LEMMA SoundScanPasses ==
    ASSUME NEW t, NEW b, NEW c, NEW A \in Acceptances, Sound(t, b, c, A), NEW n,
           Cardinality(Held(t, b, b + c - 1)) = n
    PROVE  ~Registry!ScanFails(t, b, c, n)
<1>1. ASSUME NEW s \in Slots(b, c), t[s] = Spoilt PROVE FALSE
    <2>1. PICK v \in Values : A[v] # "empty" /\ t[s] = Rec(v, A[v])
        BY <1>1, RecordsAre DEF Sound, OnlyAccepted
    <2>2. A[v] \in Tags
        BY <2>1 DEF Acceptances
    <2>. QED BY <1>1, <2>1, <2>2, RecordsAre
<1>. QED BY <1>1, ScanFailsIf

(* What storing a value not found does to an open registry: a sound one stays  *)
(* sound and holds one more; what a scan would notice it still notices.        *)
Grows(v, tag) ==
    /\ Regional(first', capacity') /\ table' \in Regions(first', capacity')
    /\ count' \in Nat /\ 2 * count' <= capacity'
    /\ Counted' <= count'
    /\ Suspect => Suspect'
    /\ Exact => /\ Sound(table', first', capacity', [declared EXCEPT ![v] = tag])
                /\ Counted' = count'

LEMMA NotFoundIsNew ==
    ASSUME RTypes, Exact, NEW v \in Values, Registry!Found(table, first, capacity, v) = Blank
    PROVE  declared[v] = "empty"
<1>1. declared[v] # "empty" => declared[v] \in Tags
    BY DEF RTypes, Acceptances
<1>. QED BY <1>1, AcceptedIsFound, RecordsAre DEF RTypes, Exact

LEMMA StoreHere ==
    ASSUME RTypes, NEW v \in Values, NEW tag \in Tags,
           Registry!Found(table, first, capacity, v) = Blank,
           ~Registry!IsCrowded,
           table' = Stored(table, first, capacity, v, tag),
           count' = count + 1, UNCHANGED <<first, capacity>>
    PROVE  Grows(v, tag)
<1>1. /\ Regional(first, capacity) /\ table \in Regions(first, capacity) /\ count \in Nat
      /\ first \in Nat /\ capacity \in Nat \ {0} /\ first + capacity - 1 \in Int
    BY DEF RTypes, Regional
<1>2. /\ table' \in Regions(first, capacity)
      /\ Cardinality(Held(table', first, first + capacity - 1)) = Counted + 1
      /\ \A i \in Slots(first, capacity) : table[i] = Spoilt => table'[i] = Spoilt
    BY <1>1, StoredIsCounted DEF Counted
<1>3. Counted \in Nat /\ Counted <= count
    BY <1>1, HeldIsFinite DEF Counted, RTypes
<1>4. Counted' = Counted + 1
    BY <1>2 DEF Counted
<1>5. count' \in Nat /\ 2 * count' <= capacity' /\ Counted' <= count'
    BY <1>1, <1>3, <1>4 DEF Registry!IsCrowded
<1>6. Suspect => Suspect'
    <2>1. Suspect <=> \/ \E s \in Slots(first, capacity) : table[s] = Spoilt
                      \/ Counted # count
        BY ScanFailsIf DEF Suspect, Counted
    <2>2. Suspect' <=> \/ \E s \in Slots(first', capacity') : table'[s] = Spoilt
                       \/ Counted' # count'
        BY ScanFailsIf DEF Suspect, Counted
    <2>3. Counted # count => Counted' # count'
        BY <1>1, <1>3, <1>4
    <2>. QED BY <1>2, <2>1, <2>2, <2>3
<1>7. Exact => Sound(table', first', capacity', [declared EXCEPT ![v] = tag]) /\ Counted' = count'
    <2>. SUFFICES ASSUME Exact
                  PROVE  Sound(table', first', capacity', [declared EXCEPT ![v] = tag]) /\ Counted' = count'
        OBVIOUS
    <2>1. Sound(table, first, capacity, declared) /\ Counted = count /\ declared \in Acceptances
        BY DEF Exact, RTypes
    <2>2. Cardinality(Held(table, first, first + capacity - 1)) < capacity
        BY <1>1, <2>1 DEF RTypes, Counted
    <2>3. declared[v] = "empty"
        BY NotFoundIsNew
    <2>4. Sound(Stored(table, first, capacity, v, tag), first, capacity, [declared EXCEPT ![v] = tag])
        BY <1>1, <2>1, <2>2, <2>3, StoringIsSound
    <2>. QED BY <1>4, <2>1, <2>4
<1>. QED BY <1>1, <1>2, <1>5, <1>6, <1>7 DEF Grows

LEMMA StoreElsewhere ==
    ASSUME RTypes, NEW v \in Values, NEW tag \in Tags, Exact,
           Registry!Found(table, first, capacity, v) = Blank,
           table' = Stored(Registry!Migrated, New, Size, v, tag),
           first' = New, capacity' = Size, count' = count + 1
    PROVE  Grows(v, tag)
<1>. DEFINE moved == Registry!Migrated
<1>1. SoundNow /\ Counted = count /\ count \in Nat /\ declared \in Acceptances
    BY DEF RTypes, Exact, SoundNow
<1>2. /\ moved \in Regions(New, Size) /\ Sound(moved, New, Size, declared)
      /\ Cardinality(Held(moved, New, New + Size - 1)) = count
    BY <1>1, MigratedIsSound DEF Counted
<1>3. Regional(New, Size) /\ capacity \in Nat \ {0} /\ New \in Nat /\ New + Size - 1 \in Int
    BY <1>1, SizesAre DEF Regional
<1>4. count < Size /\ 2 * (count + 1) <= Size /\ Size \in Nat
    BY <1>1, <1>3 DEF Size, RTypes
<1>5. declared[v] = "empty"
    BY NotFoundIsNew
<1>. HIDE DEF moved
<1>6. /\ Registry!Found(moved, New, Size, v) = Blank
      /\ Sound(Stored(moved, New, Size, v, tag), New, Size, [declared EXCEPT ![v] = tag])
    BY <1>1, <1>2, <1>3, <1>4, <1>5, StoringIsSound
<1>. DEFINE t2 == Stored(moved, New, Size, v, tag)
<1>7. /\ t2 \in Regions(New, Size)
      /\ Cardinality(Held(t2, New, New + Size - 1)) = count + 1
    BY <1>2, <1>3, <1>6, StoredIsCounted
<1>8. table' = t2
    BY DEF moved
<1>. HIDE DEF t2
<1>9. Counted' = count + 1
    BY <1>7, <1>8 DEF Counted
<1>10. ~Suspect
    BY <1>1, SoundScanPasses DEF Suspect, Counted, SoundNow
<1>11. Sound(t2, New, Size, [declared EXCEPT ![v] = tag])
    BY <1>6 DEF t2
<1>12. count' \in Nat /\ 2 * count' <= capacity' /\ Counted' = count' /\ Counted' <= count'
    BY <1>1, <1>4, <1>9
<1>13. Regional(first', capacity') /\ table' \in Regions(first', capacity')
    BY <1>3, <1>7, <1>8
<1>14. Sound(table', first', capacity', [declared EXCEPT ![v] = tag])
    BY <1>8, <1>11
<1>. QED BY <1>10, <1>12, <1>13, <1>14 DEF Grows

LEMMA StoreIs ==
    ASSUME RTypes, Exact \/ Suspect, NEW v \in Values, NEW tag \in Tags, Registry!Store(v, tag),
           Registry!Found(table, first, capacity, v) = Blank, state = "open"
    PROVE  (state' = "failed" /\ Suspect) \/ (state' = "open" /\ Grows(v, tag))
<1>1. CASE ~Registry!IsCrowded
    BY <1>1, StoreHere DEF Registry!Store, Rec, Stored
<1>2. CASE Registry!IsCrowded /\ Suspect
    BY <1>2 DEF Registry!Store, Registry!Fails, Suspect
<1>3. CASE Registry!IsCrowded /\ ~Suspect
    <2>1. Exact /\ SoundNow /\ Counted = count
        BY <1>3 DEF Exact, RTypes, SoundNow
    <2>2. ~Registry!ScanFails(Registry!Migrated, New, Size, count)
        BY <2>1, MigratedIsSound, SoundScanPasses DEF SoundNow, Counted
    <2>3. /\ table' = Stored(Registry!Migrated, New, Size, v, tag)
          /\ first' = New /\ capacity' = Size /\ count' = count + 1 /\ state' = "open"
        BY <1>3, <2>2 DEF Registry!Store, Suspect, New, Size, Rec, Stored
    <2>. QED BY <2>1, <2>3, StoreElsewhere
<1>. QED BY <1>1, <1>2, <1>3

-----------------------------------------------------------------------------
(* The operations of the registry *)

LEMMA ExactScanPasses ==
    ASSUME RTypes, Exact
    PROVE  ~Suspect
BY SoundScanPasses DEF RTypes, Exact, Suspect, Counted

(* What an open registry has to be after a step.                               *)
LEMMA RegionalNow ==
    ASSUME hash' = hash, Regional(first', capacity')
    PROVE  Regional(first, capacity)'
BY DEF Regional

LEMMA SoundNext ==
    ASSUME hash' = hash, Sound(table', first', capacity', declared')
    PROVE  Sound(table, first, capacity, declared)'
BY DEF Sound, OnlyAccepted, HeldOnce, Reached, Registry!Slot

(* While it is exact a lookup tells what was accepted.                         *)
LEMMA FoundIsExact ==
    ASSUME RInv, state = "open", Exact, NEW v \in Values
    PROVE  LET r == Registry!Found(table, first, capacity, v)
           IN  r # Spoilt /\ (r # Blank <=> declared[v] # "empty") /\ r.tag = declared[v]
<1>. DEFINE r == Registry!Found(table, first, capacity, v)
<1>1. RTypes
    BY DEF RInv
<1>2. CASE declared[v] # "empty"
    <2>1. declared[v] \in Tags
        BY <1>1, <1>2 DEF RTypes, Acceptances
    <2>2. r = Rec(v, declared[v])
        BY <1>1, <1>2, AcceptedIsFound DEF RTypes, Exact
    <2>. QED BY <1>2, <2>1, <2>2, RecordsAre
<1>3. CASE declared[v] = "empty"
    <2>1. Cardinality(Held(table, first, first + capacity - 1)) < capacity
        BY <1>1 DEF RTypes, Exact, Counted, Regional
    <2>2. "seal" \in Tags
        BY DEF Tags
    <2>3. r = Blank
        BY <1>1, <1>3, <2>1, <2>2, StoringIsSound DEF RTypes, Exact
    <2>. QED BY <1>3, <2>3, RecordsAre
<1>. QED BY <1>2, <1>3

LEMMA DeclarationIsGood ==
    ASSUME RInv, state = "open", NEW v \in Values, NEW tag \in Tags,
           NEW collides \in BOOLEAN, NEW exact \in BOOLEAN,
           Registry!Answer(v, tag, collides, exact),
           LET r == Registry!Found(table, first, capacity, v)
           IN  /\ \/ r = Spoilt /\ Registry!Fails
                  \/ r = Blank /\ Registry!Store(v, tag)
                  \/ r \notin {Spoilt, Blank} /\ UNCHANGED Registry!registry
               /\ r = Blank => ~collides
               /\ Exact => (collides <=> exact)
               /\ Exact /\ r # Blank /\ ~collides => declared[v] # "empty"
    PROVE  RInv'
<1>. DEFINE r == Registry!Found(table, first, capacity, v)
<1>1. RTypes /\ (Exact \/ (damages # 0 /\ Suspect)) /\ mistaken \in BOOLEAN /\ damages \in Nat
    BY DEF RInv
<1>2. /\ hash' = hash /\ damages' = damages
      /\ mistaken' = (mistaken \/ (state' = "open" /\ collides # exact))
      /\ declared' = IF state' = "open" /\ ~collides /\ declared[v] = "empty"
                     THEN [declared EXCEPT ![v] = tag] ELSE declared
    BY DEF Registry!Answer
<1>3. mistaken' \in BOOLEAN /\ damages' \in Nat /\ declared' \in Acceptances
    BY <1>1, <1>2 DEF RTypes, Acceptances
<1>4. Exact => ~mistaken'
    <2>. SUFFICES ASSUME Exact PROVE ~mistaken'
        OBVIOUS
    <2>1. collides = exact /\ ~mistaken
        BY DEF Exact
    <2>. QED BY <1>2, <2>1
<1>5. damages' = 0 => ~mistaken'
    BY <1>1, <1>2, <1>4
<1>6. CASE r = Spoilt /\ Registry!Fails
    <2>1. ~Exact
        BY <1>6, FoundIsExact
    <2>2. state' = "failed"
        BY <1>6 DEF Registry!Fails
    <2>. QED BY <1>1, <1>2, <1>3, <1>5, <2>1, <2>2 DEF RInv
<1>7. CASE r = Blank /\ Registry!Store(v, tag)
    <2>1. (state' = "failed" /\ Suspect) \/ (state' = "open" /\ Grows(v, tag))
        BY <1>1, <1>7, StoreIs
    <2>2. CASE state' = "failed" /\ Suspect
        <3>1. damages' # 0
            BY <1>1, <1>2, <2>2, ExactScanPasses
        <3>. QED BY <1>3, <1>5, <2>2, <3>1 DEF RInv
    <2>3. CASE state' = "open" /\ Grows(v, tag)
        <3>1. RTypes'
            BY <1>2, <1>3, <2>3, RegionalNow DEF RTypes, Grows
        <3>2. Exact => Exact'
            <4>. SUFFICES ASSUME Exact PROVE Exact'
                OBVIOUS
            <4>1. declared' = [declared EXCEPT ![v] = tag]
                BY <1>1, <1>2, <1>7, <2>3, NotFoundIsNew
            <4>2. Sound(table', first', capacity', declared') /\ Counted' = count'
                BY <2>3, <4>1 DEF Grows
            <4>. QED BY <1>2, <1>4, <4>2, SoundNext DEF Exact
        <3>3. Exact' \/ (damages' # 0 /\ Suspect')
            BY <1>1, <1>2, <2>3, <3>2 DEF Grows
        <3>. QED BY <1>3, <1>5, <2>3, <3>1, <3>3 DEF RInv
    <2>. QED BY <2>1, <2>2, <2>3
<1>8. CASE r \notin {Spoilt, Blank} /\ UNCHANGED Registry!registry
    <2>1. table' = table /\ first' = first /\ capacity' = capacity /\ count' = count /\ state' = "open"
        BY <1>8 DEF Registry!registry
    <2>2. Counted' = Counted /\ Suspect' = Suspect
        BY <2>1 DEF Counted, Suspect, Registry!ScanFails, Registry!Occupied
    <2>3. RTypes'
        BY <1>1, <1>2, <1>3, <2>1, <2>2, RegionalNow DEF RTypes
    <2>4. Exact => Exact'
        <3>. SUFFICES ASSUME Exact PROVE Exact'
            OBVIOUS
        <3>1. declared' = declared
            BY <1>2, <1>8
        <3>2. Sound(table', first', capacity', declared')
            BY <2>1, <3>1 DEF Exact
        <3>. QED BY <1>2, <1>4, <2>1, <2>2, <3>2, SoundNext DEF Exact
    <2>. QED BY <1>1, <1>2, <1>3, <1>5, <2>1, <2>2, <2>3, <2>4 DEF RInv
<1>. QED BY <1>6, <1>7, <1>8

LEMMA CoreIsGood ==
    ASSUME RInv, NEW v \in Values, NEW tag \in Kinds, Registry!DeclareCore(v, tag)
    PROVE  RInv'
<1>. DEFINE r == Registry!Found(table, first, capacity, v)
            collides == r # Blank
            exact == declared[v] # "empty"
<1>1. tag \in Tags /\ state = "open" /\ Registry!Answer(v, tag, collides, exact)
    BY DEF Registry!DeclareCore, Tags, Blank
<1>2. \/ r = Spoilt /\ Registry!Fails
      \/ r = Blank /\ Registry!Store(v, tag)
      \/ r \notin {Spoilt, Blank} /\ UNCHANGED Registry!registry
    BY RecordsAre DEF Registry!DeclareCore, Blank, Spoilt
<1>3. Exact => (collides <=> exact)
    BY <1>1, FoundIsExact
<1>. QED BY <1>1, <1>2, <1>3, DeclarationIsGood

LEMMA SealIsGood ==
    ASSUME RInv, NEW v \in Values, Registry!DeclareSeal(v)
    PROVE  RInv'
<1>. DEFINE r == Registry!Found(table, first, capacity, v)
            collides == r.tag \notin {"empty", "operation"}
            exact == declared[v] \notin {"empty", "operation"}
<1>1. "seal" \in Tags /\ state = "open" /\ Registry!Answer(v, "seal", collides, exact)
    BY DEF Registry!DeclareSeal, Tags
<1>2. \/ r = Spoilt /\ Registry!Fails
      \/ r = Blank /\ Registry!Store(v, "seal")
      \/ r \notin {Spoilt, Blank} /\ UNCHANGED Registry!registry
    BY RecordsAre DEF Registry!DeclareSeal, Blank, Spoilt
<1>3. Exact => (r # Blank <=> declared[v] # "empty") /\ r.tag = declared[v]
    BY <1>1, FoundIsExact
<1>4. r = Blank => ~collides
    BY RecordsAre
<1>. QED BY <1>1, <1>2, <1>3, <1>4, DeclarationIsGood

(* The scan that closes a registry passes only what is exact.                  *)
LEMMA CloseIsGood ==
    ASSUME RInv, Registry!Close
    PROVE  RInv'
<1>1. /\ state = "open" /\ mistaken' = mistaken /\ damages' = damages
      /\ state' = IF Suspect THEN "failed" ELSE "closed"
    BY DEF Registry!Close, Suspect
<1>2. Suspect => damages # 0
    BY <1>1, ExactScanPasses DEF RInv
<1>3. ~Suspect => ~mistaken
    BY <1>1 DEF RInv, Exact
<1>. QED BY <1>1, <1>2, <1>3 DEF RInv

(* After damage the current region can never pass a scan again.                *)
LEMMA DamageIsGood ==
    ASSUME RInv, Registry!Damage
    PROVE  RInv'
<1>1. PICK s \in Registry!Occupied(table, first, capacity), r \in {Blank, Spoilt} :
          table' = [table EXCEPT ![s] = r]
    BY DEF Registry!Damage, Blank, Spoilt
<1>2. /\ state = "open" /\ damages' = damages + 1
      /\ UNCHANGED <<hash, first, capacity, count, state, declared, mistaken>>
    BY DEF Registry!Damage
<1>3. /\ RTypes /\ mistaken \in BOOLEAN /\ damages \in Nat
      /\ Regional(first, capacity) /\ table \in Regions(first, capacity) /\ count \in Nat
      /\ Counted <= count
    BY <1>2 DEF RInv, RTypes
<1>. DEFINE lo == first
            hi == first + capacity - 1
<1>4. /\ lo \in Nat /\ hi \in Int /\ s \in lo .. hi /\ table[s] # Blank
      /\ table = [i \in 0 .. hi |-> table[i]] /\ lo .. hi \subseteq 0 .. hi
    BY <1>1, <1>3 DEF Registry!Occupied, Blank, Regional, Regions
<1>5. table' \in Regions(first, capacity)
    BY <1>1, <1>3, <1>4, RecordsAre DEF Regions
<1>6. Counted \in Nat
    BY <1>4, HeldIsFinite DEF Counted
<1>7. Counted' <= count /\ (Counted' # count \/ \E i \in Slots(first, capacity) : table'[i] = Spoilt)
    <2>1. Counted' = Cardinality(Held(table', lo, hi))
        BY <1>2 DEF Counted
    <2>2. CASE r = Blank
        <3>1. Cardinality(Held([table EXCEPT ![s] = Blank], lo, hi)) = Cardinality(Held(table, lo, hi)) - 1
            <4>. HIDE DEF lo, hi
            <4>. QED BY <1>4, OneLessIsHeld
        <3>2. Counted' = Counted - 1
            BY <1>1, <2>1, <2>2, <3>1 DEF Counted
        <3>. QED BY <1>3, <1>6, <3>2
    <2>3. CASE r = Spoilt
        <3>1. Held([table EXCEPT ![s] = Spoilt], lo, hi) = Held(table, lo, hi)
            <4>. HIDE DEF lo, hi
            <4>1. Spoilt # Blank
                BY RecordsAre
            <4>. HIDE DEF Spoilt
            <4>. QED BY <1>4, <4>1 DEF Held
        <3>2. Counted' = Counted
            BY <1>1, <2>1, <2>3, <3>1 DEF Counted
        <3>3. table'[s] = Spoilt /\ s \in Slots(first, capacity)
            BY <1>1, <1>4, <2>3 DEF Slots
        <3>. QED BY <1>3, <3>2, <3>3
    <2>. QED BY <2>2, <2>3
<1>8. Suspect'
    <2>1. Suspect' <=> \/ \E i \in Slots(first', capacity') : table'[i] = Spoilt
                       \/ Counted' # count'
        BY ScanFailsIf DEF Suspect, Counted
    <2>. QED BY <1>2, <1>7, <2>1
<1>9. RTypes'
    BY <1>2, <1>3, <1>5, <1>7, RegionalNow DEF RTypes
<1>10. damages' \in Nat /\ damages' # 0
    BY <1>2, <1>3
<1>. QED BY <1>2, <1>3, <1>8, <1>9, <1>10 DEF RInv

LEMMA RegistryStutters ==
    ASSUME RInv, UNCHANGED registry
    PROVE  RInv'
<1>1. /\ hash' = hash /\ table' = table /\ first' = first /\ capacity' = capacity /\ count' = count
      /\ state' = state /\ declared' = declared /\ mistaken' = mistaken /\ damages' = damages
    BY DEF registry
<1>2. Counted' = Counted /\ Suspect' = Suspect
    BY <1>1 DEF Counted, Suspect, Registry!ScanFails, Registry!Occupied
<1>3. RTypes => RTypes'
    BY <1>1, <1>2, RegionalNow DEF RTypes
<1>4. Exact => Exact'
    BY <1>1, <1>2, SoundNext DEF Exact
<1>. QED BY <1>1, <1>2, <1>3, <1>4 DEF RInv

LEMMA RegistryBegins ==
    ASSUME Registry!Init
    PROVE  RInv
<1>1. /\ hash \in [Values -> Hashes] /\ table = [s \in 0 .. InitialCapacity - 1 |-> Blank]
      /\ first = 0 /\ capacity = InitialCapacity /\ count = 0 /\ state = "open"
      /\ declared = [v \in Values |-> "empty"] /\ mistaken = FALSE /\ damages = 0
    BY DEF Registry!Init, Blank
<1>2. InitialCapacity \in Nat \ {0} /\ Regional(first, capacity)
    BY <1>1, AllConstantsAreLegal DEF Registry!ConstantsAreLegal, Regional
<1>3. table \in Regions(first, capacity) /\ declared \in Acceptances
    BY <1>1, <1>2, RecordsAre DEF Regions, Acceptances
<1>4. \A s \in Slots(first, capacity) : table[s] = Blank
    BY <1>1, <1>2 DEF Slots
<1>5. Counted = 0
    <2>1. Held(table, first, first + capacity - 1) = {}
        BY <1>4 DEF Held, Slots
    <2>. QED BY <2>1, FS_EmptySet DEF Counted
<1>6. Sound(table, first, capacity, declared)
    BY <1>1, <1>4 DEF Sound, OnlyAccepted, HeldOnce
<1>7. RTypes
    BY <1>1, <1>2, <1>3, <1>5 DEF RTypes
<1>8. Exact
    BY <1>1, <1>5, <1>6 DEF Exact
<1>. QED BY <1>1, <1>7, <1>8 DEF RInv

LEMMA RegistryInvariance == MCSpec => [](subject = "registry" => RInv)
<1>. DEFINE Inv == subject = "registry" => RInv
<1>1. MCInit => Inv
    BY RegistryBegins DEF MCInit
<1>2. Inv /\ [MCNext]_<<subject, vars, registry>> => Inv'
    <2>1. ASSUME RInv, subject = "registry", MCNext PROVE RInv'
        <3>1. RegistryNext
            BY <2>1 DEF MCNext
        <3>. QED BY <2>1, <3>1, CoreIsGood, SealIsGood, CloseIsGood, DamageIsGood DEF RegistryNext
    <2>2. [MCNext]_<<subject, vars, registry>> => subject' = subject
        BY DEF MCNext
    <2>. QED BY <2>1, <2>2, RegistryStutters
<1>. QED BY <1>1, <1>2, PTL DEF MCSpec

(* On an undamaged file every declaration of an identity is answered exactly,  *)
(* whatever the digests collide on, and on a damaged one a registry that can   *)
(* be closed has answered exactly as well, for any values, digests, capacity   *)
(* and number of damages.                                                      *)
THEOREM RegistryAnswersExactly == MCSpec => []AnswersAreExact
<1>1. (subject = "registry" => RInv) => AnswersAreExact
    BY DEF AnswersAreExact, RInv, Registry!ExactUnlessDamaged, Registry!CleanCloseIsExact
<1>. QED BY <1>1, RegistryInvariance, PTL
=============================================================================
