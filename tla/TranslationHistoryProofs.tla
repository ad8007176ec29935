----------------------- MODULE TranslationHistoryProofs -----------------------
(***************************************************************************)
(* The properties of the history of translations, for every number of      *)
(* items, of saves in flight and of screens.                               *)
(*                                                                         *)
(* Nothing doubled needs that nothing is doubled anywhere: not in the      *)
(* lists of screens that are gone, in what a load has found or in what a   *)
(* save is about to write.  That the file follows the screen needs what a  *)
(* step in the middle of a save, or of a load, has already done.           *)
(***************************************************************************)
EXTENDS MCTranslationHistory, TLAPS

SaveStates == [at : {"none", "starting", "encoded", "open", "written"},
               screen : 0..MaxScreens, payload : Lists]
ShellStates == [known : BOOLEAN, has : BOOLEAN, load : LoadState]

(* A save is of a screen that was built, and a load of one that is there.  *)
OwnersOK ==
  /\ \A v \in Slots : saves[v].at # "none" => saves[v].screen \in Screens
  /\ load.at # "none" => mounted # 0

TypeInv == TypeOK /\ OwnersOK

(* Nothing is doubled anywhere.                                            *)
AllOnce ==
  /\ \A s \in Screens : IsInjective(items[s])
  /\ IsInjective(Loads(file)) /\ IsInjective(load.found)
  /\ \A v \in Slots : IsInjective(saves[v].payload)

(* What a save that overlaps nothing has done so far.                      *)
Active(v) == saves[v].at # "none"
Alone(v) == \A w \in Slots : Active(w) => w = v

SavingOK(v) ==
  /\ Alone(v)
  /\ load.at = "none" /\ shell.load.at = "none"
  /\ mounted \in {0, saves[v].screen}
  /\ saves[v].at \in {"encoded", "open"} => saves[v].payload = items[saves[v].screen]
  /\ saves[v].at = "open" => file = Empty
  /\ saves[v].at = "written" => Loads(file) = items[saves[v].screen]

(* Without a save, every load finds what is there, and the mounted screen, *)
(* once it has loaded, shows it.                                           *)
Shown ==
  /\ Loads(file) = items[mounted]
  /\ shell.known /\ (shell.has <=> items[mounted] # <<>>)

RestingOK ==
  /\ load.at = "read" => load.found = Loads(file)
  /\ shell.load.at = "read" => shell.load.found = Loads(file)
  /\ load.at = "none" /\ mounted # 0 => Shown

Following ==
  ~excused =>
    /\ \A v \in Slots : Active(v) => SavingOK(v)
    /\ (\A v \in Slots : ~Active(v)) => RestingOK

-----------------------------------------------------------------------------
(* Lists *)

LEMMA ListTyped ==
  ASSUME NEW list \in Lists
  PROVE  /\ list \in Seq(Items) /\ Len(list) \in 0..MaxHistory
         /\ DOMAIN list = 1..Len(list) /\ DOMAIN list \subseteq Nat
<1>1. PICK n \in 0..MaxHistory : list \in [1..n -> Items]
  BY DEF Lists
<1>2. n \in Nat
  BY <1>1, BoundsAssumption
<1> QED
  BY <1>1, <1>2, BoundsAssumption

LEMMA IsList ==
  ASSUME NEW list \in Seq(Items), Len(list) <= MaxHistory
  PROVE  list \in Lists
<1>1. Len(list) \in 0..MaxHistory /\ list \in [1..Len(list) -> Items]
  BY BoundsAssumption
<1> QED
  BY <1>1 DEF Lists

LEMMA EmptyList == <<>> \in Lists /\ IsInjective(<<>>)
<1>1. <<>> \in Seq(Items) /\ Len(<<>>) = 0 /\ 0 <= MaxHistory
  BY BoundsAssumption
<1>2. DOMAIN <<>> = {}
  OBVIOUS
<1> QED
  BY <1>1, <1>2, IsList DEF IsInjective

LEMMA LeastOfTwo ==
  ASSUME NEW a \in Nat, NEW b \in Nat
  PROVE  LET least == Min({a, b})
         IN  least \in Nat /\ least <= a /\ least <= b /\ least \in {a, b}
<1>1. \E x \in {a, b} : \A y \in {a, b} : x <= y
  <2>1. CASE a <= b
    BY <2>1
  <2>2. CASE b <= a
    BY <2>2
  <2> QED
    BY <2>1, <2>2
<1>2. Min({a, b}) \in {a, b} /\ \A y \in {a, b} : Min({a, b}) <= y
  BY <1>1 DEF Min
<1> QED
  BY <1>2

(* A new translation in front, the oldest one gone.                        *)
LEMMA TrimmedOK ==
  ASSUME NEW list \in Lists, NEW new \in Items
  PROVE  LET longer == <<new>> \o list
             kept == SubSeq(longer, 1, Min({MaxHistory, Len(longer)}))
         IN  /\ kept \in Lists
             /\ IsInjective(list) /\ new \notin ToSet(list) => IsInjective(kept)
<1> DEFINE longer == <<new>> \o list
           n == Min({MaxHistory, Len(longer)})
           kept == SubSeq(longer, 1, n)
<1>1. /\ longer \in Seq(Items) /\ Len(longer) = Len(list) + 1 /\ Len(longer) \in Nat
      /\ longer[1] = new
      /\ \A k \in 2..Len(longer) : k - 1 \in DOMAIN list /\ longer[k] = list[k - 1]
  BY ListTyped
<1>2. n \in Nat /\ n <= MaxHistory /\ n <= Len(longer)
  BY <1>1, LeastOfTwo, BoundsAssumption
<1> HIDE DEF longer, n
<1>3. /\ kept \in Seq(Items) /\ Len(kept) = n /\ DOMAIN kept = 1..n
      /\ \A k \in 1..n : kept[k] = longer[k]
  BY <1>1, <1>2
<1>4. kept \in Lists
  BY <1>2, <1>3, IsList
<1>5. ASSUME IsInjective(list), new \notin ToSet(list),
             NEW j \in 1..n, NEW k \in 1..n, longer[j] = longer[k]
      PROVE  j = k
  <2>1. \A h \in 1..n : h = 1 \/ h \in 2..Len(longer)
    BY <1>1, <1>2
  <2>2. \A h \in 2..Len(longer) : longer[h] # new
    BY <1>1, <1>5 DEF ToSet
  <2>3. CASE j = 1 \/ k = 1
    BY <1>1, <1>5, <2>1, <2>2, <2>3
  <2>4. CASE j \in 2..Len(longer) /\ k \in 2..Len(longer)
    <3>1. j - 1 = k - 1
      BY <1>1, <1>5, <2>4 DEF IsInjective
    <3> QED
      BY <3>1, <2>4, <1>1
  <2> QED
    BY <2>1, <2>3, <2>4
<1>6. IsInjective(list) /\ new \notin ToSet(list) => IsInjective(kept)
  BY <1>3, <1>5 DEF IsInjective
<1> QED
  BY <1>4, <1>6 DEF kept, longer, n

LEMMA RemovedOK ==
  ASSUME NEW list \in Lists, NEW id, NEW rest \in Removed(list, id)
  PROVE  rest \in Lists /\ (IsInjective(list) => IsInjective(rest))
<1>1. rest \in Lists
  BY DEF Removed
<1>2. PICK place \in [DOMAIN rest -> DOMAIN list] :
        /\ \A j, k \in DOMAIN rest : j < k => place[j] < place[k]
        /\ \A k \in DOMAIN rest : rest[k] = list[place[k]]
  BY DEF Removed
<1>3. DOMAIN rest \subseteq Nat /\ DOMAIN list \subseteq Nat
  BY <1>1, ListTyped
<1>4. ASSUME IsInjective(list), NEW j \in DOMAIN rest, NEW k \in DOMAIN rest,
             rest[j] = rest[k]
      PROVE  j = k
  <2>1. place[j] = place[k] /\ place[j] \in Nat
    BY <1>2, <1>3, <1>4 DEF IsInjective
  <2>2. ~(place[j] < place[k]) /\ ~(place[k] < place[j])
    BY <2>1
  <2>3. ~(j < k) /\ ~(k < j)
    BY <1>2, <2>2
  <2> QED
    BY <1>3, <2>3
<1> QED
  BY <1>1, <1>4 DEF IsInjective

LEMMA Joined ==
  ASSUME NEW s \in Seq(Items), NEW t \in Seq(Items), NEW both, both = s \o t
  PROVE  /\ both \in Seq(Items) /\ Len(both) = Len(s) + Len(t)
         /\ \A k \in 1..Len(s) : both[k] = s[k]
         /\ \A k \in 1..Len(t) : both[Len(s) + k] = t[k]
<1>1. s \o t \in Seq(Items) /\ Len(s \o t) = Len(s) + Len(t)
  OBVIOUS
<1>2. \A k \in 1..Len(s) : (s \o t)[k] = s[k]
  OBVIOUS
<1>3. \A k \in 1..Len(t) : (s \o t)[Len(s) + k] = t[k]
  OBVIOUS
<1>4. both \in Seq(Items)
  BY <1>1
<1>5. Len(both) = Len(s) + Len(t)
  BY <1>1
<1>6. \A k \in 1..Len(s) : both[k] = s[k]
  BY <1>2
<1>7. \A k \in 1..Len(t) : both[Len(s) + k] = t[k]
  BY <1>3
<1> QED
  BY <1>4, <1>5, <1>6, <1>7

(* Two pieces joined, read by where an element comes from.                 *)
LEMMA ElementOfJoined ==
  ASSUME NEW s \in Seq(Items), NEW t \in Seq(Items), NEW both, both = s \o t
  PROVE  /\ both \in Seq(Items) /\ Len(both) = Len(s) + Len(t)
         /\ \A k \in 1..Len(both) :
              both[k] = IF k <= Len(s) THEN s[k] ELSE t[k - Len(s)]
<1>1. /\ both \in Seq(Items) /\ Len(both) = Len(s) + Len(t)
      /\ \A k \in 1..Len(s) : both[k] = s[k]
      /\ \A k \in 1..Len(t) : both[Len(s) + k] = t[k]
  BY Joined
<1>2. Len(s) \in Nat /\ Len(t) \in Nat
  OBVIOUS
<1>3. ASSUME NEW k \in 1..Len(both)
      PROVE  both[k] = IF k <= Len(s) THEN s[k] ELSE t[k - Len(s)]
  <2>1. CASE k <= Len(s)
    BY <1>1, <1>2, <2>1
  <2>2. CASE ~(k <= Len(s))
    <3>1. k - Len(s) \in 1..Len(t) /\ Len(s) + (k - Len(s)) = k
      BY <1>1, <1>2, <2>2
    <3>2. both[Len(s) + (k - Len(s))] = t[k - Len(s)]
      BY <1>1, <3>1
    <3> QED
      BY <2>2, <3>1, <3>2
  <2> QED
    BY <2>1, <2>2
<1> QED
  BY <1>1, <1>3

(* One taken out of a list, and put in somewhere.                          *)
LEMMA TakenOut ==
  ASSUME NEW list \in Seq(Items), NEW from \in 1..Len(list)
  PROVE  LET short == RemoveAt(list, from)
         IN  /\ short \in Seq(Items) /\ Len(short) = Len(list) - 1
             /\ \A k \in 1..(Len(list) - 1) :
                  short[k] = IF k < from THEN list[k] ELSE list[k + 1]
<1> DEFINE short == RemoveAt(list, from)
           before == SubSeq(list, 1, from - 1)
           after == SubSeq(list, from + 1, Len(list))
<1>1. /\ before \in Seq(Items) /\ Len(before) = from - 1
      /\ \A k \in 1..(from - 1) : before[k] = list[k]
  OBVIOUS
<1>2. /\ after \in Seq(Items) /\ Len(after) = Len(list) - from
      /\ \A k \in 1..(Len(list) - from) : after[k] = list[k + from]
  OBVIOUS
<1>3. short = before \o after
  BY DEF RemoveAt
<1> HIDE DEF short, before, after
<1>4. /\ short \in Seq(Items) /\ Len(short) = Len(before) + Len(after)
      /\ \A k \in 1..Len(short) :
           short[k] = IF k <= Len(before) THEN before[k] ELSE after[k - Len(before)]
  <2>1. before \in Seq(Items) /\ after \in Seq(Items)
    BY <1>1, <1>2
  <2> QED
    BY ONLY <1>3, <2>1, ElementOfJoined
<1>5. Len(short) = Len(list) - 1
  BY <1>1, <1>2, <1>4
<1>6. ASSUME NEW k \in 1..(Len(list) - 1)
      PROVE  short[k] = IF k < from THEN list[k] ELSE list[k + 1]
  <2>1. CASE k < from
    BY <1>1, <1>4, <1>5, <2>1
  <2>2. CASE ~(k < from)
    <3>1. /\ k - (from - 1) \in 1..(Len(list) - from) /\ ~(k <= from - 1)
          /\ k - (from - 1) + from = k + 1
      BY <2>2
    <3>2. short[k] = after[k - (from - 1)]
      BY <1>1, <1>4, <1>5, <3>1
    <3> QED
      BY <1>2, <2>2, <3>1, <3>2
  <2> QED
    BY <2>1, <2>2
<1> QED
  BY <1>4, <1>5, <1>6 DEF short

IsPutIn(list, to, item, longer) ==
  /\ longer \in Seq(Items) /\ Len(longer) = Len(list) + 1
  /\ \A k \in 1..(Len(list) + 1) :
       longer[k] = IF k < to THEN list[k] ELSE IF k = to THEN item ELSE list[k - 1]

LEMMA PutIn ==
  ASSUME NEW list \in Seq(Items), NEW to \in 1..(Len(list) + 1), NEW item \in Items,
         NEW longer, longer = InsertAt(list, to, item)
  PROVE  IsPutIn(list, to, item, longer)
<1> DEFINE head == SubSeq(list, 1, to - 1)
           one == <<item>>
           before == head \o one
           after == SubSeq(list, to, Len(list))
<1>1. /\ head \in Seq(Items) /\ Len(head) = to - 1
      /\ \A k \in 1..(to - 1) : head[k] = list[k]
  OBVIOUS
<1>2. one \in Seq(Items) /\ Len(one) = 1 /\ one[1] = item
  OBVIOUS
<1>3. /\ after \in Seq(Items) /\ Len(after) = Len(list) + 1 - to
      /\ \A k \in 1..(Len(list) + 1 - to) : after[k] = list[k + to - 1]
  OBVIOUS
<1>4. longer = before \o after
  BY DEF InsertAt
<1>5. before = head \o one
  OBVIOUS
<1> HIDE DEF head, one, before, after
<1>6. /\ before \in Seq(Items) /\ Len(before) = Len(head) + Len(one)
      /\ \A k \in 1..Len(before) :
           before[k] = IF k <= Len(head) THEN head[k] ELSE one[k - Len(head)]
  <2>1. head \in Seq(Items) /\ one \in Seq(Items)
    BY <1>1, <1>2
  <2> QED
    BY ONLY <1>5, <2>1, ElementOfJoined
<1>7. Len(before) = to
  BY <1>1, <1>2, <1>6
<1>8. before[to] = item
  <2>1. to \in 1..Len(before) /\ ~(to <= Len(head)) /\ to - Len(head) = 1
    BY <1>1, <1>7
  <2> QED
    BY <1>2, <1>6, <2>1
<1>9. ASSUME NEW k \in 1..(to - 1) PROVE before[k] = list[k]
  <2>1. k \in 1..Len(before) /\ k <= Len(head)
    BY <1>1, <1>7
  <2> QED
    BY <1>1, <1>6, <2>1
<1>10. /\ longer \in Seq(Items) /\ Len(longer) = Len(before) + Len(after)
       /\ \A k \in 1..Len(longer) :
            longer[k] = IF k <= Len(before) THEN before[k] ELSE after[k - Len(before)]
  <2>1. before \in Seq(Items) /\ after \in Seq(Items)
    BY <1>3, <1>6
  <2> QED
    BY ONLY <1>4, <2>1, ElementOfJoined
<1>11. Len(longer) = Len(list) + 1
  BY <1>3, <1>7, <1>10
<1>12. ASSUME NEW k \in 1..(Len(list) + 1)
       PROVE  longer[k] = IF k < to THEN list[k]
                          ELSE IF k = to THEN item ELSE list[k - 1]
  <2>1. CASE k <= to
    BY <1>7, <1>8, <1>9, <1>10, <1>11, <2>1
  <2>2. CASE ~(k <= to)
    <3>1. k - to \in 1..(Len(list) + 1 - to) /\ k - to + to - 1 = k - 1
      BY <2>2
    <3>2. longer[k] = after[k - to]
      BY <1>7, <1>10, <1>11, <2>2
    <3> QED
      BY <1>3, <2>2, <3>1, <3>2
  <2> QED
    BY <2>1, <2>2
<1> QED
  BY <1>10, <1>11, <1>12 DEF IsPutIn

LEMMA MovedOK ==
  ASSUME NEW list \in Lists, NEW from \in DOMAIN list, NEW to \in DOMAIN list
  PROVE  LET moved == InsertAt(RemoveAt(list, from), to, list[from])
         IN  /\ moved \in Lists
             /\ IsInjective(list) => IsInjective(moved)
<1> DEFINE n == Len(list)
           short == RemoveAt(list, from)
           moved == InsertAt(short, to, list[from])
           left(k) == IF k < from THEN k ELSE k + 1
           old(k) == IF k < to THEN left(k)
                     ELSE IF k = to THEN from ELSE left(k - 1)
<1>1. /\ list \in Seq(Items) /\ n \in Nat /\ n <= MaxHistory
      /\ from \in 1..n /\ to \in 1..n /\ DOMAIN list = 1..n
  BY ListTyped, BoundsAssumption
<1>2. list[from] \in Items
  BY <1>1
<1>3. /\ short \in Seq(Items) /\ Len(short) = n - 1
      /\ \A k \in 1..(n - 1) : short[k] = IF k < from THEN list[k] ELSE list[k + 1]
  BY <1>1, TakenOut
<1> HIDE DEF short
<1>4. to \in 1..(Len(short) + 1) /\ Len(short) + 1 = n
  BY <1>1, <1>3
<1>5. /\ moved \in Seq(Items) /\ Len(moved) = Len(short) + 1
      /\ \A k \in 1..(Len(short) + 1) :
           moved[k] = IF k < to THEN short[k]
                      ELSE IF k = to THEN list[from] ELSE short[k - 1]
  <2>1. short \in Seq(Items)
    BY <1>3
  <2>2. to \in 1..(Len(short) + 1)
    BY <1>4
  <2> DEFINE item == list[from]
  <2>3. item \in Items
    BY <1>2
  <2>4. moved = InsertAt(short, to, item)
    OBVIOUS
  <2> HIDE DEF item, moved
  <2>5. IsPutIn(short, to, item, moved)
    BY ONLY <2>1, <2>2, <2>3, <2>4, PutIn
  <2> QED
    BY <2>5 DEF item, IsPutIn
<1> HIDE DEF moved
<1>6. ASSUME NEW k \in 1..n PROVE old(k) \in 1..n /\ moved[k] = list[old(k)]
  <2>1. CASE k < to
    <3>1. k \in 1..(n - 1) /\ k \in 1..(Len(short) + 1) /\ moved[k] = short[k]
      BY <1>1, <1>4, <1>5, <2>1
    <3>2. old(k) = left(k) /\ left(k) \in 1..n
      BY <1>1, <2>1, <3>1
    <3> QED
      BY <1>3, <3>1, <3>2
  <2>2. CASE k = to
    BY <1>1, <1>4, <1>5, <2>2
  <2>3. CASE to < k
    <3>1. k - 1 \in 1..(n - 1) /\ moved[k] = short[k - 1]
      BY <1>1, <1>4, <1>5, <2>3
    <3> QED
      BY <1>1, <1>3, <2>3, <3>1
  <2> QED
    BY <1>1, <2>1, <2>2, <2>3
<1>7. \A j, k \in 1..n : old(j) = old(k) => j = k
  BY <1>1
<1>8. DOMAIN moved = 1..n
  BY <1>4, <1>5
<1>9. moved \in Lists
  BY <1>1, <1>4, <1>5, IsList
<1> HIDE DEF old, left, n
<1>10. IsInjective(list) => IsInjective(moved)
  BY <1>1, <1>6, <1>7, <1>8 DEF IsInjective
<1> QED
  BY <1>9, <1>10 DEF moved, short

-----------------------------------------------------------------------------
(* What the steps do *)

LEMMA LoadsTyped ==
  ASSUME NEW f \in {Empty, Garbage} \cup Lists
  PROVE  Loads(f) \in Lists /\ (f \in Lists => Loads(f) = f)
BY FileAssumption, EmptyList DEF Loads

LEMMA MountedTyped ==
  ASSUME TypeOK
  PROVE  /\ mounted \in 0..MaxScreens /\ (mounted # 0 => mounted \in Screens)
         /\ \A s \in Screens : items[s] \in Lists /\ s \in 0..MaxScreens
         /\ 0 \in 0..MaxScreens
BY BoundsAssumption DEF TypeOK, Screens

(* The mounted screen's list after a translation, a deletion or a move.    *)
LEMMA UserChanges ==
  ASSUME TypeInv, UserStep
  PROVE  /\ mounted \in Screens
         /\ \E list \in Lists : Changes(list) /\ (AllOnce => IsInjective(list))
         /\ UNCHANGED <<file, built, mounted, load, shell>>
<1>1. mounted \in Screens /\ items[mounted] \in Lists
  BY MountedTyped DEF TypeInv, UserStep, Translated, DeleteItem, Reorder
<1>2. AllOnce => IsInjective(items[mounted])
  BY <1>1 DEF AllOnce
<1>3. UNCHANGED <<file, built, mounted, load, shell>>
  BY DEF UserStep, Translated, DeleteItem, Reorder
<1>4. \E list \in Lists : Changes(list) /\ (AllOnce => IsInjective(list))
  <2>1. CASE Translated
    <3>1. PICK new \in Items \ Known :
            Changes(SubSeq(<<new>> \o items[mounted], 1,
                           Min({MaxHistory, Len(<<new>> \o items[mounted])})))
      BY <2>1 DEF Translated
    <3>2. new \in Items /\ new \notin ToSet(items[mounted])
      BY <1>1 DEF Known
    <3> QED
      BY <1>1, <1>2, <3>1, <3>2, TrimmedOK
  <2>2. CASE DeleteItem
    <3>1. PICK id, rest : rest \in Removed(items[mounted], id) /\ Changes(rest)
      BY <2>2 DEF DeleteItem
    <3> QED
      BY <1>1, <1>2, <3>1, RemovedOK
  <2>3. CASE Reorder
    <3>1. PICK from \in DOMAIN items[mounted], to \in DOMAIN items[mounted] :
            Changes(InsertAt(RemoveAt(items[mounted], from), to, items[mounted][from]))
      BY <2>3 DEF Reorder
    <3> QED
      BY <1>1, <1>2, <3>1, MovedOK
  <2> QED
    BY <2>1, <2>2, <2>3 DEF UserStep
<1> QED
  BY <1>1, <1>3, <1>4

Shows(list) ==
  /\ items' \in [Screens -> Lists] /\ items'[mounted] = list
  /\ \A s \in Screens \ {mounted} : items'[s] = items[s]

Becomes(v, at, screen, payload) ==
  /\ saves' \in [Slots -> SaveStates]
  /\ saves'[v].at = at /\ saves'[v].screen = screen /\ saves'[v].payload = payload
  /\ \A w \in Slots \ {v} : saves'[w] = saves[w]

LEMMA SavesTyped ==
  ASSUME TypeOK
  PROVE  /\ saves \in [Slots -> SaveStates] /\ shell \in ShellStates
         /\ \A v \in Slots : saves[v] \in SaveStates
BY DEF TypeOK, SaveStates, ShellStates

LEMMA ChangesFacts ==
  ASSUME TypeInv, NEW list \in Lists, Changes(list), mounted \in Screens
  PROVE  /\ Shows(list)
         /\ \E v \in Slots : saves[v].at = "none" /\ Becomes(v, "starting", mounted, <<>>)
<1>1. Shows(list)
  BY DEF TypeInv, TypeOK, Changes, Shows
<1>2. PICK v \in Slots :
        /\ saves[v].at = "none"
        /\ saves' = [saves EXCEPT ![v] = [NoSave EXCEPT !.at = "starting", !.screen = mounted]]
  BY DEF Changes
<1> DEFINE new == [NoSave EXCEPT !.at = "starting", !.screen = mounted]
<1>3. /\ new \in SaveStates
      /\ new.at = "starting" /\ new.screen = mounted /\ new.payload = <<>>
  BY EmptyList, MountedTyped DEF TypeInv, NoSave, SaveStates
<1> HIDE DEF new
<1>4. saves' = [saves EXCEPT ![v] = new]
  BY <1>2 DEF new
<1>5. Becomes(v, "starting", mounted, <<>>)
  BY <1>3, <1>4, SavesTyped DEF TypeInv, Becomes
<1> QED
  BY <1>1, <1>2, <1>5

LEMMA StoreFacts ==
  ASSUME TypeInv, NEW v \in Slots, StoreStep(v)
  PROVE  LET screen == saves[v].screen
         IN  /\ screen \in Screens /\ UNCHANGED screenVars
             /\ Encode(v) =>
                  /\ Becomes(v, "encoded", screen, items[screen])
                  /\ UNCHANGED <<file, shell>>
             /\ Truncate(v) =>
                  /\ saves[v].at = "encoded" /\ Becomes(v, "open", screen, saves[v].payload)
                  /\ file' = Empty /\ shell' = shell
             /\ Write(v) =>
                  /\ saves[v].at = "open" /\ Becomes(v, "written", screen, <<>>)
                  /\ file' \in {saves[v].payload, Garbage}
                  /\ file = Empty => file' = saves[v].payload
                  /\ shell' = shell
             /\ SaveFails(v) =>
                  /\ Becomes(v, "written", screen, <<>>)
                  /\ file' \in {file, Garbage} /\ shell' = shell
             /\ Saved(v) =>
                  /\ saves[v].at = "written" /\ Becomes(v, "none", 0, <<>>)
                  /\ shell' = Report(shell, items[screen]) /\ file' = file
<1> DEFINE screen == saves[v].screen
<1>1. saves \in [Slots -> SaveStates] /\ saves[v] \in SaveStates
  BY SavesTyped DEF TypeInv
<1>2. saves[v].at # "none"
  BY DEF StoreStep, Encode, Truncate, Write, SaveFails, Saved
<1>3. screen \in Screens /\ items[screen] \in Lists
  BY <1>2, MountedTyped DEF TypeInv, OwnersOK
<1>4. ASSUME Encode(v)
      PROVE  /\ Becomes(v, "encoded", screen, items[screen])
             /\ UNCHANGED <<file, shell, screenVars>>
  <2> DEFINE new == [saves[v] EXCEPT !.at = "encoded", !.payload = items[screen]]
  <2>1. /\ new \in SaveStates
        /\ new.at = "encoded" /\ new.screen = screen /\ new.payload = items[screen]
    BY <1>1, <1>3 DEF SaveStates
  <2>2. saves' = [saves EXCEPT ![v] = new]
    BY <1>1, <1>4 DEF Encode
  <2> HIDE DEF new
  <2>3. Becomes(v, "encoded", screen, items[screen])
    BY <1>1, <2>1, <2>2 DEF Becomes
  <2> QED
    BY <1>3, <1>4, <2>3 DEF Encode
<1>5. ASSUME Truncate(v)
      PROVE  /\ saves[v].at = "encoded" /\ Becomes(v, "open", screen, saves[v].payload)
             /\ file' = Empty /\ UNCHANGED <<shell, screenVars>>
  <2> DEFINE new == [saves[v] EXCEPT !.at = "open"]
  <2>1. /\ new \in SaveStates
        /\ new.at = "open" /\ new.screen = screen /\ new.payload = saves[v].payload
    BY <1>1 DEF SaveStates
  <2>2. saves' = [saves EXCEPT ![v] = new]
    BY <1>1, <1>5 DEF Truncate
  <2> HIDE DEF new
  <2>3. Becomes(v, "open", screen, saves[v].payload)
    BY <1>1, <2>1, <2>2 DEF Becomes
  <2> QED
    BY <1>3, <1>5, <2>3 DEF Truncate
<1>6. ASSUME saves' = [saves EXCEPT ![v].at = "written", ![v].payload = <<>>]
      PROVE  Becomes(v, "written", screen, <<>>)
  <2> DEFINE new == [saves[v] EXCEPT !.at = "written", !.payload = <<>>]
  <2>1. /\ new \in SaveStates
        /\ new.at = "written" /\ new.screen = screen /\ new.payload = <<>>
    BY <1>1, EmptyList DEF SaveStates
  <2>2. saves' = [saves EXCEPT ![v] = new]
    BY <1>1, <1>6
  <2> HIDE DEF new
  <2> QED
    BY <1>1, <2>1, <2>2 DEF Becomes
<1>7. ASSUME Write(v)
      PROVE  /\ saves[v].at = "open" /\ Becomes(v, "written", screen, <<>>)
             /\ file' \in {saves[v].payload, Garbage}
             /\ file = Empty => file' = saves[v].payload
             /\ UNCHANGED <<shell, screenVars>>
  BY <1>3, <1>6, <1>7 DEF Write
<1>8. ASSUME SaveFails(v)
      PROVE  /\ Becomes(v, "written", screen, <<>>)
             /\ file' \in {file, Garbage} /\ UNCHANGED <<shell, screenVars>>
  BY <1>3, <1>6, <1>8 DEF SaveFails
<1>9. ASSUME Saved(v)
      PROVE  /\ saves[v].at = "written" /\ Becomes(v, "none", 0, <<>>)
             /\ shell' = Report(shell, items[screen]) /\ UNCHANGED <<file, screenVars>>
  <2>1. /\ NoSave \in SaveStates
        /\ NoSave.at = "none" /\ NoSave.screen = 0 /\ NoSave.payload = <<>>
    BY EmptyList, MountedTyped DEF TypeInv, NoSave, SaveStates
  <2>2. Becomes(v, "none", 0, <<>>)
    BY <1>1, <1>9, <2>1 DEF Becomes, Saved
  <2> QED
    BY <1>3, <1>9, <2>2 DEF Saved
<1> QED
  BY <1>3, <1>4, <1>5, <1>7, <1>8, <1>9 DEF StoreStep

LEMMA ReportTyped ==
  ASSUME NEW s \in ShellStates, NEW list
  PROVE  /\ Report(s, list) \in ShellStates
         /\ Report(s, list).known /\ (Report(s, list).has <=> list # <<>>)
         /\ Report(s, list).load = s.load
BY DEF Report, ShellStates

-----------------------------------------------------------------------------
(* Types *)

LEMMA SavesStayOwned ==
  ASSUME TypeInv, NEW v \in Slots, NEW at, NEW screen, NEW payload,
         Becomes(v, at, screen, payload), at # "none" => screen \in Screens
  PROVE  /\ saves' \in [Slots -> SaveStates]
         /\ \A w \in Slots : saves'[w].at # "none" => saves'[w].screen \in Screens
BY DEF TypeInv, OwnersOK, Becomes
LEMMA LoadTyped ==
  ASSUME NEW list \in Lists
  PROVE  /\ [at |-> "reading", found |-> <<>>] \in LoadState
         /\ [at |-> "read", found |-> list] \in LoadState
         /\ NoLoad \in LoadState
BY EmptyList DEF LoadState, NoLoad

LEMMA KillTyped ==
  /\ NoItems \in [Screens -> Lists] /\ NoSaves \in [Slots -> SaveStates]
  /\ \A v \in Slots : NoSaves[v].at = "none" /\ NoSaves[v].payload = <<>>
  /\ NewShell \in ShellStates /\ NewShell.load.at = "reading"
  /\ 0 \in 0..MaxScreens
<1>1. 0 \in 0..MaxScreens
  BY BoundsAssumption
<1>2. NoSave \in SaveStates /\ NoSave.at = "none" /\ NoSave.payload = <<>>
  BY <1>1, EmptyList DEF NoSave, SaveStates
<1>3. NoItems \in [Screens -> Lists]
  BY EmptyList DEF NoItems
<1>4. NewShell \in ShellStates /\ NewShell.load.at = "reading"
  BY LoadTyped, EmptyList DEF NewShell, ShellStates
<1> QED
  BY <1>1, <1>2, <1>3, <1>4 DEF NoSaves

LEMMA InitTyped == Init => TypeInv
<1> SUFFICES ASSUME Init PROVE TypeInv
  OBVIOUS
<1>1. saves \in [Slots -> SaveStates] /\ shell \in ShellStates /\ load \in LoadState
  BY KillTyped, LoadTyped, EmptyList DEF Init
<1>2. items \in [Screens -> Lists] /\ built \in 0..MaxScreens /\ mounted \in {0, built}
  BY KillTyped DEF Init
<1>3. OwnersOK
  BY KillTyped DEF Init, OwnersOK, NoLoad
<1> QED
  BY <1>1, <1>2, <1>3 DEF Init, TypeInv, TypeOK, SaveStates, ShellStates

(* A step that starts or ends a load, or tells the shell.                  *)
LEMMA LoadStepTyped ==
  ASSUME TypeInv,
         \/ ReadHistory \/ ReadFails \/ HistoryLoaded
         \/ ShellReads \/ ShellReadFails \/ ShellTold
  PROVE  TypeInv'
<1>1. /\ load \in LoadState /\ shell \in ShellStates /\ shell.load \in LoadState
      /\ Loads(file) \in Lists /\ <<>> \in Lists
  BY LoadsTyped, EmptyList, SavesTyped DEF TypeInv, TypeOK, ShellStates
<1>2. /\ file' = file /\ built' = built /\ mounted' = mounted /\ saves' = saves
      /\ load'.at # "none" => load.at # "none"
  <2>1. load.at = "reading" => load.at # "none"
    OBVIOUS
  <2> QED
    BY <2>1 DEF ReadHistory, ReadFails, HistoryLoaded, ShellReads, ShellReadFails, ShellTold,
                screenVars, NoLoad
<1>3. load' \in LoadState
  BY <1>1, LoadTyped
     DEF ReadHistory, ReadFails, HistoryLoaded, ShellReads, ShellReadFails, ShellTold,
         screenVars
<1>4. items' \in [Screens -> Lists]
  <2>1. load.found \in Lists /\ items \in [Screens -> Lists]
    BY <1>1 DEF LoadState, TypeInv, TypeOK
  <2> QED
    BY <2>1
       DEF ReadHistory, ReadFails, HistoryLoaded, ShellReads, ShellReadFails, ShellTold,
           screenVars
<1>5. shell' \in ShellStates
  <2>1. CASE ReadHistory \/ ReadFails
    BY <1>1, <2>1 DEF ReadHistory, ReadFails
  <2>2. CASE HistoryLoaded
    BY <1>1, <2>2, ReportTyped DEF HistoryLoaded
  <2>3. CASE ShellReads \/ ShellReadFails
    <3>1. PICK list \in Lists : shell' = [shell EXCEPT !.load = [at |-> "read", found |-> list]]
      BY <1>1, <2>3 DEF ShellReads, ShellReadFails
    <3> QED
      BY <1>1, <3>1, LoadTyped DEF ShellStates
  <2>4. CASE ShellTold
    <3>1. Report(shell, shell.load.found) \in ShellStates /\ NoLoad \in LoadState
      BY <1>1, ReportTyped, LoadTyped
    <3> QED
      BY <2>4, <3>1 DEF ShellTold, ShellStates
  <2> QED
    BY <2>1, <2>2, <2>3, <2>4
<1> QED
  BY <1>2, <1>3, <1>4, <1>5 DEF TypeInv, TypeOK, OwnersOK, SaveStates, ShellStates

LEMMA TypeStep ==
  ASSUME TypeInv, [Next]_vars
  PROVE  TypeInv'
<1>1. CASE ShowScreen
  <2>1. built' \in 0..MaxScreens /\ built' # 0 /\ mounted' = built'
    BY <1>1, BoundsAssumption DEF ShowScreen, TypeInv, TypeOK
  <2>2. load' \in LoadState
    BY <1>1, LoadTyped, EmptyList DEF ShowScreen
  <2> QED
    BY <1>1, <2>1, <2>2 DEF ShowScreen, TypeInv, TypeOK, OwnersOK
<1>2. CASE HideScreen
  <2>1. load' \in LoadState /\ load'.at = "none"
    BY <1>2, LoadTyped, EmptyList DEF HideScreen, NoLoad
  <2> QED
    BY <1>2, <2>1 DEF HideScreen, TypeInv, TypeOK, OwnersOK
<1>3. CASE UserStep
  <2>1. PICK list \in Lists : Changes(list)
    BY <1>3, UserChanges
  <2>2. mounted \in Screens /\ UNCHANGED <<file, built, mounted, load, shell>>
    BY <1>3, UserChanges
  <2>3. PICK v \in Slots : Becomes(v, "starting", mounted, <<>>)
    BY <2>1, <2>2, ChangesFacts
  <2>4. items' \in [Screens -> Lists]
    BY <2>1, <2>2, ChangesFacts DEF Shows
  <2>5. /\ saves' \in [Slots -> SaveStates]
        /\ \A w \in Slots : saves'[w].at # "none" => saves'[w].screen \in Screens
    BY <2>2, <2>3, SavesStayOwned
  <2> QED
    BY <2>2, <2>4, <2>5 DEF TypeInv, TypeOK, OwnersOK, SaveStates
<1>4. ASSUME NEW v \in Slots, StoreStep(v) PROVE TypeInv'
  <2>1. saves[v].screen \in Screens /\ UNCHANGED screenVars
    BY <1>4, StoreFacts DEF StoreStep
  <2>2. PICK at, screen, payload :
          Becomes(v, at, screen, payload) /\ (at # "none" => screen \in Screens)
    BY <1>4, StoreFacts DEF StoreStep
  <2>3. /\ saves' \in [Slots -> SaveStates]
        /\ \A w \in Slots : saves'[w].at # "none" => saves'[w].screen \in Screens
    BY <2>2, SavesStayOwned
  <2>4. file' \in {Empty, Garbage} \cup Lists
    <3>1. file \in {Empty, Garbage} \cup Lists /\ saves[v].payload \in Lists
      BY SavesTyped DEF TypeInv, TypeOK, SaveStates
    <3>2. file' \in {file, Empty, Garbage, saves[v].payload}
      BY <1>4, StoreFacts DEF StoreStep
    <3> QED
      BY <3>1, <3>2
  <2>5. shell' \in ShellStates
    <3>1. shell \in ShellStates
      BY SavesTyped DEF TypeInv
    <3>2. shell' = shell \/ \E list : shell' = Report(shell, list)
      BY <1>4, StoreFacts DEF StoreStep
    <3> QED
      BY <3>1, <3>2, ReportTyped
  <2> QED
    BY <2>1, <2>3, <2>4, <2>5
       DEF TypeInv, TypeOK, OwnersOK, SaveStates, ShellStates, screenVars
<1>5. CASE Kill
  <2>1. /\ saves' \in [Slots -> SaveStates] /\ shell' \in ShellStates
        /\ load' \in LoadState /\ load'.at = "none"
        /\ \A v \in Slots : saves'[v].at = "none"
    BY <1>5, KillTyped, LoadTyped, EmptyList DEF Kill, NoLoad
  <2>2. /\ items' \in [Screens -> Lists] /\ built' \in 0..MaxScreens
        /\ mounted' \in {0, built'}
    BY <1>5, KillTyped DEF Kill
  <2>3. file' \in {Empty, Garbage} \cup Lists
    BY <1>5 DEF Kill, TypeInv, TypeOK
  <2> QED
    BY <2>1, <2>2, <2>3 DEF TypeInv, TypeOK, OwnersOK, SaveStates, ShellStates
<1>6. CASE UNCHANGED vars
  BY <1>6 DEF vars, screenVars, TypeInv, TypeOK, OwnersOK
<1> QED
  BY <1>1, <1>2, <1>3, <1>4, <1>5, <1>6, LoadStepTyped DEF Next

-----------------------------------------------------------------------------
(* Nothing is doubled *)

LEMMA InitOnce == Init => AllOnce
<1> SUFFICES ASSUME Init PROVE AllOnce
  OBVIOUS
<1>1. Loads(file) = <<>>
  BY DEF Init, Loads
<1>2. \A v \in Slots : saves[v].payload = <<>>
  BY KillTyped DEF Init
<1> QED
  BY <1>1, <1>2, EmptyList DEF Init, AllOnce, NoItems, NoLoad

LEMMA OnceStep ==
  ASSUME TypeInv, AllOnce, [Next]_vars
  PROVE  AllOnce'
<1>1. CASE ShowScreen \/ HideScreen \/ ReadHistory \/ ReadFails
  <2>1. file' = file /\ items' = items /\ saves' = saves
    BY <1>1 DEF ShowScreen, HideScreen, ReadHistory, ReadFails
  <2>2. load'.found \in {<<>>, Loads(file)}
    BY <1>1 DEF ShowScreen, HideScreen, ReadHistory, ReadFails, NoLoad
  <2> QED
    BY <2>1, <2>2, EmptyList DEF AllOnce, Loads
<1>2. CASE HistoryLoaded
  <2>1. load'.found = <<>> /\ file' = file /\ saves' = saves
    BY <1>2 DEF HistoryLoaded, NoLoad
  <2>2. \A s \in Screens : items'[s] \in {items[s], load.found}
    BY <1>2 DEF HistoryLoaded, TypeInv, TypeOK
  <2> QED
    BY <2>1, <2>2, EmptyList DEF AllOnce, Loads
<1>3. CASE UserStep
  <2>1. PICK list \in Lists : Changes(list) /\ IsInjective(list)
    BY <1>3, UserChanges
  <2>2. mounted \in Screens /\ UNCHANGED <<file, built, mounted, load, shell>>
    BY <1>3, UserChanges
  <2>3. PICK v \in Slots : Becomes(v, "starting", mounted, <<>>)
    BY <2>1, <2>2, ChangesFacts
  <2>4. Shows(list)
    BY <2>1, <2>2, ChangesFacts
  <2>5. \A s \in Screens : IsInjective(items'[s])
    BY <2>1, <2>4 DEF Shows, AllOnce
  <2>6. \A w \in Slots : IsInjective(saves'[w].payload)
    BY <2>3, EmptyList DEF Becomes, AllOnce
  <2> QED
    BY <2>2, <2>5, <2>6 DEF AllOnce, Loads
<1>4. ASSUME NEW v \in Slots, StoreStep(v) PROVE AllOnce'
  <2>1. saves[v].screen \in Screens /\ items' = items /\ load' = load
    BY <1>4, StoreFacts DEF screenVars, StoreStep
  <2>2. PICK at, screen, payload :
          /\ Becomes(v, at, screen, payload)
          /\ payload \in {<<>>, saves[v].payload, items[saves[v].screen]}
    BY <1>4, StoreFacts DEF StoreStep
  <2>3. \A w \in Slots : IsInjective(saves'[w].payload)
    BY <2>1, <2>2, EmptyList DEF Becomes, AllOnce
  <2>4. file' \in {file, Empty, Garbage, saves[v].payload}
    BY <1>4, StoreFacts DEF StoreStep
  <2>5. Loads(file') \in {<<>>, Loads(file), saves[v].payload}
    BY <2>4 DEF Loads
  <2>6. IsInjective(Loads(file'))
    BY <2>5, EmptyList DEF AllOnce
  <2> QED
    BY <2>1, <2>3, <2>6 DEF AllOnce, Loads
<1>5. CASE ShellReads \/ ShellReadFails \/ ShellTold
  BY <1>5 DEF ShellReads, ShellReadFails, ShellTold, screenVars, AllOnce, Loads
<1>6. CASE Kill
  <2>1. Loads(file') \in {<<>>, Loads(file)}
    BY <1>6 DEF Kill, Loads
  <2>2. \A v \in Slots : saves'[v].payload = <<>>
    BY <1>6, KillTyped DEF Kill
  <2>3. load'.found = <<>> /\ \A s \in Screens : items'[s] = <<>>
    BY <1>6 DEF Kill, NoLoad, NoItems
  <2> QED
    BY <2>1, <2>2, <2>3, EmptyList DEF AllOnce, Loads
<1>7. CASE UNCHANGED vars
  BY <1>7 DEF vars, screenVars, AllOnce, Loads
<1> QED
  BY <1>1, <1>2, <1>3, <1>4, <1>5, <1>6, <1>7 DEF Next

LEMMA OnceInvariance == Spec => [](TypeInv /\ AllOnce)
<1>1. Init => TypeInv /\ AllOnce
  BY InitTyped, InitOnce
<1>2. TypeInv /\ AllOnce /\ [Next]_vars => (TypeInv /\ AllOnce)'
  BY TypeStep, OnceStep
<1> QED
  BY <1>1, <1>2, PTL DEF Spec

(* Every list fits the history, whatever is loaded or saved meanwhile.     *)
THEOREM HistoryTypeCorrect == Spec => []TypeOK
<1>1. TypeInv /\ AllOnce => TypeOK
  BY DEF TypeInv
<1> QED
  BY <1>1, OnceInvariance, PTL

(* A translation is never twice in the history, on the screen or in the    *)
(* file (_loadTranslationHistory replaces the list, _translate adds a new  *)
(* item, _reorderHistory takes one out before it puts it in).              *)
THEOREM HistoryHasNoDoubles == Spec => []NothingDoubled
<1>1. TypeInv /\ AllOnce => NothingDoubled
  BY DEF AllOnce, NothingDoubled
<1> QED
  BY <1>1, OnceInvariance, PTL

-----------------------------------------------------------------------------
(* The file and the shell follow the mounted screen *)

LEMMA NotedStep == [MCNext]_<<vars, excused>> => [Next]_vars
BY DEF MCNext, Next, StoreStep, vars

LEMMA InitFollowing == MCInit => Following
BY KillTyped DEF MCInit, Init, Following, Active, RestingOK, NoLoad

Resting == \A v \in Slots : saves[v].at = "none"

LEMMA RestsOrSaves ==
  ASSUME Following, ~excused
  PROVE  /\ Resting => RestingOK
         /\ \A v \in Slots : saves[v].at # "none" => SavingOK(v)
         /\ load.at # "none" \/ shell.load.at # "none" => Resting
BY DEF Following, Active, Resting, SavingOK

LEMMA FollowsResting ==
  ASSUME Resting', RestingOK'
  PROVE  Following'
BY DEF Following, Active, Resting

(* The one save goes on.                                                   *)
LEMMA FollowsSaving ==
  ASSUME TypeInv, NEW v \in Slots, NEW at, NEW screen, NEW payload,
         Becomes(v, at, screen, payload), at # "none",
         \A w \in Slots \ {v} : saves[w].at = "none",
         load'.at = "none", shell'.load.at = "none",
         mounted' \in {0, screen},
         at \in {"encoded", "open"} => payload = items'[screen],
         at = "open" => file' = Empty,
         at = "written" => Loads(file') = items'[screen]
  PROVE  Following'
<1>1. saves'[v].at = at /\ saves'[v].screen = screen /\ saves'[v].payload = payload
  BY DEF Becomes
<1>2. \A w \in Slots : saves'[w].at # "none" => w = v
  BY DEF Becomes
<1>3. SavingOK(v)'
  BY <1>1, <1>2 DEF SavingOK, Alone, Active, Loads
<1> QED
  BY <1>1, <1>2, <1>3 DEF Following, Active

LEMMA LoadsFollow ==
  ASSUME TypeInv, Following, ~excused,
         HideScreen \/ ReadHistory \/ HistoryLoaded \/ ShellReads \/ ShellTold
  PROVE  Following'
<1>1. file' = file /\ saves' = saves
  BY DEF HideScreen, ReadHistory, HistoryLoaded, ShellReads, ShellTold
<1>2. Loads(file)' = Loads(file) /\ (Resting' <=> Resting)
  BY <1>1 DEF Loads, Resting
<1>3. CASE HideScreen
  <2>1. mounted' = 0 /\ items' = items /\ shell' = shell /\ load'.at = "none"
    BY <1>3 DEF HideScreen, NoLoad
  <2>2. CASE Resting
    BY <1>2, <2>1, <2>2, RestsOrSaves, FollowsResting DEF RestingOK
  <2>3. ASSUME NEW v \in Slots, saves[v].at # "none" PROVE Following'
    <3>1. SavingOK(v)
      BY <2>3, RestsOrSaves
    <3>2. SavingOK(v)'
      BY <1>1, <1>2, <2>1, <3>1 DEF SavingOK, Alone, Active
    <3>3. \A w \in Slots : saves'[w].at # "none" => w = v
      BY <1>1, <3>1 DEF SavingOK, Alone, Active
    <3> QED
      BY <1>1, <2>3, <3>2, <3>3 DEF Following, Active
  <2> QED
    BY <2>2, <2>3 DEF Resting
<1>4. ASSUME load.at # "none" \/ shell.load.at # "none" PROVE Resting' /\ RestingOK
  BY <1>2, <1>4, RestsOrSaves
<1>5. CASE ReadHistory
  <2>1. Resting' /\ RestingOK
    BY <1>4, <1>5 DEF ReadHistory
  <2>2. load'.at = "read" /\ load'.found = Loads(file) /\ shell' = shell
    BY <1>5 DEF ReadHistory
  <2> QED
    BY <1>2, <2>1, <2>2, FollowsResting DEF RestingOK
<1>6. CASE HistoryLoaded
  <2>1. Resting' /\ RestingOK /\ load.found = Loads(file)
    BY <1>4, <1>6 DEF HistoryLoaded, RestingOK
  <2>2. mounted \in Screens
    BY <1>6, MountedTyped DEF HistoryLoaded, TypeInv, OwnersOK
  <2>3. mounted' = mounted /\ items'[mounted] = Loads(file) /\ load'.at = "none"
    BY <1>6, <2>1, <2>2 DEF HistoryLoaded, TypeInv, TypeOK, NoLoad
  <2>4. /\ shell'.known /\ (shell'.has <=> Loads(file) # <<>>)
        /\ shell'.load = shell.load
    BY <1>6, <2>1, ReportTyped, SavesTyped DEF HistoryLoaded, TypeInv
  <2> QED
    BY <1>2, <2>1, <2>3, <2>4, FollowsResting DEF RestingOK, Shown
<1>7. CASE ShellReads
  <2>1. Resting' /\ RestingOK
    BY <1>4, <1>7 DEF ShellReads
  <2>2. /\ shell'.load.at = "read" /\ shell'.load.found = Loads(file)
        /\ shell'.known = shell.known /\ shell'.has = shell.has
    BY <1>7, SavesTyped DEF ShellReads, TypeInv, ShellStates
  <2>3. load' = load /\ mounted' = mounted /\ items' = items
    BY <1>7 DEF ShellReads, screenVars
  <2> QED
    BY <1>2, <2>1, <2>2, <2>3, FollowsResting DEF RestingOK, Shown
<1>8. CASE ShellTold
  <2>1. Resting' /\ RestingOK /\ shell.load.found = Loads(file)
    BY <1>4, <1>8 DEF ShellTold, RestingOK
  <2>2. /\ shell'.known /\ (shell'.has <=> Loads(file) # <<>>)
        /\ shell'.load.at = "none"
    <3> DEFINE told == Report(shell, shell.load.found)
    <3>1. /\ told \in ShellStates /\ told.known
          /\ (told.has <=> shell.load.found # <<>>)
      BY SavesTyped, ReportTyped DEF TypeInv
    <3>2. shell' = [told EXCEPT !.load = NoLoad]
      BY <1>8 DEF ShellTold
    <3> HIDE DEF told
    <3> QED
      BY <2>1, <3>1, <3>2 DEF ShellStates, NoLoad
  <2>3. load' = load /\ mounted' = mounted /\ items' = items
    BY <1>8 DEF ShellTold, screenVars
  <2> QED
    BY <1>2, <2>1, <2>2, <2>3, FollowsResting DEF RestingOK, Shown
<1> QED
  BY <1>3, <1>5, <1>6, <1>7, <1>8

LEMMA SavesFollow ==
  ASSUME TypeInv, Following, ~excused, NEW v \in Slots,
         Encode(v) \/ Truncate(v) \/ Write(v) \/ Saved(v)
  PROVE  Following'
<1> DEFINE screen == saves[v].screen
<1>1. StoreStep(v) /\ saves[v].at # "none"
  BY DEF StoreStep, Encode, Truncate, Write, Saved
<1>2. SavingOK(v)
  BY <1>1, RestsOrSaves
<1>3. /\ screen \in Screens /\ UNCHANGED screenVars
      /\ items' = items /\ load' = load /\ mounted' = mounted
      /\ items[screen] \in Lists
  BY <1>1, StoreFacts, MountedTyped DEF screenVars, TypeInv
<1>4. /\ \A w \in Slots \ {v} : saves[w].at = "none"
      /\ load'.at = "none" /\ mounted' \in {0, screen} /\ shell.load.at = "none"
  BY <1>2, <1>3 DEF SavingOK, Alone, Active
<1>5. CASE Encode(v)
  <2>1. Becomes(v, "encoded", screen, items[screen]) /\ shell' = shell
    BY <1>1, <1>5, StoreFacts
  <2> HIDE DEF screen
  <2> QED
    BY <1>3, <1>4, <2>1, FollowsSaving
<1>6. CASE Truncate(v)
  <2>1. /\ Becomes(v, "open", screen, saves[v].payload) /\ shell' = shell
        /\ file' = Empty /\ saves[v].at = "encoded"
    BY <1>1, <1>6, StoreFacts
  <2>2. saves[v].payload = items[screen]
    BY <1>2, <2>1 DEF SavingOK
  <2> HIDE DEF screen
  <2> QED
    BY <1>3, <1>4, <2>1, <2>2, FollowsSaving
<1>7. CASE Write(v)
  <2>1. saves[v].at = "open" /\ file = Empty /\ saves[v].payload = items[screen]
    BY <1>2, <1>7 DEF SavingOK, Write
  <2>2. /\ Becomes(v, "written", screen, <<>>) /\ shell' = shell
        /\ file' = saves[v].payload
    <3>1. saves' = [saves EXCEPT ![v].at = "written", ![v].payload = <<>>]
          /\ file' = saves[v].payload /\ shell' = shell
      BY <1>7, <2>1 DEF Write
    <3>2. Becomes(v, "written", screen, <<>>)
      BY <1>1, <1>7, StoreFacts
    <3> QED
      BY <3>1, <3>2
  <2>3. Loads(file') = items[screen]
    BY <1>3, <2>1, <2>2, LoadsTyped
  <2> HIDE DEF screen
  <2> QED
    BY <1>3, <1>4, <2>2, <2>3, FollowsSaving
<1>8. CASE Saved(v)
  <2>1. /\ Becomes(v, "none", 0, <<>>) /\ shell' = Report(shell, items[screen])
        /\ file' = file /\ saves[v].at = "written"
    BY <1>1, <1>8, StoreFacts
  <2>2. Loads(file)' = items[screen]
    BY <1>2, <2>1 DEF SavingOK, Loads
  <2>3. Resting'
    BY <1>4, <2>1 DEF Becomes, Resting
  <2>4. /\ shell'.known /\ (shell'.has <=> items[screen] # <<>>)
        /\ shell'.load.at = "none"
    BY <1>4, <2>1, ReportTyped, SavesTyped DEF TypeInv
  <2>5. RestingOK'
    BY <1>3, <1>4, <2>2, <2>4 DEF RestingOK, Shown
  <2> QED
    BY <2>3, <2>5, FollowsResting
<1> QED
  BY <1>5, <1>6, <1>7, <1>8

LEMMA FollowingStep ==
  ASSUME TypeInv, Following, [MCNext]_<<vars, excused>>
  PROVE  Following'
<1> SUFFICES ASSUME ~excused' PROVE Following'
  BY DEF Following
<1>1. CASE UserStep /\ excused' = ~Settled
  <2>1. Resting /\ load.at = "none" /\ shell.load.at = "none"
    BY <1>1 DEF Settled, Resting
  <2>2. PICK list \in Lists : Changes(list)
    BY <1>1, UserChanges
  <2>3. mounted \in Screens /\ UNCHANGED <<file, built, mounted, load, shell>>
    BY <1>1, UserChanges
  <2>4. PICK v \in Slots : Becomes(v, "starting", mounted, <<>>)
    BY <2>2, <2>3, ChangesFacts
  <2>5. /\ \A w \in Slots \ {v} : saves[w].at = "none"
        /\ load'.at = "none" /\ shell'.load.at = "none" /\ mounted' \in {0, mounted}
    BY <2>1, <2>3 DEF Resting
  <2> QED
    BY <2>4, <2>5, FollowsSaving
<1>2. CASE /\ ShowScreen
           /\ excused' = \/ \E v \in Slots : saves[v].at # "none"
                         \/ excused /\ shell.load.at # "none"
  <2>1. Resting /\ (shell.load.at # "none" => ~excused)
    BY <1>2 DEF Resting
  <2>2. file' = file /\ saves' = saves /\ shell' = shell /\ load'.at = "reading"
    BY <1>2 DEF ShowScreen
  <2>3. shell.load.at = "read" => shell.load.found = Loads(file)
    BY <2>1, RestsOrSaves DEF RestingOK
  <2>4. Resting' /\ RestingOK'
    BY <2>1, <2>2, <2>3 DEF Resting, RestingOK, Loads
  <2> QED
    BY <2>4, FollowsResting
<1>3. CASE Kill
  <2>1. Resting' /\ load'.at = "none" /\ mounted' = 0 /\ shell'.load.at = "reading"
    BY <1>3, KillTyped DEF Kill, Resting, NoLoad
  <2> QED
    BY <2>1, FollowsResting DEF RestingOK
<1>4. CASE /\ \/ HideScreen \/ ReadHistory \/ HistoryLoaded \/ ShellReads \/ ShellTold
              \/ \E v \in Slots : Encode(v) \/ Truncate(v) \/ Write(v) \/ Saved(v)
           /\ UNCHANGED excused
  BY <1>4, LoadsFollow, SavesFollow
<1>5. CASE UNCHANGED <<vars, excused>>
  BY <1>5
     DEF vars, screenVars, Following, Active, SavingOK, Alone, RestingOK, Shown, Loads
<1> QED
  BY <1>1, <1>2, <1>3, <1>4, <1>5 DEF MCNext

LEMMA FollowingInvariance == MCSpec => [](TypeInv /\ Following)
<1>1. MCInit => TypeInv /\ Following
  BY InitTyped, InitFollowing DEF MCInit
<1>2. TypeInv /\ Following /\ [MCNext]_<<vars, excused>> => (TypeInv /\ Following)'
  BY NotedStep, TypeStep, FollowingStep
<1> QED
  BY <1>1, <1>2, PTL DEF MCSpec

LEMMA RestShown ==
  ASSUME Following, AtRest
  PROVE  Shown
BY DEF Following, AtRest, Settled, Active, RestingOK

(* Unless a save overlapped another one or a load, or one of them failed:  *)
(* what a later start loads is what the mounted screen shows, across kills *)
(* too (_saveTranslationHistory, which nobody waits for).                  *)
THEOREM HistoryIsSaved == MCSpec => []FileFollows
<1>1. TypeInv /\ Following => FileFollows
  BY RestShown DEF FileFollows, Shown
<1> QED
  BY <1>1, FollowingInvariance, PTL

(* And the shell knows whether that list is empty                          *)
(* (_handleTranslationHistoryPresenceChanged).                             *)
THEOREM ShellKnowsPresence == MCSpec => []PresenceFollows
<1>1. TypeInv /\ Following => PresenceFollows
  BY RestShown DEF PresenceFollows, Shown
<1> QED
  BY <1>1, FollowingInvariance, PTL
=============================================================================
