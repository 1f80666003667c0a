------------------------- MODULE LiveSnapshot_proofs -------------------------
(* Proofs about LiveSnapshot for every finite set of likes, all lectures, requests *)
(* and posts, and every bound.                                                    *)
EXTENDS LiveSnapshot, FiniteSetTheorems, SequenceTheorems, TLAPS

-----------------------------------------------------------------------------
(* The inductive invariant.                                                  *)

Rows == [version : [Sections -> Nat], written : Nat, visible : SUBSET CommentIds,
         likes : [CommentIds -> Nat], mine : SUBSET CommentIds]
Total(v) == v["lecture"] + v["comments"] + v["likes"] + v["pdf"]

\* A lecture's row counts its changes; what is visible is its own.
RowSound(row, l) ==
    /\ row \in Rows
    /\ row.version["lecture"] <= 1
    /\ Total(row.version) <= MaxChanges[l]
    /\ row.written <= row.version["comments"]
    /\ \A c \in CommentIds : row.likes[c] <= row.version["likes"]
    /\ \A c \in row.visible : c[1] = l

\* What a row does not take back; a closed lecture stays closed, at its last slide.
RowForward(old, new) ==
    /\ \A s \in Sections : old.version[s] <= new.version[s]
    /\ old.version["comments"] = new.version["comments"] => new.visible = old.visible
    /\ old.version["lecture"] # 0 =>
          \A s \in {"lecture", "pdf"} : new.version[s] = old.version[s]

\* A snapshot is what a row was.
SnapSound(snap, row, l) ==
    /\ snap \in Rows
    /\ \A s \in Sections : snap.version[s] <= row.version[s]
    /\ snap.version["comments"] = row.version["comments"] => snap.visible = row.visible
    /\ \A c \in snap.visible : c[1] = l
    /\ \A c \in CommentIds : snap.likes[c] <= MaxComment

Sessions == [lecture : Lectures, status : {"open", "closed"}] \cup {NoSession}

\* A lecture shown as closed is closed.
SceneSound ==
    /\ session \in Sessions
    /\ live \in BOOLEAN /\ effectDue \in BOOLEAN /\ awake \in BOOLEAN
    /\ session.status = "closed" => ~Open(session.lecture)
    /\ archive \in {"none", "asked", "shown"}
    /\ archive = "asked" => session.status = "closed"

\* The fence never claims more than is shown, and never more than there is.
FenceSound ==
    /\ known \in [Sections -> Int] /\ applied \in [Sections -> Int]
    /\ \A s \in Sections : NoVersion <= known[s] /\ known[s] <= applied[s]
    /\ session = NoSession => applied = NullVersions
    /\ session # NoSession =>
          LET row == server[session.lecture] IN
          /\ \A s \in Sections : applied[s] <= row.version[s]
          /\ applied["pdf"] <= display.version
          /\ applied["comments"] = row.version["comments"] =>
                Newest(row.visible, CommentLimit) \subseteq Ids(comments)

\* The slide shown is one the joined lecture has shown.
DisplaySound ==
    display # NoDisplay =>
        /\ session # NoSession
        /\ display \in [lecture : {session.lecture}, version : Nat]
        /\ display.version <= server[session.lecture].version["pdf"]

RequestRows == [busy : BOOLEAN, lecture : Lectures \cup {NoLecture}, current : BOOLEAN,
                late : BOOLEAN, all : BOOLEAN, awaits : SUBSET {"snapshot", "participant"},
                known : [Sections -> Int], snapshot : Rows \cup {Unserved},
                participant : SUBSET CommentIds]

Asks(q) == q.busy /\ "snapshot" \notin q.awaits

\* What a request carries, whatever the epoch is by now, ...
RequestSound(q) ==
    /\ q \in RequestRows
    /\ q.awaits # {} \/ q.current => q.busy
    /\ q.busy => q.lecture \in Lectures
    /\ Asks(q) => IF Terminal(q) THEN ~Open(q.lecture)
                  ELSE SnapSound(q.snapshot, server[q.lecture], q.lecture)

\* ... and one of the current epoch, which may still be applied.
CurrentSound(q) ==
    q.current =>
      /\ session # NoSession /\ q.lecture = session.lecture
      /\ \A s \in Sections : q.known[s] <= applied[s]
      /\ Asks(q) /\ ~Terminal(q) =>
            /\ \/ q.snapshot.version["pdf"] >= display.version
               \/ q.snapshot.version["pdf"] < applied["pdf"]
            /\ session.status = "closed" =>
                  \A s \in {"lecture", "pdf"} :
                     q.snapshot.version[s] = server[session.lecture].version[s]

RequestsSound ==
    /\ requests \in [Requests -> RequestRows]
    /\ \A r \in Requests : RequestSound(requests[r]) /\ CurrentSound(requests[r])

\* The order of the fence names each request once, and only travelling ones.
SentSound ==
    /\ sent \in Seq(Requests)
    /\ \A i \in DOMAIN sent : requests[sent[i]].busy
    /\ \A i, j \in DOMAIN sent : sent[i] = sent[j] => i = j
    /\ inFlight \in Requests \cup {NoRequest} /\ loop \in Requests \cup {NoRequest}

Phases == {"idle", "sent", "saved", "refresh", "read", "done"}
OpRows == [phase : Phases, lecture : Lectures \cup {NoLecture}, current : BOOLEAN,
           comment : CommentIds \cup {<<>>}, liked : SUBSET CommentIds]

\* The student's own comments and likes name their lecture, and what they were sent for.
OpsSound ==
    /\ ops \in [Ops -> OpRows]
    /\ \A o \in Ops :
          /\ ops[o].phase \notin {"idle", "done"} => ops[o].lecture \in Lectures
          /\ ops[o].phase \notin {"idle", "done"} /\ ops[o].current =>
                ops[o].lecture = session.lecture
    /\ \A p \in Posts : ops[p].phase = "saved" =>
          ops[p].comment \in CommentIds /\ ops[p].comment[1] = ops[p].lecture
    /\ \A k \in Likes : ops[k].phase \in {"sent", "saved"} => ops[k].comment \in CommentIds

Begun == {p \in Posts : ops[p].phase # "idle"}
Spent == {k \in Likes : ops[k].phase \in {"refresh", "read", "done"}}

\* Cards of lecture l, pending ones for the posts `begun`, with at most `most` likes.
CardSound(card, l, begun, most) ==
    /\ card \in [id : CommentIds \cup Posts, pending : BOOLEAN, likes : Nat, mine : BOOLEAN]
    /\ card.likes <= most
    /\ card.pending => card.id \in begun
    /\ ~card.pending => card.id \in CommentIds /\ card.id[1] = l
CardsSound(cards, l, begun, most) ==
    /\ \A card \in cards : CardSound(card, l, begun, most)
    /\ \A a, b \in cards : a.id = b.id => a = b

ContentSound ==
    /\ CardsSound(comments, session.lecture, Begun, MaxComment + Cardinality(Spent))
    /\ session.status = "closed" => Pending(comments) = {}
    /\ liked \subseteq CommentIds

SnapshotInv ==
    /\ \A l \in Lectures : RowSound(server[l], l)
    /\ server \in [Lectures -> Rows]
    /\ SceneSound /\ FenceSound /\ DisplaySound /\ RequestsSound /\ SentSound
    /\ OpsSound /\ ContentSound


-----------------------------------------------------------------------------
(* The bounds, cards and rows.                                                *)

\* Some lecture has the most changes, and MaxComment is how many.
LEMMA MostChanges ==
    MaxComment \in Nat /\ \A l \in Lectures : MaxChanges[l] <= MaxComment
<1> DEFINE counts == {MaxChanges[l] : l \in Lectures}
<1>1. PICK l \in Lectures : \A m \in Lectures : MaxChanges[m] <= MaxChanges[l]
  BY SnapshotAssumption
<1>2. MaxChanges[l] \in counts /\ \A m \in counts : m <= MaxChanges[l]
  BY <1>1
<1>3. MaxComment \in counts /\ \A m \in counts : m <= MaxComment
  BY <1>2 DEF MaxComment
<1>4. counts \subseteq Nat
  BY SnapshotAssumption
<1> QED
  BY <1>3, <1>4

\* A version that is served is not null, so that a row is no bare terminal state.
LEMMA RowIsServed ==
    ASSUME NEW row \in Rows
    PROVE  row # Unserved
<1>1. row.version["pdf"] \in Nat
  BY DEF Rows, Sections
<1>2. Unserved.version["pdf"] = -1
  BY DEF Unserved, NullVersions, NoVersion, Sections
<1> QED
  BY <1>1, <1>2

\* Ids of a comment.
LEMMA CommentPair ==
    ASSUME NEW l \in Lectures, NEW n \in Nat, 1 <= n, n <= MaxComment
    PROVE  <<l, n>> \in CommentIds /\ <<l, n>>[1] = l
BY MostChanges DEF CommentIds

\* The four versions of a row are each at most their sum.
LEMMA PartOfTotal ==
    ASSUME NEW v \in [Sections -> Nat]
    PROVE  Total(v) \in Nat /\ \A s \in Sections : v[s] <= Total(v)
<1>1. v["lecture"] \in Nat /\ v["comments"] \in Nat /\ v["likes"] \in Nat /\ v["pdf"] \in Nat
  BY DEF Sections
<1> QED
  BY <1>1 DEF Total, Sections

\* No version of a lecture exceeds the bound on its changes.
LEMMA VersionBound ==
    ASSUME NEW l \in Lectures, NEW row, RowSound(row, l)
    PROVE  /\ row \in Rows
           /\ \A s \in Sections : row.version[s] \in Nat /\ row.version[s] <= MaxComment
           /\ row.written <= MaxComment
           /\ \A c \in CommentIds : row.likes[c] \in Nat /\ row.likes[c] <= MaxComment
<1>1. row \in Rows /\ Total(row.version) <= MaxChanges[l]
  BY DEF RowSound
<1>2. row.version \in [Sections -> Nat] /\ row.written \in Nat /\ row.likes \in [CommentIds -> Nat]
  BY <1>1 DEF Rows
<1>3. MaxChanges[l] \in Nat /\ MaxChanges[l] <= MaxComment /\ MaxComment \in Nat
  BY MostChanges, SnapshotAssumption
<1>4. Total(row.version) \in Nat /\ \A s \in Sections : row.version[s] <= Total(row.version)
  BY <1>2, PartOfTotal
<1>5. \A s \in Sections : row.version[s] \in Nat /\ row.version[s] <= MaxComment
  BY <1>1, <1>2, <1>3, <1>4
<1>6. row.version["comments"] <= MaxComment /\ row.version["comments"] \in Nat
      /\ row.version["likes"] <= MaxComment /\ row.version["likes"] \in Nat
  BY <1>5 DEF Sections
<1>7. row.written <= MaxComment
  BY <1>2, <1>3, <1>6 DEF RowSound
<1>8. \A c \in CommentIds : row.likes[c] \in Nat /\ row.likes[c] <= MaxComment
  <2> TAKE c \in CommentIds
  <2>1. row.likes[c] \in Nat /\ row.likes[c] <= row.version["likes"]
    BY <1>2 DEF RowSound
  <2> QED
    BY <2>1, <1>3, <1>6
<1> QED
  BY <1>1, <1>5, <1>7, <1>8

\* One change of a lecture, a closed one only in its comments: one version more,
\* what it covers follows.
LEMMA RowBump ==
    ASSUME NEW l \in Lectures, NEW row, RowSound(row, l),
           Total(row.version) < MaxChanges[l],
           NEW s \in Sections, NEW new \in Rows,
           row.version["lecture"] = 0 \/ s = "comments",
           new.version = [row.version EXCEPT ![s] = row.version[s] + 1],
           s = "comments" \/ (new.visible = row.visible /\ new.written = row.written),
           new.written <= row.written + 1,
           \A c \in CommentIds : new.likes[c] <= row.likes[c] \/
                (s = "likes" /\ new.likes[c] <= row.likes[c] + 1),
           \A c \in new.visible : c[1] = l
    PROVE  RowSound(new, l) /\ RowForward(row, new)
<1> DEFINE v == row.version
           w == new.version
<1>1. row \in Rows /\ v \in [Sections -> Nat] /\ w \in [Sections -> Nat]
  BY DEF RowSound, Rows
<1>2. w[s] = v[s] + 1 /\ \A u \in Sections : u # s => w[u] = v[u]
  BY <1>1
<1>3. \A u \in Sections : v[u] \in Nat /\ w[u] \in Nat /\ v[u] <= w[u]
  BY <1>1, <1>2
<1>4. /\ v["lecture"] \in Nat /\ v["comments"] \in Nat /\ v["likes"] \in Nat /\ v["pdf"] \in Nat
      /\ w["lecture"] \in Nat /\ w["comments"] \in Nat /\ w["likes"] \in Nat /\ w["pdf"] \in Nat
  BY <1>1 DEF Sections
<1>5. Total(w) = Total(v) + 1
  BY <1>2, <1>4 DEF Total, Sections
<1>6. MaxChanges[l] \in Nat /\ Total(v) \in Nat
  BY <1>1, SnapshotAssumption, PartOfTotal
<1>7. Total(w) <= MaxChanges[l]
  BY <1>5, <1>6
<1>8. w["lecture"] <= 1
  <2>1. CASE s = "lecture"
    BY <2>1, <1>2, <1>4
  <2>2. CASE s # "lecture"
    <3>1. w["lecture"] = v["lecture"]
      BY <2>2, <1>2 DEF Sections
    <3> QED
      BY <3>1 DEF RowSound
  <2> QED
    BY <2>1, <2>2
<1>9. new.written <= w["comments"]
  <2>1. row.written <= v["comments"] /\ row.written \in Nat /\ new.written \in Nat
    BY <1>1 DEF RowSound, Rows
  <2>2. CASE s = "comments"
    BY <2>1, <2>2, <1>2, <1>4 DEF Sections
  <2>3. CASE s # "comments"
    BY <2>1, <2>3, <1>2, <1>4 DEF Sections
  <2> QED
    BY <2>2, <2>3
<1>10. ASSUME NEW c \in CommentIds
       PROVE  new.likes[c] <= w["likes"]
  <2>1. row.likes[c] <= v["likes"] /\ row.likes[c] \in Nat /\ new.likes[c] \in Nat
    BY <1>1 DEF RowSound, Rows
  <2>2. CASE s = "likes"
    BY <2>1, <2>2, <1>2, <1>4
  <2>3. CASE s # "likes"
    BY <2>1, <2>3, <1>2, <1>4 DEF Sections
  <2> QED
    BY <2>2, <2>3
<1>11. RowSound(new, l)
  BY <1>7, <1>8, <1>9, <1>10 DEF RowSound
<1>12. v["comments"] = w["comments"] => new.visible = row.visible
  BY <1>2, <1>4
<1>13. v["lecture"] # 0 => \A u \in {"lecture", "pdf"} : w[u] = v[u]
  BY <1>2 DEF Sections
<1> QED
  BY <1>3, <1>11, <1>12, <1>13 DEF RowForward

-----------------------------------------------------------------------------
(* The database moves.                                                        *)

\* A trigger adds one to the version of a section, and nothing else.
LEMMA BumpedRow ==
    ASSUME NEW row \in Rows, NEW s \in Sections
    PROVE  /\ Bumped(row, s) \in Rows
           /\ Bumped(row, s).version = [row.version EXCEPT ![s] = row.version[s] + 1]
           /\ Bumped(row, s).written = row.written
           /\ Bumped(row, s).visible = row.visible
           /\ Bumped(row, s).likes = row.likes
           /\ Bumped(row, s).mine = row.mine
<1>1. row.version \in [Sections -> Nat]
  BY DEF Rows
<1>2. [row.version EXCEPT ![s] = row.version[s] + 1] \in [Sections -> Nat]
  BY <1>1
<1>3. PICK v \in [Sections -> Nat] : v = [row.version EXCEPT ![s] = row.version[s] + 1]
  BY <1>2
<1>4. Bumped(row, s) = [row EXCEPT !.version = v]
  BY <1>3 DEF Bumped
<1>5. PICK n : n = [row EXCEPT !.version = v]
  OBVIOUS
<1>6. n \in Rows /\ n.version = v /\ n.written = row.written /\ n.visible = row.visible
      /\ n.likes = row.likes /\ n.mine = row.mine
  BY <1>5 DEF Rows
<1> QED
  BY <1>3, <1>4, <1>5, <1>6

\* Open, and MayChange, in terms of the row.
LEMMA MayChangeRow ==
    ASSUME NEW l \in Lectures, MayChange(l)
    PROVE  server[l].version["lecture"] = 0 /\ Total(server[l].version) < MaxChanges[l]
BY DEF MayChange, ChangesLeft, Open, Changes, Total

\* A new comment gets the next number, is visible, and bumps its section.
LEMMA CommentRow ==
    ASSUME NEW l \in Lectures, NEW row, RowSound(row, l),
           row.version["lecture"] = 0, Total(row.version) < MaxChanges[l]
    PROVE  /\ WithComment(row, l) \in Rows
           /\ RowSound(WithComment(row, l), l) /\ RowForward(row, WithComment(row, l))
           /\ <<l, row.written + 1>> \in CommentIds
<1>1. row \in Rows /\ row.version \in [Sections -> Nat] /\ row.written \in Nat
  BY DEF RowSound, Rows
<1>2. MaxChanges[l] \in Nat /\ MaxChanges[l] <= MaxComment /\ MaxComment \in Nat
  BY MostChanges, SnapshotAssumption
<1>3. Total(row.version) \in Nat /\ row.version["comments"] <= Total(row.version)
      /\ row.version["comments"] \in Nat
  BY <1>1, PartOfTotal DEF Sections
<1>4. row.written <= row.version["comments"]
  BY DEF RowSound
<1>5. row.written + 1 \in Nat /\ 1 <= row.written + 1 /\ row.written + 1 <= MaxComment
  BY <1>1, <1>2, <1>3, <1>4
<1>6. PICK c \in CommentIds : c = <<l, row.written + 1>> /\ c[1] = l
  BY <1>5, CommentPair
<1>7. PICK b : b = Bumped(row, "comments")
  OBVIOUS
<1>8. /\ b \in Rows /\ b.version = [row.version EXCEPT !["comments"] = row.version["comments"] + 1]
      /\ b.written = row.written /\ b.visible = row.visible /\ b.likes = row.likes
  BY <1>1, <1>7, BumpedRow DEF Sections
<1>9. PICK b1 : b1 = [b EXCEPT !.written = row.written + 1]
  OBVIOUS
<1>10. PICK n : n = [b1 EXCEPT !.visible = row.visible \cup {c}]
  OBVIOUS
<1>11. b1 \in Rows /\ b1.version = b.version /\ b1.written = row.written + 1
       /\ b1.visible = row.visible /\ b1.likes = row.likes
  BY <1>5, <1>8, <1>9 DEF Rows
<1>12. row.visible \cup {c} \in SUBSET CommentIds
  BY <1>1, <1>6 DEF Rows
<1>13. n \in Rows /\ n.version = b.version /\ n.written = row.written + 1
       /\ n.visible = row.visible \cup {c} /\ n.likes = row.likes
  BY <1>10, <1>11, <1>12 DEF Rows
<1>14. n = WithComment(row, l)
  BY <1>6, <1>7, <1>8, <1>9, <1>10, <1>11 DEF WithComment
<1>15. \A d \in n.visible : d[1] = l
  BY <1>6, <1>13 DEF RowSound
<1>16. \A d \in CommentIds : n.likes[d] \in Nat
  BY <1>13 DEF Rows
<1>17. n.written <= row.written + 1 /\ \A d \in CommentIds : n.likes[d] <= row.likes[d]
  BY <1>5, <1>13, <1>16
<1>18. RowSound(n, l) /\ RowForward(row, n)
  BY <1>8, <1>13, <1>15, <1>17, RowBump DEF Sections
<1> QED
  BY <1>6, <1>13, <1>14, <1>18

\* A like adds one to the total of its comment; the likes of the students change no more.
LEMMA LikeRow ==
    ASSUME NEW l \in Lectures, NEW row, RowSound(row, l),
           row.version["lecture"] = 0, Total(row.version) < MaxChanges[l],
           NEW c \in CommentIds
    PROVE  /\ WithLike(row, c) \in Rows /\ WithLike(row, c).mine = row.mine
           /\ RowSound(WithLike(row, c), l) /\ RowForward(row, WithLike(row, c))
<1>1. row \in Rows /\ row.version \in [Sections -> Nat] /\ row.written \in Nat
      /\ row.likes \in [CommentIds -> Nat]
  BY DEF RowSound, Rows
<1>2. PICK b : b = Bumped(row, "likes")
  OBVIOUS
<1>3. /\ b \in Rows /\ b.version = [row.version EXCEPT !["likes"] = row.version["likes"] + 1]
      /\ b.written = row.written /\ b.visible = row.visible /\ b.likes = row.likes
      /\ b.mine = row.mine
  BY <1>1, <1>2, BumpedRow DEF Sections
<1>4. PICK k : k = [row.likes EXCEPT ![c] = row.likes[c] + 1]
  OBVIOUS
<1>5. k \in [CommentIds -> Nat] /\ k[c] = row.likes[c] + 1
      /\ \A d \in CommentIds : d # c => k[d] = row.likes[d]
  BY <1>1, <1>4
<1>6. PICK n : n = [b EXCEPT !.likes = k]
  OBVIOUS
<1>7. n \in Rows /\ n.version = b.version /\ n.written = row.written
       /\ n.visible = row.visible /\ n.likes = k /\ n.mine = row.mine
  BY <1>3, <1>5, <1>6 DEF Rows
<1>8. n = WithLike(row, c)
  BY <1>2, <1>3, <1>4, <1>6 DEF WithLike
<1>9. \A d \in n.visible : d[1] = l
  BY <1>7 DEF RowSound
<1>10. ASSUME NEW d \in CommentIds
       PROVE  n.likes[d] <= row.likes[d] + 1
  BY <1>1, <1>5, <1>7
<1>11. n.written <= row.written + 1
  BY <1>1, <1>7
<1>12. RowSound(n, l) /\ RowForward(row, n)
  BY <1>3, <1>7, <1>9, <1>10, <1>11, RowBump DEF Sections
<1> QED
  BY <1>7, <1>8, <1>12

\* A comment is hidden or shown again: the section is bumped, the rest stays.
LEMMA ModeratedRow ==
    ASSUME NEW l \in Lectures, NEW row, RowSound(row, l),
           Total(row.version) < MaxChanges[l],
           NEW i \in 1..row.written, NEW n,
           n = [Bumped(row, "comments") EXCEPT !.visible = SymDiff(row.visible, {<<l, i>>})]
    PROVE  n \in Rows /\ RowSound(n, l) /\ RowForward(row, n)
<1>1. row \in Rows /\ row.version \in [Sections -> Nat] /\ row.written \in Nat
      /\ row.likes \in [CommentIds -> Nat] /\ row.visible \subseteq CommentIds
      /\ row.written <= MaxComment /\ MaxComment \in Nat
  <2>1. row \in Rows /\ row.written <= MaxComment
    BY VersionBound
  <2> QED
    BY <2>1, MostChanges DEF Rows
<1>2. PICK b : b = Bumped(row, "comments")
  OBVIOUS
<1>3. /\ b \in Rows /\ b.version = [row.version EXCEPT !["comments"] = row.version["comments"] + 1]
      /\ b.written = row.written /\ b.visible = row.visible /\ b.likes = row.likes
  BY <1>1, <1>2, BumpedRow DEF Sections
<1>4. PICK c \in CommentIds : c = <<l, i>> /\ c[1] = l
  <2>1. i \in Nat /\ 1 <= i /\ i <= MaxComment
    BY <1>1
  <2>2. <<l, i>> \in CommentIds /\ <<l, i>>[1] = l
    BY <2>1, CommentPair
  <2> QED
    BY <2>2
<1>5. PICK visible \in SUBSET CommentIds : visible = SymDiff(row.visible, {c})
  BY <1>1 DEF SymDiff
<1>6. n = [b EXCEPT !.visible = visible]
  BY <1>2, <1>4, <1>5
<1>7. n \in Rows /\ n.version = b.version /\ n.written = row.written
       /\ n.visible = visible /\ n.likes = row.likes
  BY <1>3, <1>6 DEF Rows
<1>8. \A d \in n.visible : d[1] = l
  BY <1>4, <1>5, <1>7 DEF RowSound, SymDiff
<1>9. n.written <= row.written + 1 /\ \A d \in CommentIds : n.likes[d] <= row.likes[d]
  BY <1>1, <1>7
<1> QED
  BY <1>3, <1>7, <1>8, <1>9, RowBump DEF Sections

\* A page is turned, or the lecture closed: one version more.
LEMMA BumpedSound ==
    ASSUME NEW l \in Lectures, NEW row, RowSound(row, l),
           row.version["lecture"] = 0, Total(row.version) < MaxChanges[l],
           NEW s \in Sections
    PROVE  Bumped(row, s) \in Rows /\ RowSound(Bumped(row, s), l)
           /\ RowForward(row, Bumped(row, s))
<1>1. row \in Rows /\ row.written \in Nat /\ row.likes \in [CommentIds -> Nat]
  BY DEF RowSound, Rows
<1>2. PICK b : b = Bumped(row, s)
  OBVIOUS
<1>3. /\ b \in Rows /\ b.version = [row.version EXCEPT ![s] = row.version[s] + 1]
      /\ b.written = row.written /\ b.visible = row.visible /\ b.likes = row.likes
  BY <1>1, <1>2, BumpedRow
<1>4. \A d \in b.visible : d[1] = l
  BY <1>3 DEF RowSound
<1>5. b.written <= row.written + 1 /\ \A d \in CommentIds : b.likes[d] <= row.likes[d]
  BY <1>1, <1>3
<1> QED
  BY <1>2, <1>3, <1>4, <1>5, RowBump

\* Every row is sound, and none took anything back.
ServerForward ==
    /\ server' \in [Lectures -> Rows]
    /\ \A l \in Lectures : RowSound(server'[l], l) /\ RowForward(server[l], server'[l])

\* A row goes forward to itself.
LEMMA RowStays ==
    ASSUME NEW row \in Rows PROVE RowForward(row, row)
BY DEF RowForward, Rows

\* The change of one row forward is a change forward of them all.
LEMMA OneRow ==
    ASSUME SnapshotInv, NEW l \in Lectures, NEW n \in Rows,
           RowSound(n, l), RowForward(server[l], n),
           server' = [server EXCEPT ![l] = n]
    PROVE  ServerForward
<1>1. server \in [Lectures -> Rows] /\ \A m \in Lectures : RowSound(server[m], m)
  BY DEF SnapshotInv
<1>2. \A m \in Lectures : RowForward(server[m], server[m])
  BY <1>1, RowStays
<1>3. server' \in [Lectures -> Rows]
  BY <1>1
<1>4. \A m \in Lectures : IF m = l THEN server'[m] = n ELSE server'[m] = server[m]
  BY <1>1
<1> QED
  BY <1>1, <1>2, <1>3, <1>4 DEF ServerForward

\* Whatever the others in the lecture do, the database goes forward.
LEMMA OthersForward ==
    ASSUME SnapshotInv, OthersAct
    PROVE  ServerForward
<1>1. PICK l \in Lectures : \/ OtherComments(l) \/ OtherLikes(l) \/ Moderate(l)
                            \/ TurnPage(l) \/ CloseLecture(l)
  BY DEF OthersAct
<1>2. server[l] \in Rows /\ RowSound(server[l], l)
  BY DEF SnapshotInv
<1>3. \/ Moderate(l)
      \/ MayChange(l)
  BY <1>1 DEF OtherComments, OtherLikes, TurnPage, CloseLecture
<1>4. /\ Moderate(l) \/ server[l].version["lecture"] = 0
      /\ Total(server[l].version) < MaxChanges[l]
  BY <1>3, MayChangeRow DEF Moderate, ChangesLeft, Changes, Total
<1>5. CASE OtherComments(l)
  <2>0. server[l].version["lecture"] = 0
    BY <1>5, MayChangeRow DEF OtherComments
  <2>1. server' = [server EXCEPT ![l] = WithComment(server[l], l)]
    BY <1>5 DEF OtherComments
  <2> QED
    BY <2>0, <2>1, <1>2, <1>4, CommentRow, OneRow
<1>6. CASE OtherLikes(l)
  <2>0. server[l].version["lecture"] = 0
    BY <1>6, MayChangeRow DEF OtherLikes
  <2>1. PICK c \in server[l].visible : server' = [server EXCEPT ![l] = WithLike(server[l], c)]
    BY <1>6 DEF OtherLikes
  <2>2. c \in CommentIds
    BY <1>2 DEF Rows
  <2>3. /\ WithLike(server[l], c) \in Rows /\ RowSound(WithLike(server[l], c), l)
        /\ RowForward(server[l], WithLike(server[l], c))
    BY <2>0, <2>2, <1>2, <1>4, LikeRow
  <2> QED
    BY <2>1, <2>3, OneRow
<1>7. CASE Moderate(l)
  <2>1. PICK i \in 1..server[l].written : server' = [server EXCEPT ![l] =
            [Bumped(server[l], "comments") EXCEPT
                !.visible = SymDiff(server[l].visible, {<<l, i>>})]]
    BY <1>7 DEF Moderate
  <2>3. PICK n : n = [Bumped(server[l], "comments") EXCEPT
                         !.visible = SymDiff(server[l].visible, {<<l, i>>})]
    OBVIOUS
  <2>4. n \in Rows /\ RowSound(n, l) /\ RowForward(server[l], n)
    BY <2>3, <1>2, <1>4, ModeratedRow
  <2>5. server' = [server EXCEPT ![l] = n]
    BY <2>1, <2>3
  <2> QED
    BY <2>4, <2>5, OneRow
<1>8. CASE TurnPage(l)
  <2>0. server[l].version["lecture"] = 0
    BY <1>8, MayChangeRow DEF TurnPage
  <2>1. server' = [server EXCEPT ![l] = Bumped(server[l], "pdf")]
    BY <1>8 DEF TurnPage
  <2> QED
    BY <2>0, <2>1, <1>2, <1>4, BumpedSound, OneRow DEF Sections
<1>9. CASE CloseLecture(l)
  <2>0. server[l].version["lecture"] = 0
    BY <1>9, MayChangeRow DEF CloseLecture
  <2>1. server' = [server EXCEPT ![l] = Bumped(server[l], "lecture")]
    BY <1>9 DEF CloseLecture
  <2> QED
    BY <2>0, <2>1, <1>2, <1>4, BumpedSound, OneRow DEF Sections
<1> QED
  BY <1>1, <1>5, <1>6, <1>7, <1>8, <1>9

\* A snapshot stays one of a lecture that goes forward.
LEMMA SnapForward ==
    ASSUME NEW old \in Rows, NEW new \in Rows, RowForward(old, new),
           NEW l, NEW snap, SnapSound(snap, old, l)
    PROVE  SnapSound(snap, new, l)
<1>1. \A s \in Sections : snap.version[s] \in Nat /\ old.version[s] \in Nat
         /\ new.version[s] \in Nat /\ snap.version[s] <= old.version[s]
         /\ old.version[s] <= new.version[s]
  BY DEF SnapSound, RowForward, Rows
<1>2. \A s \in Sections : snap.version[s] <= new.version[s]
  BY <1>1
<1>3. ASSUME snap.version["comments"] = new.version["comments"]
      PROVE  snap.visible = new.visible
  <2>1. snap.version["comments"] = old.version["comments"]
        /\ old.version["comments"] = new.version["comments"]
    BY <1>1, <1>3 DEF Sections
  <2> QED
    BY <2>1 DEF SnapSound, RowForward
<1> QED
  BY <1>2, <1>3 DEF SnapSound

\* When the database goes forward, everything the browser holds stays as sound as it was.
LEMMA ForwardKeeps ==
    ASSUME SnapshotInv, ServerForward, UNCHANGED <<scene, fence, shown>>
    PROVE  /\ \A l \in Lectures : RowSound(server'[l], l)
           /\ server' \in [Lectures -> Rows]
           /\ SceneSound' /\ FenceSound' /\ DisplaySound' /\ RequestsSound' /\ SentSound'
<1> USE DEF scene, fence, shown
<1>1. /\ server \in [Lectures -> Rows] /\ server' \in [Lectures -> Rows]
      /\ \A l \in Lectures : RowSound(server'[l], l) /\ RowForward(server[l], server'[l])
  BY DEF SnapshotInv, ServerForward
<1>2. ASSUME NEW l \in Lectures, ~Open(l)
      PROVE  /\ ~Open(l)'
             /\ \A s \in {"lecture", "pdf"} : server'[l].version[s] = server[l].version[s]
  BY <1>1, <1>2 DEF RowForward, Open
<1>3. SceneSound'
  <2>1. SceneSound
    BY DEF SnapshotInv
  <2>2. session.status = "closed" => session.lecture \in Lectures /\ ~Open(session.lecture)
    BY <2>1 DEF SceneSound, Sessions, NoSession
  <2>3. session.status = "closed" => ~Open(session.lecture)'
    BY <2>2, <1>2 DEF Open
  <2> QED
    BY <2>1, <2>3 DEF SceneSound, Sessions
<1>4. ASSUME session # NoSession
      PROVE  session.lecture \in Lectures
  BY <1>4 DEF SnapshotInv, SceneSound, Sessions
<1>5. FenceSound'
  <2>1. FenceSound
    BY DEF SnapshotInv
  <2>2. ASSUME session # NoSession
        PROVE  LET row == server'[session.lecture] IN
               /\ \A s \in Sections : applied[s] <= row.version[s]
               /\ applied["pdf"] <= display.version
               /\ applied["comments"] = row.version["comments"] =>
                     Newest(row.visible, CommentLimit) \subseteq Ids(comments)
    <3>1. PICK l \in Lectures : l = session.lecture
      BY <2>2, <1>4
    <3>2. PICK old \in Rows : old = server[l]
      BY <1>1
    <3>3. PICK new \in Rows : new = server'[l]
      BY <1>1
    <3>4. RowForward(old, new)
      BY <1>1, <3>2, <3>3
    <3>5. /\ \A s \in Sections : applied[s] <= old.version[s]
          /\ applied["pdf"] <= display.version
          /\ applied["comments"] = old.version["comments"] =>
                     Newest(old.visible, CommentLimit) \subseteq Ids(comments)
      BY <2>1, <2>2, <3>1, <3>2 DEF FenceSound
    <3>6. \A s \in Sections : applied[s] \in Int /\ old.version[s] \in Nat
              /\ new.version[s] \in Nat /\ old.version[s] <= new.version[s]
      BY <2>1, <3>4 DEF FenceSound, RowForward, Rows
    <3>7. \A s \in Sections : applied[s] <= new.version[s]
      BY <3>5, <3>6
    <3>8. ASSUME applied["comments"] = new.version["comments"]
          PROVE  Newest(new.visible, CommentLimit) \subseteq Ids(comments)
      <4>1. applied["comments"] = old.version["comments"]
            /\ old.version["comments"] = new.version["comments"]
        BY <3>5, <3>6, <3>8 DEF Sections
      <4>2. new.visible = old.visible
        BY <4>1, <3>4 DEF RowForward
      <4> QED
        BY <4>1, <4>2, <3>5
    <3> QED
      BY <3>1, <3>3, <3>5, <3>7, <3>8
  <2> QED
    BY <2>1, <2>2 DEF FenceSound
<1>6. DisplaySound'
  <2>1. DisplaySound
    BY DEF SnapshotInv
  <2>2. ASSUME display # NoDisplay
        PROVE  display.version <= server'[session.lecture].version["pdf"]
    <3>1. session.lecture \in Lectures /\ display.version \in Nat
          /\ display.version <= server[session.lecture].version["pdf"]
      BY <2>1, <2>2, <1>4 DEF DisplaySound
    <3>2. server[session.lecture].version["pdf"] \in Nat
          /\ server'[session.lecture].version["pdf"] \in Nat
          /\ server[session.lecture].version["pdf"] <= server'[session.lecture].version["pdf"]
      BY <3>1, <1>1 DEF Rows, RowForward, Sections
    <3> QED
      BY <3>1, <3>2
  <2> QED
    BY <2>1, <2>2 DEF DisplaySound
<1>7. RequestsSound'
  <2>1. RequestsSound
    BY DEF SnapshotInv
  <2>2. ASSUME NEW r \in Requests
        PROVE  RequestSound(requests[r])'
    <3>1. PICK q : q = requests[r]
      OBVIOUS
    <3>2. RequestSound(q)
      BY <2>1, <3>1 DEF RequestsSound
    <3>3. ASSUME Asks(q)
          PROVE  IF Terminal(q) THEN ~Open(q.lecture)'
                 ELSE SnapSound(q.snapshot, server'[q.lecture], q.lecture)
      <4>1. q.lecture \in Lectures
        BY <3>2, <3>3 DEF RequestSound, Asks
      <4>2. CASE Terminal(q)
        BY <4>1, <4>2, <3>2, <3>3, <1>2 DEF RequestSound
      <4>3. CASE ~Terminal(q)
        BY <4>1, <4>3, <3>2, <3>3, <1>1, SnapForward DEF RequestSound
      <4> QED
        BY <4>2, <4>3
    <3>4. (q \in RequestRows) /\ (q.awaits # {} \/ q.current => q.busy) /\ (q.busy => q.lecture \in Lectures)
      BY <3>2 DEF RequestSound
    <3>5. RequestSound(q)'
      BY <3>3, <3>4 DEF RequestSound, Open
    <3> QED
      BY <3>1, <3>5
  <2>3. ASSUME NEW r \in Requests
        PROVE  CurrentSound(requests[r])'
    <3>1. PICK q : q = requests[r]
      OBVIOUS
    <3>2. CurrentSound(q)
      BY <2>1, <3>1 DEF RequestsSound
    <3>3. ASSUME session.status = "closed"
          PROVE  \A s \in {"lecture", "pdf"} :
                    server'[session.lecture].version[s] = server[session.lecture].version[s]
      <4>1. session.lecture \in Lectures /\ ~Open(session.lecture)
        BY <3>3 DEF SnapshotInv, SceneSound, Sessions, NoSession
      <4> QED
        BY <4>1, <1>2
    <3>4. CurrentSound(q)'
      BY <3>2, <3>3 DEF CurrentSound
    <3> QED
      BY <3>1, <3>4
  <2> QED
    BY <2>1, <2>2, <2>3 DEF RequestsSound
<1>8. SentSound'
  BY DEF SnapshotInv, SentSound
<1> QED
  BY <1>1, <1>3, <1>5, <1>6, <1>7, <1>8

\* ... and the invariant.
LEMMA OthersKeep ==
    ASSUME SnapshotInv, OthersAct
    PROVE  SnapshotInv'
<1>1. ServerForward /\ UNCHANGED <<scene, fence, shown>> /\ UNCHANGED ops
  BY OthersForward DEF OthersAct
<1>2. OpsSound' /\ ContentSound'
  BY <1>1 DEF SnapshotInv, OpsSound, ContentSound, Begun, Spent, scene, shown
<1> QED
  BY <1>1, <1>2, ForwardKeeps DEF SnapshotInv

-----------------------------------------------------------------------------
(* Requests: sent, answered, failed.                                          *)

\* What a request carries is judged by the database alone, ...
LEMMA SameRequest ==
    ASSUME UNCHANGED server, NEW q, RequestSound(q)
    PROVE  RequestSound(q)'
BY DEF RequestSound, Open

\* ... and whether it may still be applied, by the scene, the fence and the slide.
LEMMA SameCurrent ==
    ASSUME UNCHANGED <<server, session, applied, display>>, NEW q, CurrentSound(q)
    PROVE  CurrentSound(q)'
BY DEF CurrentSound

\* Only the requests change, to sound ones.
LEMMA RequestsChange ==
    ASSUME SnapshotInv, UNCHANGED <<server, scene, known, applied, shown, ops>>,
           requests' \in [Requests -> RequestRows],
           \A r \in Requests : RequestSound(requests'[r]) /\ CurrentSound(requests'[r]),
           SentSound'
    PROVE  SnapshotInv'
<1> USE DEF scene, shown
<1>1. ASSUME NEW r \in Requests
      PROVE  RequestSound(requests[r])' /\ CurrentSound(requests[r])'
  <2>1. PICK q : q = requests'[r]
    OBVIOUS
  <2>2. RequestSound(q) /\ CurrentSound(q)
    BY <2>1
  <2>3. RequestSound(q)' /\ CurrentSound(q)'
    BY <2>2, SameRequest, SameCurrent
  <2> QED
    BY <2>1, <2>3
<1>2. RequestsSound'
  BY <1>1 DEF RequestsSound
<1>3. SceneSound' /\ FenceSound' /\ DisplaySound'
  BY DEF SnapshotInv, SceneSound, FenceSound, DisplaySound, Open
<1>4. OpsSound' /\ ContentSound'
  BY DEF SnapshotInv, OpsSound, ContentSound, Begun, Spent
<1>5. server' \in [Lectures -> Rows] /\ \A l \in Lectures : RowSound(server'[l], l)
  BY DEF SnapshotInv
<1> QED
  BY <1>2, <1>3, <1>4, <1>5 DEF SnapshotInv

\* One request changes, to a sound one.
LEMMA OneRequest ==
    ASSUME SnapshotInv, UNCHANGED <<server, scene, known, applied, shown, ops>>,
           NEW r \in Requests, NEW q, requests' = [requests EXCEPT ![r] = q],
           RequestSound(q), CurrentSound(q), SentSound'
    PROVE  SnapshotInv'
<1>1. requests \in [Requests -> RequestRows]
      /\ \A x \in Requests : RequestSound(requests[x]) /\ CurrentSound(requests[x])
  BY DEF SnapshotInv, RequestsSound
<1>2. q \in RequestRows
  BY DEF RequestSound
<1>3. requests' \in [Requests -> RequestRows]
  BY <1>1, <1>2
<1>4. \A x \in Requests : requests'[x] = q \/ requests'[x] = requests[x]
  BY <1>1
<1>5. \A x \in Requests : RequestSound(requests'[x]) /\ CurrentSound(requests'[x])
  BY <1>1, <1>4
<1> QED
  BY <1>3, <1>5, RequestsChange

\* A request leaves with versions the fence applied, and without an answer.
LEMMA AskSound ==
    ASSUME SnapshotInv, session # NoSession, NEW forced, NEW all \in BOOLEAN,
           NEW q, q = Ask(forced, all)
    PROVE  RequestSound(q) /\ CurrentSound(q) /\ q.busy
<1>1. session.lecture \in Lectures
  BY DEF SnapshotInv, SceneSound, Sessions
<1>2. known \in [Sections -> Int] /\ applied \in [Sections -> Int]
      /\ \A s \in Sections : NoVersion <= known[s] /\ known[s] <= applied[s]
  BY DEF SnapshotInv, FenceSound
<1>3. PICK k : k = [s \in Sections |-> IF s \in forced THEN NoVersion ELSE known[s]]
  OBVIOUS
<1>4. k \in [Sections -> Int] /\ \A s \in Sections : k[s] <= applied[s]
  BY <1>2, <1>3 DEF NoVersion
<1>5. PICK a : a = {"snapshot"} \cup (IF all THEN {"participant"} ELSE {})
  OBVIOUS
<1>6. a \in SUBSET {"snapshot", "participant"} /\ "snapshot" \in a
  BY <1>5
<1>7. q = [busy |-> TRUE, lecture |-> session.lecture, current |-> TRUE, late |-> FALSE,
           all |-> all, awaits |-> a, known |-> k, snapshot |-> Unserved, participant |-> {}]
  BY <1>3, <1>5 DEF Ask
<1>8. q \in RequestRows /\ q.busy /\ q.lecture = session.lecture /\ q.awaits = a /\ q.known = k
  BY <1>1, <1>4, <1>6, <1>7 DEF RequestRows
<1>9. ~Asks(q)
  BY <1>6, <1>8 DEF Asks
<1>10. RequestSound(q)
  BY <1>1, <1>8, <1>9 DEF RequestSound
<1>11. CurrentSound(q)
  BY <1>4, <1>8, <1>9 DEF CurrentSound
<1> QED
  BY <1>8, <1>10, <1>11

\* A request that leaves is the last of its fence.
LEMMA IssueKeeps ==
    ASSUME SnapshotInv, UNCHANGED <<server, scene, known, applied, shown, ops>>,
           session # NoSession, NEW r \in Requests, NEW forced, NEW all \in BOOLEAN,
           Issue(r, forced, all), loop' \in {loop, r}
    PROVE  SnapshotInv'
<1>1. PICK q : q = Ask(forced, all)
  OBVIOUS
<1>2. RequestSound(q) /\ CurrentSound(q) /\ q.busy
  BY <1>1, AskSound
<1>3. /\ ~requests[r].busy /\ requests' = [requests EXCEPT ![r] = q]
      /\ sent' = Append(sent, r) /\ inFlight' = r
  BY <1>1 DEF Issue
<1>4. SentSound /\ requests \in [Requests -> RequestRows]
  BY DEF SnapshotInv, RequestsSound
<1>5. sent \in Seq(Requests) /\ (\A i \in DOMAIN sent : requests[sent[i]].busy)
      /\ (\A i, j \in DOMAIN sent : sent[i] = sent[j] => i = j)
  BY <1>4 DEF SentSound
<1>6. /\ sent' \in Seq(Requests) /\ DOMAIN sent = 1..Len(sent) /\ Len(sent) \in Nat
      /\ DOMAIN sent' = 1..(Len(sent) + 1) /\ sent'[Len(sent) + 1] = r
      /\ \A i \in DOMAIN sent : sent'[i] = sent[i]
  BY <1>3, <1>5, AppendProperties
<1>7. \A i \in DOMAIN sent : sent[i] # r
  BY <1>3, <1>5
<1>8. \A i \in DOMAIN sent' : i \in DOMAIN sent \/ i = Len(sent) + 1
  BY <1>6
<1>9. \A x \in Requests : x # r => requests'[x] = requests[x]
  BY <1>3
<1>10. requests'[r].busy
  BY <1>2, <1>3, <1>4
<1>11. \A i \in DOMAIN sent : sent[i] \in Requests
  BY <1>5
<1>12. \A i \in DOMAIN sent' : requests'[sent'[i]].busy
  BY <1>5, <1>6, <1>7, <1>8, <1>9, <1>10, <1>11
<1>13. \A i, j \in DOMAIN sent' : sent'[i] = sent'[j] => i = j
  BY <1>5, <1>6, <1>7, <1>8
<1>14. SentSound'
  BY <1>3, <1>4, <1>6, <1>12, <1>13 DEF SentSound
<1> QED
  BY <1>2, <1>3, <1>14, OneRequest

\* The loop awaits what is in flight, or asks.
LEMMA PollKeeps ==
    ASSUME SnapshotInv, Poll
    PROVE  SnapshotInv'
<1>1. UNCHANGED <<server, scene, known, applied, shown, ops>> /\ session # NoSession
  BY DEF Poll, CanRunLiveSync, NoSession
<1>2. CASE inFlight # NoRequest
  <2>1. UNCHANGED <<requests, sent, inFlight>> /\ loop' = inFlight
    BY <1>2 DEF Poll
  <2>2. requests' \in [Requests -> RequestRows]
        /\ \A r \in Requests : RequestSound(requests'[r]) /\ CurrentSound(requests'[r])
    BY <2>1 DEF SnapshotInv, RequestsSound
  <2>3. SentSound'
    BY <2>1 DEF SnapshotInv, SentSound
  <2> QED
    BY <1>1, <2>2, <2>3, RequestsChange
<1>3. CASE inFlight = NoRequest
  <2>1. PICK r \in Requests : Issue(r, {}, FALSE) /\ loop' = r
    BY <1>3 DEF Poll
  <2> QED
    BY <1>1, <2>1, IssueKeeps
<1> QED
  BY <1>2, <1>3

\* A forced refresh asks with versions left out.
LEMMA ForcedRefreshKeeps ==
    ASSUME SnapshotInv, ForcedRefresh
    PROVE  SnapshotInv'
<1>1. UNCHANGED <<server, scene, known, applied, shown, ops>> /\ session # NoSession
      /\ loop' = loop
  BY DEF ForcedRefresh
<1>2. PICK r \in Requests :
          \/ Issue(r, {"comments", "likes"}, FALSE)
          \/ CanRunLiveSync /\ Issue(r, Sections, TRUE)
  BY DEF ForcedRefresh
<1>3. CASE Issue(r, {"comments", "likes"}, FALSE)
  BY <1>1, <1>3, IssueKeeps
<1>4. CASE Issue(r, Sections, TRUE)
  BY <1>1, <1>4, IssueKeeps
<1> QED
  BY <1>2, <1>3, <1>4

\* A row is a snapshot of itself.
LEMMA RowIsSnap ==
    ASSUME NEW l \in Lectures, NEW row, RowSound(row, l)
    PROVE  SnapSound(row, row, l) /\ row \in Rows
<1>1. row \in Rows /\ \A c \in CommentIds : row.likes[c] <= MaxComment
  BY VersionBound
<1>2. \A s \in Sections : row.version[s] \in Nat
  BY <1>1 DEF Rows
<1> QED
  BY <1>1, <1>2 DEF SnapSound, RowSound

\* A snapshot just served shows no older slide than the browser does.
LEMMA ServedIsCurrent ==
    ASSUME SnapshotInv, session # NoSession
    PROVE  /\ server[session.lecture].version["pdf"] \in Nat
           /\ server[session.lecture].version["pdf"] >= display.version
<1>1. session.lecture \in Lectures
  BY DEF SnapshotInv, SceneSound, Sessions
<1>2. server[session.lecture].version["pdf"] \in Nat
  BY <1>1 DEF SnapshotInv, Rows, Sections
<1>3. CASE display = NoDisplay
  BY <1>2, <1>3 DEF NoDisplay, NoVersion
<1>4. CASE display # NoDisplay
  BY <1>2, <1>4 DEF SnapshotInv, DisplaySound
<1> QED
  BY <1>2, <1>3, <1>4

\* A request that awaits something is travelling, for a lecture.
LEMMA AwaitingIsBusy ==
    ASSUME SnapshotInv, NEW r \in Requests, NEW q, q = requests[r], q.awaits # {}
    PROVE  /\ q \in RequestRows /\ q.busy /\ q.lecture \in Lectures
           /\ RequestSound(q) /\ CurrentSound(q)
           /\ server[q.lecture] \in Rows /\ RowSound(server[q.lecture], q.lecture)
<1>1. RequestSound(q) /\ CurrentSound(q)
  BY DEF SnapshotInv, RequestsSound
<1>2. q \in RequestRows /\ q.busy /\ q.lecture \in Lectures
  BY <1>1 DEF RequestSound
<1> QED
  BY <1>1, <1>2 DEF SnapshotInv

\* An answer changes no place in the order.
LEMMA SentStays ==
    ASSUME SnapshotInv, UNCHANGED <<sent, inFlight, loop>>, NEW r \in Requests, NEW q,
           requests' = [requests EXCEPT ![r] = q], q.busy
    PROVE  SentSound'
<1>1. SentSound /\ requests \in [Requests -> RequestRows]
  BY DEF SnapshotInv, RequestsSound
<1>2. \A x \in Requests : requests'[x].busy = requests[x].busy \/ requests'[x].busy
  BY <1>1
<1>3. sent \in Seq(Requests) /\ \A i \in DOMAIN sent : sent[i] \in Requests
  BY <1>1 DEF SentSound
<1> QED
  BY <1>1, <1>2, <1>3 DEF SentSound

\* The snapshot served is the row as it is.
LEMMA ServedSound ==
    ASSUME SnapshotInv, NEW r \in Requests, NEW q, q = requests[r], q.awaits # {},
           NEW row, row = server[q.lecture], NEW a \in SUBSET {"snapshot", "participant"},
           NEW n, n = [q EXCEPT !.awaits = a, !.snapshot = row]
    PROVE  RequestSound(n) /\ CurrentSound(n) /\ n.busy
<1>1. /\ q \in RequestRows /\ q.busy /\ q.lecture \in Lectures
      /\ RequestSound(q) /\ CurrentSound(q)
      /\ row \in Rows /\ RowSound(row, q.lecture)
  BY AwaitingIsBusy
<1>2. PICK m : m = [q EXCEPT !.awaits = a]
  OBVIOUS
<1>3. m \in RequestRows /\ m.busy /\ m.lecture = q.lecture /\ m.current = q.current
      /\ m.known = q.known
  BY <1>1, <1>2 DEF RequestRows
<1>4. n = [m EXCEPT !.snapshot = row]
  BY <1>1, <1>2 DEF RequestRows
<1>5. n \in RequestRows /\ n.busy /\ n.lecture = q.lecture /\ n.current = q.current
      /\ n.known = q.known /\ n.snapshot = row
  BY <1>1, <1>3, <1>4 DEF RequestRows
<1>6. ~Terminal(n) /\ SnapSound(row, row, q.lecture)
  BY <1>1, <1>5, RowIsServed, RowIsSnap DEF Terminal
<1>7. RequestSound(n)
  BY <1>1, <1>5, <1>6 DEF RequestSound
<1>8. CurrentSound(n)
  <2>1. ASSUME n.current
        PROVE  /\ session # NoSession /\ n.lecture = session.lecture
               /\ \A s \in Sections : n.known[s] <= applied[s]
               /\ n.snapshot.version["pdf"] >= display.version
               /\ n.snapshot.version = server[session.lecture].version
    <3>1. session # NoSession /\ q.lecture = session.lecture
          /\ \A s \in Sections : q.known[s] <= applied[s]
      BY <2>1, <1>1, <1>5 DEF CurrentSound
    <3>2. row.version["pdf"] >= display.version
      BY <3>1, ServedIsCurrent
    <3> QED
      BY <3>1, <3>2, <1>5
  <2> QED
    BY <2>1 DEF CurrentSound
<1> QED
  BY <1>5, <1>7, <1>8

\* An answer is what the lecture is now, or that it is closed.
LEMMA AnswerSnapshotKeeps ==
    ASSUME SnapshotInv, NEW r \in Requests, AnswerSnapshot(r)
    PROVE  SnapshotInv'
<1>1. PICK q : q = requests[r]
  OBVIOUS
<1>2. UNCHANGED <<server, scene, known, applied, sent, inFlight, loop, shown, ops>>
      /\ "snapshot" \in q.awaits
  BY <1>1 DEF AnswerSnapshot
<1>3. /\ q \in RequestRows /\ q.busy /\ q.lecture \in Lectures
      /\ RequestSound(q) /\ CurrentSound(q)
  BY <1>1, <1>2, AwaitingIsBusy
<1>4. requests \in [Requests -> RequestRows]
  BY DEF SnapshotInv, RequestsSound
<1>5. PICK row : row = server[q.lecture]
  OBVIOUS
<1>6. CASE requests' = [requests EXCEPT ![r].awaits = @ \ {"snapshot"}, ![r].snapshot = row]
  <2>1. PICK a : a = q.awaits \ {"snapshot"}
    OBVIOUS
  <2>2. a \in SUBSET {"snapshot", "participant"}
    BY <2>1, <1>3 DEF RequestRows
  <2>3. PICK n : n = [q EXCEPT !.awaits = a, !.snapshot = row]
    OBVIOUS
  <2>4. RequestSound(n) /\ CurrentSound(n) /\ n.busy
    BY <1>1, <1>2, <1>5, <2>2, <2>3, ServedSound
  <2>5. requests' = [requests EXCEPT ![r] = n]
    BY <1>1, <1>3, <1>4, <1>6, <2>1, <2>3 DEF RequestRows
  <2>6. SentSound'
    BY <1>2, <2>4, <2>5, SentStays
  <2> QED
    BY <1>2, <2>4, <2>5, <2>6, OneRequest
<1>7. CASE ~Open(q.lecture)
           /\ requests' = [requests EXCEPT ![r].awaits = {}, ![r].snapshot = Unserved]
  <2>1. PICK m : m = [q EXCEPT !.awaits = {}]
    OBVIOUS
  <2>2. m \in RequestRows /\ m.busy /\ m.lecture = q.lecture /\ m.current = q.current
        /\ m.known = q.known
    BY <1>3, <2>1 DEF RequestRows
  <2>3. PICK n : n = [m EXCEPT !.snapshot = Unserved]
    OBVIOUS
  <2>4. n \in RequestRows /\ n.busy /\ n.lecture = q.lecture /\ n.current = q.current
        /\ n.known = q.known /\ n.snapshot = Unserved
    BY <2>2, <2>3 DEF RequestRows
  <2>5. RequestSound(n)
    BY <1>3, <1>7, <2>4 DEF RequestSound, Terminal
  <2>6. CurrentSound(n)
    BY <1>3, <2>4 DEF CurrentSound, Terminal
  <2>7. requests' = [requests EXCEPT ![r] = n]
    BY <1>1, <1>3, <1>4, <1>7, <2>1, <2>3 DEF RequestRows
  <2>8. SentSound'
    BY <1>2, <2>4, <2>7, SentStays
  <2> QED
    BY <1>2, <2>5, <2>6, <2>7, <2>8, OneRequest
<1> QED
  BY <1>1, <1>5, <1>6, <1>7 DEF AnswerSnapshot

\* The other answer is what the student has liked by now.
LEMMA AnswerParticipantKeeps ==
    ASSUME SnapshotInv, NEW r \in Requests, AnswerParticipant(r)
    PROVE  SnapshotInv'
<1>1. PICK q : q = requests[r]
  OBVIOUS
<1>2. UNCHANGED <<server, scene, known, applied, sent, inFlight, loop, shown, ops>>
      /\ "participant" \in q.awaits
  BY <1>1 DEF AnswerParticipant
<1>3. /\ q \in RequestRows /\ q.busy /\ q.lecture \in Lectures
      /\ RequestSound(q) /\ CurrentSound(q) /\ server[q.lecture] \in Rows
  BY <1>1, <1>2, AwaitingIsBusy
<1>4. requests \in [Requests -> RequestRows]
  BY DEF SnapshotInv, RequestsSound
<1>5. PICK mine : mine = server[q.lecture].mine
  OBVIOUS
<1>6. PICK m : m = [q EXCEPT !.awaits = q.awaits \ {"participant"}]
  OBVIOUS
<1>7. m \in RequestRows /\ m.busy /\ m.lecture = q.lecture /\ m.current = q.current
      /\ m.known = q.known /\ m.snapshot = q.snapshot /\ m.awaits = q.awaits \ {"participant"}
  BY <1>3, <1>6 DEF RequestRows
<1>8. PICK n : n = [m EXCEPT !.participant = mine]
  OBVIOUS
<1>9. mine \in SUBSET CommentIds
  BY <1>3, <1>5 DEF Rows
<1>10. n \in RequestRows /\ n.busy /\ n.lecture = q.lecture /\ n.current = q.current
      /\ n.known = q.known /\ n.snapshot = q.snapshot /\ n.awaits = q.awaits \ {"participant"}
  BY <1>7, <1>8, <1>9 DEF RequestRows
<1>11. Asks(n) = Asks(q) /\ Terminal(n) = Terminal(q)
  BY <1>3, <1>10 DEF Asks, Terminal
<1>12. RequestSound(n)
  BY <1>3, <1>10, <1>11 DEF RequestSound
<1>13. CurrentSound(n)
  BY <1>3, <1>10, <1>11 DEF CurrentSound
<1>14. requests' = [requests EXCEPT ![r] = n]
  BY <1>1, <1>3, <1>4, <1>5, <1>6, <1>8 DEF RequestRows, AnswerParticipant
<1>15. SentSound'
  BY <1>2, <1>10, <1>14, SentStays
<1> QED
  BY <1>2, <1>12, <1>13, <1>14, <1>15, OneRequest

\* The order of the fence without one request: the others, each once.
LEMMA WithoutProperties ==
    ASSUME NEW S, NEW s \in Seq(S), NEW r,
           \A i, j \in DOMAIN s : s[i] = s[j] => i = j
    PROVE  /\ Without(s, r) \in Seq(S)
           /\ \A i \in DOMAIN Without(s, r) :
                 Without(s, r)[i] # r /\ \E j \in DOMAIN s : s[j] = Without(s, r)[i]
           /\ \A i, j \in DOMAIN Without(s, r) : Without(s, r)[i] = Without(s, r)[j] => i = j
<1>1. CASE r \notin ToSet(s)
  BY <1>1 DEF Without, ToSet
<1>2. CASE r \in ToSet(s)
  <2>1. PICK k : k = CHOOSE i \in DOMAIN s : s[i] = r
    OBVIOUS
  <2>2. k \in DOMAIN s /\ s[k] = r
    BY <1>2, <2>1 DEF ToSet
  <2>3. DOMAIN s = 1..Len(s) /\ Len(s) \in Nat /\ k \in 1..Len(s)
    BY <2>2
  <2>4. PICK a : a = SubSeq(s, 1, k - 1)
    OBVIOUS
  <2>5. PICK b : b = SubSeq(s, k + 1, Len(s))
    OBVIOUS
  <2>6. a \in Seq(S) /\ Len(a) = k - 1 /\ \A i \in 1..(k - 1) : a[i] = s[i]
    BY <2>3, <2>4, SubSeqProperties
  <2>7. b \in Seq(S) /\ Len(b) = Len(s) - k /\ \A i \in 1..(Len(s) - k) : b[i] = s[k + i]
    <3>1. k + 1 \in Int /\ Len(s) \in Int /\ \A i \in (k + 1)..Len(s) : s[i] \in S
      BY <2>3
    <3>2. /\ b \in Seq(S) /\ Len(b) = IF k + 1 <= Len(s) THEN Len(s) - (k + 1) + 1 ELSE 0
          /\ \A i \in 1..(Len(s) - (k + 1) + 1) : b[i] = s[(k + 1) + i - 1]
      BY <3>1, <2>5, SubSeqProperties
    <3>5. PICK n \in Nat : n = Len(s)
      BY <2>3
    <3>6. k \in Nat /\ k <= n
      BY <2>3, <3>5
    <3>7. n - (k + 1) + 1 = n - k /\ (k + 1 <= n \/ n - k = 0)
      BY <3>6
    <3>3. Len(b) = Len(s) - k /\ Len(s) - (k + 1) + 1 = Len(s) - k
      BY <3>2, <3>5, <3>7
    <3>4. \A i \in 1..(Len(s) - k) : (k + 1) + i - 1 = k + i
      BY <2>3
    <3> QED
      BY <3>2, <3>3, <3>4
  <2>8. PICK w : w = a \o b
    OBVIOUS
  <2>9. w = Without(s, r)
    <3>1. Without(s, r) = RemoveAt(s, k)
      BY <1>2, <2>1 DEF Without
    <3>2. RemoveAt(s, k) = a \o b
      BY <2>4, <2>5 DEF RemoveAt
    <3> QED
      BY <3>1, <3>2, <2>8
  <2>10. w \in Seq(S) /\ Len(w) = Len(s) - 1
    <3>1. w \in Seq(S) /\ Len(w) = Len(a) + Len(b)
      BY <2>6, <2>7, <2>8, ConcatProperties
    <3> QED
      BY <3>1, <2>3, <2>6, <2>7
  <2>11. \A i \in 1..(Len(s) - 1) : w[i] = IF i < k THEN s[i] ELSE s[i + 1]
    BY <2>3, <2>6, <2>7, <2>8, ConcatProperties
  <2>12. DOMAIN w = 1..(Len(s) - 1)
    BY <2>10, <2>3
  <2>13. ASSUME NEW i \in DOMAIN w
         PROVE  w[i] # r /\ \E j \in DOMAIN s : s[j] = w[i]
    <3>1. CASE i < k
      BY <3>1, <2>2, <2>3, <2>11, <2>12
    <3>2. CASE ~(i < k)
      BY <3>2, <2>2, <2>3, <2>11, <2>12
    <3> QED
      BY <3>1, <3>2
  <2>14. ASSUME NEW i \in DOMAIN w, NEW j \in DOMAIN w, w[i] = w[j]
         PROVE  i = j
    <3>1. i \in 1..(Len(s) - 1) /\ j \in 1..(Len(s) - 1)
      BY <2>12
    <3>2. PICK i1 \in DOMAIN s : w[i] = s[i1] /\ i1 = IF i < k THEN i ELSE i + 1
      BY <3>1, <2>3, <2>11
    <3>3. PICK j1 \in DOMAIN s : w[j] = s[j1] /\ j1 = IF j < k THEN j ELSE j + 1
      BY <3>1, <2>3, <2>11
    <3>4. i1 = j1
      BY <2>14, <3>2, <3>3
    <3> QED
      BY <3>1, <3>2, <3>3, <3>4, <2>3
  <2> QED
    BY <2>9, <2>10, <2>13, <2>14
<1> QED
  BY <1>1, <1>2

\* A promise that ended leaves the order and the references of the fence.
LEMMA EndedSent ==
    ASSUME SnapshotInv, NEW r \in Requests,
           sent' = Without(sent, r), inFlight' = Released(inFlight, r), loop' = Released(loop, r),
           \A x \in Requests : x # r => requests'[x].busy = requests[x].busy
    PROVE  SentSound'
<1>1. SentSound
  BY DEF SnapshotInv
<1>2. sent \in Seq(Requests) /\ (\A i \in DOMAIN sent : requests[sent[i]].busy)
      /\ (\A i, j \in DOMAIN sent : sent[i] = sent[j] => i = j)
  BY <1>1 DEF SentSound
<1>3. /\ sent' \in Seq(Requests)
      /\ \A i \in DOMAIN sent' : sent'[i] # r /\ \E j \in DOMAIN sent : sent[j] = sent'[i]
      /\ \A i, j \in DOMAIN sent' : sent'[i] = sent'[j] => i = j
  BY <1>2, WithoutProperties
<1>4. ASSUME NEW i \in DOMAIN sent'
      PROVE  requests'[sent'[i]].busy
  <2>1. sent'[i] \in Requests /\ sent'[i] # r
    BY <1>3
  <2>2. requests[sent'[i]].busy
    BY <1>2, <1>3
  <2> QED
    BY <2>1, <2>2
<1>5. inFlight' \in Requests \cup {NoRequest} /\ loop' \in Requests \cup {NoRequest}
  BY <1>1 DEF SentSound, Released
<1> QED
  BY <1>3, <1>4, <1>5 DEF SentSound

\* A free slot carries nothing.
LEMMA FreeSound == RequestSound(Free) /\ CurrentSound(Free) /\ Free \in RequestRows
<1>1. Free \in RequestRows
  <2>1. NullVersions \in [Sections -> Int]
    BY DEF NullVersions, NoVersion
  <2> QED
    BY <2>1 DEF Free, RequestRows
<1> QED
  BY <1>1 DEF RequestSound, CurrentSound, Free, Asks

\* The end of a promise that nothing is applied of.
LEMMA EndKeeps ==
    ASSUME SnapshotInv, UNCHANGED <<server, scene, known, applied, shown, ops>>,
           NEW r \in Requests, requests' = [requests EXCEPT ![r] = Free],
           sent' = Without(sent, r), inFlight' = Released(inFlight, r), loop' = Released(loop, r)
    PROVE  SnapshotInv'
<1>1. \A x \in Requests : x # r => requests'[x].busy = requests[x].busy
  BY DEF SnapshotInv, RequestsSound
<1>2. SentSound'
  BY <1>1, EndedSent
<1> QED
  BY <1>2, FreeSound, OneRequest

\* A request that fails frees its slot.
LEMMA FailKeeps ==
    ASSUME SnapshotInv, NEW r \in Requests, Fail(r)
    PROVE  SnapshotInv'
BY EndKeeps DEF Fail

\* A response of an older epoch only frees its slot.
LEMMA StaleDeliverKeeps ==
    ASSUME SnapshotInv, NEW r \in Requests, Deliver(r), ~requests[r].current
    PROVE  SnapshotInv'
<1>1. UNCHANGED <<server, scene, known, applied, shown, ops>>
      /\ requests' = [requests EXCEPT ![r] = Free]
  BY DEF Deliver, Current
<1>2. sent' = Without(sent, r) /\ inFlight' = Released(inFlight, r) /\ loop' = Released(loop, r)
  BY DEF Deliver
<1> QED
  BY <1>1, <1>2, EndKeeps

-----------------------------------------------------------------------------
(* Joining, leaving, navigating, and the effects that follow.                 *)

\* A new epoch: what travels may no longer be applied.
LEMMA StalePool ==
    ASSUME NEW old \in [Requests -> RequestRows], \A r \in Requests : RequestSound(old[r]),
           NEW pool, pool = Stale(old)
    PROVE  /\ pool \in [Requests -> RequestRows]
           /\ \A r \in Requests : RequestSound(pool[r]) /\ CurrentSound(pool[r])
                                  /\ pool[r].busy = old[r].busy /\ ~pool[r].current
<1>2. pool = [r \in Requests |-> [old[r] EXCEPT !.current = FALSE]]
  BY DEF Stale
<1>3. ASSUME NEW r \in Requests
      PROVE  /\ pool[r] \in RequestRows /\ RequestSound(pool[r]) /\ CurrentSound(pool[r])
             /\ pool[r].busy = old[r].busy /\ ~pool[r].current
  <2>1. PICK q : q = old[r]
    OBVIOUS
  <2>2. q \in RequestRows /\ RequestSound(q)
    BY <2>1
  <2>3. PICK n : n = [q EXCEPT !.current = FALSE]
    OBVIOUS
  <2>4. n \in RequestRows /\ n.busy = q.busy /\ n.lecture = q.lecture /\ n.current = FALSE
        /\ n.known = q.known /\ n.snapshot = q.snapshot /\ n.awaits = q.awaits
    BY <2>2, <2>3 DEF RequestRows
  <2>5. Asks(n) = Asks(q) /\ Terminal(n) = Terminal(q)
    BY <2>2, <2>4 DEF Asks, Terminal
  <2>6. RequestSound(n)
    BY <2>2, <2>4, <2>5 DEF RequestSound
  <2>7. CurrentSound(n)
    BY <2>4 DEF CurrentSound
  <2> QED
    BY <1>2, <2>1, <2>3, <2>4, <2>6, <2>7
<1> QED
  BY <1>2, <1>3

\* The requests travelling are of an older epoch after a new one begins.
LEMMA StaleRequests ==
    ASSUME SnapshotInv, NEW pool, pool = Stale(requests)
    PROVE  /\ pool \in [Requests -> RequestRows]
           /\ \A r \in Requests : RequestSound(pool[r]) /\ CurrentSound(pool[r])
                                  /\ pool[r].busy = requests[r].busy /\ ~pool[r].current
<1>1. PICK old \in [Requests -> RequestRows] : old = requests /\ \A r \in Requests : RequestSound(old[r])
  BY DEF SnapshotInv, RequestsSound
<1> QED
  BY <1>1, StalePool

\* The student's own work of an older epoch goes on, but is not current.
LEMMA StaleOps ==
    ASSUME SnapshotInv, NEW pool, pool = Stale(ops)
    PROVE  /\ pool \in [Ops -> OpRows]
           /\ \A o \in Ops : /\ pool[o].phase = ops[o].phase /\ pool[o].lecture = ops[o].lecture
                             /\ pool[o].comment = ops[o].comment /\ ~pool[o].current
<1>1. ops \in [Ops -> OpRows]
  BY DEF SnapshotInv, OpsSound
<1>2. pool = [o \in Ops |-> [ops[o] EXCEPT !.current = FALSE]]
  BY <1>1 DEF Stale
<1>3. ASSUME NEW o \in Ops
      PROVE  /\ pool[o] \in OpRows
             /\ pool[o].phase = ops[o].phase /\ pool[o].lecture = ops[o].lecture
             /\ pool[o].comment = ops[o].comment /\ ~pool[o].current
  <2>1. PICK n : n = [ops[o] EXCEPT !.current = FALSE]
    OBVIOUS
  <2>2. ops[o] \in OpRows
    BY <1>1
  <2>3. n \in OpRows /\ n.phase = ops[o].phase /\ n.lecture = ops[o].lecture
        /\ n.comment = ops[o].comment /\ n.current = FALSE
    BY <2>1, <2>2 DEF OpRows
  <2> QED
    BY <1>2, <2>1, <2>3
<1> QED
  BY <1>2, <1>3

\* ... and what is under way stays as sound.
LEMMA StaleOpsSound ==
    ASSUME SnapshotInv, ops' = Stale(ops)
    PROVE  OpsSound' /\ Begun' = Begun /\ Spent' = Spent
<1>1. PICK pool : pool = Stale(ops)
  OBVIOUS
<1>2. /\ pool \in [Ops -> OpRows]
      /\ \A o \in Ops : /\ pool[o].phase = ops[o].phase /\ pool[o].lecture = ops[o].lecture
                        /\ pool[o].comment = ops[o].comment /\ ~pool[o].current
  BY <1>1, StaleOps
<1>3. ops' = pool
  BY <1>1
<1>4. \A p \in Posts : p \in Ops /\ \A k \in Likes : k \in Ops
  BY DEF Ops
<1>5. OpsSound
  BY DEF SnapshotInv
<1>6. OpsSound'
  BY <1>2, <1>3, <1>5 DEF OpsSound, Ops
<1>7. Begun' = Begun /\ Spent' = Spent
  BY <1>2, <1>3 DEF Begun, Spent, Ops
<1> QED
  BY <1>6, <1>7

\* The requests of an older epoch, no fence and nothing known of the lecture: sound, whatever
\* the scene has become.
LEMMA StaleRequestsSound ==
    ASSUME SnapshotInv, UNCHANGED server, requests' = Stale(requests), sent' = <<>>,
           inFlight' = NoRequest, loop' \in {loop, NoRequest}
    PROVE  RequestsSound' /\ SentSound'
<1>1. PICK pool : pool = Stale(requests)
  OBVIOUS
<1>2. /\ pool \in [Requests -> RequestRows]
      /\ \A r \in Requests : RequestSound(pool[r]) /\ ~pool[r].current
  BY <1>1, StaleRequests
<1>3. ASSUME NEW r \in Requests
      PROVE  RequestSound(requests[r])' /\ CurrentSound(requests[r])'
  <2>1. PICK q : q = pool[r]
    OBVIOUS
  <2>2. RequestSound(q) /\ ~q.current
    BY <1>2, <2>1
  <2>3. RequestSound(q)' /\ CurrentSound(q)'
    BY <2>2, SameRequest DEF CurrentSound
  <2> QED
    BY <1>1, <2>1, <2>3
<1>4. RequestsSound'
  BY <1>1, <1>2, <1>3 DEF RequestsSound
<1>5. SentSound'
  BY DEF SnapshotInv, SentSound
<1> QED
  BY <1>4, <1>5

\* A new scene without content, with a fence that knows nothing.
LEMMA NewScene ==
    ASSUME SnapshotInv, UNCHANGED server, SceneSound', NoContent, ResetFence,
           requests' = Stale(requests), ops' = Stale(ops), loop' = loop
    PROVE  SnapshotInv'
<1>1. RequestsSound' /\ SentSound'
  BY StaleRequestsSound DEF ResetFence
<1>2. OpsSound' /\ Begun' = Begun /\ Spent' = Spent
  BY StaleOpsSound
<1>3. FenceSound'
  <2>1. known' = NullVersions /\ applied' = NullVersions /\ display' = NoDisplay
    BY DEF NoContent, ResetFence
  <2>2. \A s \in Sections : NullVersions[s] = NoVersion /\ NoVersion \in Int
    BY DEF NullVersions, NoVersion
  <2>3. NullVersions \in [Sections -> Int]
    BY <2>2 DEF NullVersions
  <2>4. ASSUME session' # NoSession
        PROVE  \A s \in Sections : server'[session'.lecture].version[s] \in Nat
    BY <2>4 DEF SceneSound, Sessions, SnapshotInv, Rows
  <2>5. ASSUME session' # NoSession
        PROVE  /\ \A s \in Sections : NullVersions[s] <= server'[session'.lecture].version[s]
               /\ NullVersions["comments"] # server'[session'.lecture].version["comments"]
    BY <2>2, <2>4, <2>5 DEF NoVersion, Sections
  <2>6. NullVersions["pdf"] <= NoDisplay.version
    BY <2>2 DEF NoDisplay, Sections, NoVersion
  <2> QED
    BY <2>1, <2>2, <2>3, <2>5, <2>6 DEF FenceSound, NoVersion
<1>4. DisplaySound'
  BY DEF NoContent, DisplaySound
<1>5. ContentSound'
  BY DEF NoContent, ContentSound, CardsSound, Pending
<1>6. server' \in [Lectures -> Rows] /\ \A l \in Lectures : RowSound(server'[l], l)
  BY DEF SnapshotInv
<1> QED
  BY <1>1, <1>2, <1>3, <1>4, <1>5, <1>6 DEF SnapshotInv

\* selectLectureSession: a new scene, as the lecture is.
LEMMA SelectLectureKeeps ==
    ASSUME SnapshotInv, NEW l \in Lectures, SelectLecture(l)
    PROVE  SnapshotInv'
<1>1. SceneSound'
  <2>1. live \in BOOLEAN /\ awake \in BOOLEAN
    BY DEF SnapshotInv, SceneSound
  <2>2. session' = [lecture |-> l, status |-> IF Open(l) THEN "open" ELSE "closed"]
        /\ effectDue' = TRUE /\ live' = live /\ awake' = awake /\ server' = server /\ archive' = "none"
    BY DEF SelectLecture, NoContent
  <2>3. session' \in Sessions
    BY <2>2 DEF Sessions
  <2>4. session'.status = "closed" => ~Open(session.lecture)'
    BY <2>2 DEF Open
  <2> QED
    BY <2>1, <2>2, <2>3, <2>4 DEF SceneSound
<1>2. UNCHANGED server /\ NoContent /\ ResetFence /\ requests' = Stale(requests)
      /\ ops' = Stale(ops) /\ loop' = loop
  BY DEF SelectLecture
<1> QED
  BY <1>1, <1>2, NewScene

\* clearLectureSessionState: a new scene without a lecture.
LEMMA LeaveLectureKeeps ==
    ASSUME SnapshotInv, LeaveLecture
    PROVE  SnapshotInv'
<1>1. SceneSound'
  BY DEF LeaveLecture, SnapshotInv, SceneSound, NoContent, Sessions, NoSession
<1>2. UNCHANGED server /\ NoContent /\ ResetFence /\ requests' = Stale(requests)
      /\ ops' = Stale(ops) /\ loop' = loop
  BY DEF LeaveLecture
<1> QED
  BY <1>1, <1>2, NewScene

\* Moving between routes leaves the lecture and its fence until the effects run.
LEMMA NavigateKeeps ==
    ASSUME SnapshotInv, Navigate
    PROVE  SnapshotInv'
<1>1. UNCHANGED <<server, session, awake, fence, display, comments, liked, ops>>
      /\ live' = ~live /\ effectDue' = TRUE
      /\ archive' = IF archive = "asked" THEN "none" ELSE archive
  BY DEF Navigate
<1>2. SceneSound'
  BY <1>1 DEF SnapshotInv, SceneSound, Open
<1>3. FenceSound' /\ DisplaySound' /\ SentSound'
  BY <1>1 DEF SnapshotInv, FenceSound, DisplaySound, SentSound, fence
<1>4. RequestsSound'
  <2>1. ASSUME NEW r \in Requests
        PROVE  RequestSound(requests[r])' /\ CurrentSound(requests[r])'
    <3>1. PICK q : q = requests[r]
      OBVIOUS
    <3>2. RequestSound(q) /\ CurrentSound(q)
      BY <3>1 DEF SnapshotInv, RequestsSound
    <3>3. RequestSound(q)' /\ CurrentSound(q)'
      BY <1>1, <3>2, SameRequest, SameCurrent DEF fence
    <3>4. requests'[r] = q
      BY <1>1, <3>1 DEF fence
    <3> QED
      BY <3>3, <3>4
  <2> QED
    BY <2>1, <1>1 DEF SnapshotInv, RequestsSound, fence
<1>5. OpsSound' /\ ContentSound'
  BY <1>1 DEF SnapshotInv, OpsSound, ContentSound, Begun, Spent
<1>6. server' \in [Lectures -> Rows] /\ \A l \in Lectures : RowSound(server'[l], l)
  BY <1>1 DEF SnapshotInv
<1> QED
  BY <1>2, <1>3, <1>4, <1>5, <1>6 DEF SnapshotInv

\* A tab that is hidden or visible again leaves everything else.
LEMMA AwakeKeeps ==
    ASSUME SnapshotInv, awake' \in BOOLEAN,
           UNCHANGED <<server, session, live, effectDue, fence, shown, ops>>
    PROVE  SnapshotInv'
<1>1. UNCHANGED <<server, session, fence, display, comments, liked, archive, ops>>
  BY DEF shown
<1>2. SceneSound'
  BY <1>1 DEF SnapshotInv, SceneSound, Open
<1>3. FenceSound' /\ DisplaySound' /\ SentSound'
  BY <1>1 DEF SnapshotInv, FenceSound, DisplaySound, SentSound, fence
<1>4. RequestsSound'
  <2>1. ASSUME NEW r \in Requests
        PROVE  RequestSound(requests[r])' /\ CurrentSound(requests[r])'
    <3>1. PICK q : q = requests[r]
      OBVIOUS
    <3>2. RequestSound(q) /\ CurrentSound(q)
      BY <3>1 DEF SnapshotInv, RequestsSound
    <3>3. RequestSound(q)' /\ CurrentSound(q)'
      BY <1>1, <3>2, SameRequest, SameCurrent DEF fence
    <3>4. requests'[r] = q
      BY <1>1, <3>1 DEF fence
    <3> QED
      BY <3>3, <3>4
  <2> QED
    BY <2>1, <1>1 DEF SnapshotInv, RequestsSound, fence
<1>5. OpsSound' /\ ContentSound'
  BY <1>1 DEF SnapshotInv, OpsSound, ContentSound, Begun, Spent
<1>6. server' \in [Lectures -> Rows] /\ \A l \in Lectures : RowSound(server'[l], l)
  BY <1>1 DEF SnapshotInv
<1> QED
  BY <1>2, <1>3, <1>4, <1>5, <1>6 DEF SnapshotInv

\* The effects of a route, a session and an archive begin a fence that knows nothing, with
\* at most one request of its own.
LEMMA EffectRequest ==
    ASSUME SnapshotInv, session # NoSession, UNCHANGED <<server, session>>,
           applied' = NullVersions,
           NEW n, n = [Ask(Sections, TRUE) EXCEPT !.known = NullVersions]
    PROVE  RequestSound(n)' /\ CurrentSound(n)' /\ n.busy /\ n \in RequestRows
<1>1. PICK q : q = Ask(Sections, TRUE)
  OBVIOUS
<1>2. RequestSound(q)
  BY <1>1, AskSound
<1>3. q.busy /\ q.lecture = session.lecture /\ "snapshot" \in q.awaits
  BY <1>1 DEF Ask
<1>4. q \in RequestRows
  BY <1>2 DEF RequestSound
<1>5. NullVersions \in [Sections -> Int] /\ \A s \in Sections : NullVersions[s] = NoVersion
  BY DEF NullVersions, NoVersion
<1>6. n \in RequestRows /\ n.busy /\ n.lecture = session.lecture /\ "snapshot" \in n.awaits
      /\ n.known = NullVersions /\ n.awaits = q.awaits /\ n.current = q.current
  BY <1>1, <1>3, <1>4, <1>5 DEF RequestRows
<1>7. ~Asks(n)
  BY <1>6 DEF Asks
<1>8. RequestSound(n)
  BY <1>2, <1>3, <1>6, <1>7 DEF RequestSound
<1>9. RequestSound(n)'
  BY <1>8, SameRequest
<1>10. CurrentSound(n)'
  <2>1. \A s \in Sections : n.known[s] <= NullVersions[s]
    BY <1>5, <1>6 DEF NoVersion
  <2> QED
    BY <2>1, <1>6, <1>7 DEF CurrentSound, Asks
<1> QED
  BY <1>6, <1>9, <1>10

\* The effects of the route: a new fence and one full request, or an archive.
LEMMA RunEffectKeeps ==
    ASSUME SnapshotInv, RunEffect
    PROVE  SnapshotInv'
<1>1. /\ UNCHANGED <<server, session, live, awake, display, comments>>
      /\ effectDue' = FALSE /\ loop' = NoRequest /\ ops' = Stale(ops)
      /\ known' = NullVersions /\ applied' = NullVersions /\ liked' = {}
  BY DEF RunEffect
<1>2. archive' \in {"none", "asked"} /\ (archive' = "asked" => session.status = "closed")
  BY DEF RunEffect
<1>3. SceneSound'
  BY <1>1, <1>2 DEF SnapshotInv, SceneSound, Open
<1>4. \A s \in Sections : NullVersions[s] = NoVersion /\ NoVersion \in Int
  BY DEF NullVersions, NoVersion
<1>5. NullVersions \in [Sections -> Int]
  BY <1>4 DEF NullVersions
<1>6. FenceSound'
  <2>1. ASSUME session # NoSession
        PROVE  /\ \A s \in Sections : NullVersions[s] <= server[session.lecture].version[s]
               /\ NullVersions["comments"] # server[session.lecture].version["comments"]
    <3>1. \A s \in Sections : server[session.lecture].version[s] \in Nat
      BY <2>1 DEF SceneSound, Sessions, SnapshotInv, Rows
    <3> QED
      BY <3>1, <1>4 DEF NoVersion, Sections
  <2>2. NullVersions["pdf"] <= display.version
    <3>1. CASE display = NoDisplay
      BY <3>1, <1>4 DEF NoDisplay, NoVersion, Sections
    <3>2. CASE display # NoDisplay
      <4>1. display.version \in Nat
        BY <3>2 DEF SnapshotInv, DisplaySound
      <4> QED
        BY <4>1, <1>4 DEF NoVersion, Sections
    <3> QED
      BY <3>1, <3>2
  <2> QED
    BY <1>1, <1>4, <1>5, <2>1, <2>2 DEF FenceSound, NoVersion
<1>7. DisplaySound'
  BY <1>1 DEF SnapshotInv, DisplaySound
<1>8. OpsSound' /\ Begun' = Begun /\ Spent' = Spent
  BY <1>1, StaleOpsSound
<1>9. ContentSound'
  BY <1>1, <1>8 DEF SnapshotInv, ContentSound
<1>10. RequestsSound' /\ SentSound'
  <2>1. CASE CanRunLiveSync
    <3>1. PICK r \in Requests :
               /\ ~requests[r].busy
               /\ requests' = [Stale(requests) EXCEPT
                     ![r] = [Ask(Sections, TRUE) EXCEPT !.known = NullVersions]]
               /\ sent' = <<r>>
               /\ inFlight' = r
      BY <2>1 DEF RunEffect
    <3>2. PICK n : n = [Ask(Sections, TRUE) EXCEPT !.known = NullVersions]
      OBVIOUS
    <3>3. session # NoSession
      BY <2>1 DEF CanRunLiveSync, NoSession
    <3>4. RequestSound(n)' /\ CurrentSound(n)' /\ n.busy /\ n \in RequestRows
      BY <1>1, <3>2, <3>3, EffectRequest
    <3>5. PICK pool : pool = Stale(requests)
      OBVIOUS
    <3>6. /\ pool \in [Requests -> RequestRows]
          /\ \A x \in Requests : RequestSound(pool[x]) /\ ~pool[x].current
      BY <3>5, StaleRequests
    <3>7. requests' = [pool EXCEPT ![r] = n]
      BY <3>1, <3>2, <3>5
    <3>8. ASSUME NEW x \in Requests
          PROVE  RequestSound(requests[x])' /\ CurrentSound(requests[x])'
      <4>1. CASE x = r
        BY <4>1, <3>4, <3>6, <3>7
      <4>2. CASE x # r
        <5>1. PICK q : q = pool[x]
          OBVIOUS
        <5>2. RequestSound(q) /\ ~q.current
          BY <3>6, <5>1
        <5>3. RequestSound(q)' /\ CurrentSound(q)'
          BY <1>1, <5>2, SameRequest DEF CurrentSound
        <5>4. requests'[x] = q
          BY <3>6, <3>7, <4>2, <5>1
        <5> QED
          BY <5>3, <5>4
      <4> QED
        BY <4>1, <4>2
    <3>9. requests' \in [Requests -> RequestRows] /\ requests'[r] = n
      BY <3>4, <3>6, <3>7
    <3>10. RequestsSound'
      BY <3>8, <3>9 DEF RequestsSound
    <3>11. /\ sent' \in Seq(Requests) /\ DOMAIN sent' = {1} /\ sent'[1] = r
      BY <3>1
    <3>12. SentSound'
      BY <1>1, <3>1, <3>4, <3>9, <3>11 DEF SentSound
    <3> QED
      BY <3>10, <3>12
  <2>2. CASE ~CanRunLiveSync
    <3>1. requests' = Stale(requests) /\ sent' = <<>> /\ inFlight' = NoRequest
      BY <2>2 DEF RunEffect
    <3> QED
      BY <1>1, <3>1, StaleRequestsSound
  <2> QED
    BY <2>1, <2>2
<1>11. server' \in [Lectures -> Rows] /\ \A l \in Lectures : RowSound(server'[l], l)
  BY <1>1 DEF SnapshotInv
<1> QED
  BY <1>3, <1>6, <1>7, <1>8, <1>9, <1>10, <1>11 DEF SnapshotInv

\* Cards of an archive: one for each comment of the row.
ArchiveOf(cards, row) == cards = {Card(c, row.likes[c], FALSE) : c \in row.visible}

\* They are sound, and all that is visible is among them.
LEMMA ArchiveCards ==
    ASSUME SnapshotInv, NEW l \in Lectures, NEW row, row = server[l],
           NEW cards, ArchiveOf(cards, row),
           NEW begun, NEW most, most = MaxComment + Cardinality(Spent)
    PROVE  /\ CardsSound(cards, l, begun, most)
           /\ row.visible \subseteq Ids(cards)
<1>1. row \in Rows /\ RowSound(row, l)
  BY DEF SnapshotInv
<1>2. \A c \in row.visible : c \in CommentIds /\ c[1] = l
  BY <1>1 DEF RowSound, Rows
<1>3. \A c \in CommentIds : row.likes[c] \in Nat /\ row.likes[c] <= MaxComment
  BY <1>1, VersionBound
<1>4. Cardinality(Spent) \in Nat /\ MaxComment \in Nat
  <2>1. IsFiniteSet(Spent)
    BY SnapshotAssumption, FS_Subset DEF Spent
  <2> QED
    BY <2>1, FS_CardinalityType, MostChanges
<1>5. ASSUME NEW c \in row.visible, NEW n, n = Card(c, row.likes[c], FALSE)
      PROVE  CardSound(n, l, begun, most) /\ n.id = c /\ ~n.pending
  <2>1. n = [id |-> c, pending |-> FALSE, likes |-> row.likes[c], mine |-> FALSE]
    BY <1>5 DEF Card
  <2>2. row.likes[c] \in Nat /\ row.likes[c] <= most
    BY <1>2, <1>3, <1>4
  <2> QED
    BY <2>1, <2>2, <1>2 DEF CardSound
<1>0. cards = {Card(c, row.likes[c], FALSE) : c \in row.visible}
  BY DEF ArchiveOf
<1>6. ASSUME NEW n \in cards
      PROVE  /\ CardSound(n, l, begun, most) /\ ~n.pending
             /\ n.id \in row.visible /\ n = Card(n.id, row.likes[n.id], FALSE)
  <2>1. PICK c \in row.visible : n = Card(c, row.likes[c], FALSE)
    BY <1>0
  <2>2. CardSound(n, l, begun, most) /\ n.id = c /\ ~n.pending
    BY <2>1, <1>5
  <2> QED
    BY <2>1, <2>2
<1>7. \A a, b \in cards : a.id = b.id => a = b
  BY <1>6
<1>8. ASSUME NEW c \in row.visible
      PROVE  c \in Ids(cards)
  <2>1. PICK n : n = Card(c, row.likes[c], FALSE)
    OBVIOUS
  <2>2. n \in cards /\ n.id = c
    BY <2>1, <1>5, <1>0
  <2> QED
    BY <2>2 DEF Ids
<1> QED
  BY <1>6, <1>7, <1>8 DEF CardsSound

\* The archive of a closed lecture replaces what was shown.
LEMMA ArchiveArrivesKeeps ==
    ASSUME SnapshotInv, ArchiveArrives
    PROVE  SnapshotInv'
<1>1. UNCHANGED <<server, scene, fence, liked, ops>> /\ archive = "asked" /\ archive' = "shown"
  BY DEF ArchiveArrives
<1>2. PICK l \in Lectures : l = session.lecture /\ session # NoSession /\ session.status = "closed"
  BY <1>1 DEF SnapshotInv, SceneSound, Sessions, NoSession
<1>3. PICK row : row = server[l]
  OBVIOUS
<1>4. comments' = {Card(c, row.likes[c], FALSE) : c \in row.visible}
      /\ display' = [lecture |-> l, version |-> row.version["pdf"]]
  BY <1>2, <1>3 DEF ArchiveArrives
<1>5. row \in Rows /\ row.version["pdf"] \in Nat /\ row.version["pdf"] >= display.version
  BY <1>2, <1>3, ServedIsCurrent DEF SnapshotInv
<1>6. PICK cards : cards = comments'
  OBVIOUS
<1>7. /\ CardsSound(cards, l, Begun, MaxComment + Cardinality(Spent))
      /\ Pending(cards) = {} /\ row.visible \subseteq Ids(cards)
  <2>1. PICK begun : begun = Begun
    OBVIOUS
  <2>2. ArchiveOf(cards, row)
    BY <1>4, <1>6 DEF ArchiveOf
  <2>3. l \in Lectures /\ row = server[l]
    BY <1>2, <1>3
  <2>7. PICK most : most = MaxComment + Cardinality(Spent)
    OBVIOUS
  <2>5. CardsSound(cards, l, begun, most)
    BY <2>2, <2>3, <2>7, ArchiveCards
  <2>6. row.visible \subseteq Ids(cards)
    BY <2>2, <2>3, <2>7, ArchiveCards
  <2>4. Pending(cards) = {}
    BY <2>2 DEF Pending, Card, ArchiveOf
  <2> QED
    BY <2>1, <2>4, <2>7, <2>5, <2>6
<1>8. SceneSound' /\ SentSound'
  BY <1>1 DEF SnapshotInv, SceneSound, SentSound, Open, scene, fence
<1>9. FenceSound'
  <2>1. FenceSound
    BY DEF SnapshotInv
  <2>2. applied["pdf"] <= row.version["pdf"]
    BY <2>1, <1>2, <1>3 DEF FenceSound, Sections
  <2>3. Newest(row.visible, CommentLimit) \subseteq Ids(cards)
    BY <1>7 DEF Newest
  <2>4. display'.version = row.version["pdf"]
    BY <1>4
  <2>5. session' = session /\ server' = server /\ known' = known /\ applied' = applied
    BY <1>1 DEF scene, fence
  <2> QED
    BY <2>1, <2>2, <2>3, <2>4, <2>5, <1>2, <1>3, <1>6 DEF FenceSound
<1>10. DisplaySound'
  BY <1>1, <1>2, <1>3, <1>4, <1>5 DEF DisplaySound, scene
<1>11. RequestsSound'
  <2>1. ASSUME NEW r \in Requests
        PROVE  RequestSound(requests[r])' /\ CurrentSound(requests[r])'
    <3>1. PICK q : q = requests[r]
      OBVIOUS
    <3>2. RequestSound(q) /\ CurrentSound(q)
      BY <3>1 DEF SnapshotInv, RequestsSound
    <3>3. RequestSound(q)'
      BY <1>1, <3>2, SameRequest
    <3>4. ASSUME q.current, Asks(q), ~Terminal(q)
          PROVE  q.snapshot.version["pdf"] >= display'.version
      <4>1. q.snapshot.version["pdf"] = row.version["pdf"]
        BY <3>2, <3>4, <1>2, <1>3 DEF CurrentSound
      <4> QED
        BY <4>1, <1>4, <1>5
    <3>5. CurrentSound(q)'
      BY <3>2, <3>4, <1>1 DEF CurrentSound, scene, fence
    <3> QED
      BY <3>1, <3>3, <3>5, <1>1 DEF fence
  <2> QED
    BY <2>1, <1>1 DEF SnapshotInv, RequestsSound, fence
<1>12. OpsSound'
  BY <1>1 DEF SnapshotInv, OpsSound, scene
<1>13. ContentSound'
  <2>1. Begun' = Begun /\ Spent' = Spent /\ session' = session /\ liked' = liked
    BY <1>1 DEF Begun, Spent, scene
  <2>2. comments' = cards
    BY <1>6
  <2>3. liked \subseteq CommentIds
    BY DEF SnapshotInv, ContentSound
  <2> QED
    BY <2>1, <2>2, <2>3, <1>2, <1>7 DEF ContentSound
<1>14. server' \in [Lectures -> Rows] /\ \A m \in Lectures : RowSound(server'[m], m)
  BY <1>1 DEF SnapshotInv
<1> QED
  BY <1>8, <1>9, <1>10, <1>11, <1>12, <1>13, <1>14 DEF SnapshotInv

-----------------------------------------------------------------------------
(* Cards, redrawn one by one.                                                  *)

CardRows == [id : CommentIds \cup Posts, pending : BOOLEAN, likes : Nat, mine : BOOLEAN]

\* Set `new` has a card f[card] for each card of `old`, of the same comment and in the same state.
Redrawn(new, old, f, most) ==
    /\ new = {f[card] : card \in old}
    /\ \A card \in old : /\ f[card] \in CardRows /\ f[card].id = card.id
                         /\ f[card].pending = card.pending /\ f[card].likes <= most

\* Redrawn cards are as sound, ...
LEMMA RedrawnSound ==
    ASSUME NEW old, NEW l, NEW begun, NEW few, CardsSound(old, l, begun, few),
           NEW new, NEW f, NEW most, Redrawn(new, old, f, most)
    PROVE  CardsSound(new, l, begun, most) /\ Ids(new) = Ids(old)
<1>1. ASSUME NEW n \in new
      PROVE  \E c \in old : n = f[c] /\ n.id = c.id /\ CardSound(n, l, begun, most)
  <2>1. PICK c \in old : n = f[c]
    BY DEF Redrawn
  <2>2. n \in CardRows /\ n.id = c.id /\ n.pending = c.pending /\ n.likes <= most
    BY <2>1 DEF Redrawn
  <2>3. CardSound(c, l, begun, few)
    BY DEF CardsSound
  <2>4. CardSound(n, l, begun, most)
    BY <2>2, <2>3 DEF CardSound, CardRows
  <2> QED
    BY <2>1, <2>2, <2>4
<1>2. ASSUME NEW a \in new, NEW b \in new, a.id = b.id
      PROVE  a = b
  <2>1. PICK c \in old : a = f[c] /\ a.id = c.id
    BY <1>1
  <2>2. PICK d \in old : b = f[d] /\ b.id = d.id
    BY <1>1
  <2>3. c = d
    BY <1>2, <2>1, <2>2 DEF CardsSound
  <2> QED
    BY <2>1, <2>2, <2>3
<1>3. \A c \in old : f[c] \in new /\ f[c].id = c.id
  BY DEF Redrawn
<1>4. Ids(new) = Ids(old)
  BY <1>1, <1>3 DEF Ids
<1> QED
  BY <1>1, <1>2, <1>4 DEF CardsSound

\* ... and none is pending when none was.
LEMMA RedrawnPending ==
    ASSUME NEW old, NEW new, NEW f, NEW most, Redrawn(new, old, f, most), Pending(old) = {}
    PROVE  Pending(new) = {}
<1>1. ASSUME NEW n \in new
      PROVE  ~n.pending
  <2>1. PICK c \in old : n = f[c]
    BY DEF Redrawn
  <2>2. n.pending = c.pending
    BY <2>1 DEF Redrawn
  <2> QED
    BY <2>2 DEF Pending
<1> QED
  BY <1>1 DEF Pending

\* The student's likes are drawn on the cards: they stay as sound.
LEMMA MarkMineSound ==
    ASSUME NEW old, NEW l, NEW begun, NEW most, CardsSound(old, l, begun, most),
           NEW ids, NEW new, new = MarkMine(old, ids)
    PROVE  /\ CardsSound(new, l, begun, most) /\ Ids(new) = Ids(old)
           /\ Pending(old) = {} => Pending(new) = {}
<1>1. PICK f : f = [card \in old |-> [card EXCEPT !.mine = card.id \in ids]]
  OBVIOUS
<1>2. ASSUME NEW c \in old
      PROVE  /\ f[c] \in CardRows /\ f[c].id = c.id /\ f[c].pending = c.pending
             /\ f[c].likes <= most /\ f[c] = [c EXCEPT !.mine = c.id \in ids]
  <2>1. c \in CardRows /\ c.likes <= most
    BY DEF CardsSound, CardSound, CardRows
  <2>2. PICK n : n = [c EXCEPT !.mine = c.id \in ids]
    OBVIOUS
  <2>3. (c.id \in ids) \in BOOLEAN
    OBVIOUS
  <2>4. n \in CardRows /\ n.id = c.id /\ n.pending = c.pending /\ n.likes = c.likes
    BY <2>1, <2>2, <2>3 DEF CardRows
  <2>5. f[c] = n
    BY <1>1, <2>2
  <2> QED
    BY <2>1, <2>2, <2>4, <2>5
<1>3. new = {f[card] : card \in old}
  <2>1. new = {[card EXCEPT !.mine = card.id \in ids] : card \in old}
    BY DEF MarkMine
  <2>2. \A card \in old : f[card] = [card EXCEPT !.mine = card.id \in ids]
    BY <1>2
  <2> QED
    BY <2>1, <2>2
<1>4. Redrawn(new, old, f, most)
  BY <1>2, <1>3 DEF Redrawn
<1>5. CardsSound(new, l, begun, most) /\ Ids(new) = Ids(old)
  BY <1>4, RedrawnSound
<1>6. Pending(old) = {} => Pending(new) = {}
  BY <1>4, RedrawnPending
<1> QED
  BY <1>5, <1>6

\* Fewer cards are as sound.
LEMMA FewerCards ==
    ASSUME NEW old, NEW l, NEW begun, NEW few, NEW more, NEW most \in Nat, few \in Nat,
           CardsSound(old, l, begun, few), begun \subseteq more, few <= most,
           NEW new \in SUBSET old
    PROVE  CardsSound(new, l, more, most)
<1>1. ASSUME NEW c \in new
      PROVE  CardSound(c, l, more, most)
  <2>1. CardSound(c, l, begun, few)
    BY DEF CardsSound
  <2>2. c.likes \in Nat /\ c.likes <= few
    BY <2>1 DEF CardSound
  <2> QED
    BY <2>1, <2>2 DEF CardSound
<1> QED
  BY <1>1 DEF CardsSound

-----------------------------------------------------------------------------
(* The comments after a snapshot.                                             *)

TakesComments(q) == Changed(q, "comments") /\ IsFresh(q.snapshot.version, "comments")
TakesLikes(q) == Changed(q, "likes") /\ IsFresh(q.snapshot.version, "likes")

\* The cards before the totals are drawn.
NewCards(q) == {Card(c, 0, FALSE) : c \in Newest(q.snapshot.visible, CommentLimit)}
BaseCards(q) == IF TakesComments(q) THEN Pending(comments) \cup NewCards(q) ELSE comments
WithTotals(q, card) ==
    [card EXCEPT !.likes = IF card.id \in Newest(q.snapshot.visible, LikeLimit)
                           THEN q.snapshot.likes[card.id] ELSE 0,
                 !.mine = q.all /\ card.id \in liked]

\* CommentsAfter, by name.
LEMMA CommentsAfterBase ==
    ASSUME NEW q
    PROVE  CommentsAfter(q) = IF TakesLikes(q)
                              THEN {WithTotals(q, card) : card \in BaseCards(q)}
                              ELSE BaseCards(q)
BY DEF CommentsAfter, TakesLikes, BaseCards, TakesComments, NewCards, WithTotals

\* A bare terminal state brings no section.
LEMMA TerminalChanges ==
    ASSUME NEW q, Terminal(q), NEW s \in Sections
    PROVE  ~Changed(q, s)
BY DEF Terminal, Changed, Unserved, NullVersions

\* What is known of a current request that was answered.
Deliverable(q, l, row) ==
    /\ q \in RequestRows /\ q.current /\ l = session.lecture /\ session # NoSession
    /\ l \in Lectures /\ row = server[l] /\ row \in Rows
    /\ IF Terminal(q) THEN ~Open(l) ELSE SnapSound(q.snapshot, row, l)

\* The bound on what a card shows of likes.
LEMMA MostLikes ==
    Cardinality(Spent) \in Nat /\ MaxComment + Cardinality(Spent) \in Nat /\ IsFiniteSet(Spent)
<1>1. IsFiniteSet(Spent)
  BY SnapshotAssumption, FS_Subset DEF Spent
<1> QED
  BY <1>1, FS_CardinalityType, MostChanges

\* The comments of the snapshot, or those that were there.
LEMMA BaseSound ==
    ASSUME SnapshotInv, NEW q, NEW l, NEW row, Deliverable(q, l, row),
           NEW begun, begun = Begun, NEW most \in Nat, most = MaxComment + Cardinality(Spent),
           NEW base, base = BaseCards(q)
    PROVE  /\ CardsSound(base, l, begun, most)
           /\ Pending(comments) = {} => Pending(base) = {}
<1>1. l = session.lecture
  BY DEF Deliverable
<1>2. CardsSound(comments, l, begun, most)
  BY <1>1 DEF SnapshotInv, ContentSound
<1>3. CASE ~TakesComments(q)
  BY <1>2, <1>3 DEF BaseCards
<1>4. CASE TakesComments(q)
  <2>1. ~Terminal(q)
    BY <1>4, TerminalChanges DEF TakesComments, Sections
  <2>2. SnapSound(q.snapshot, row, l)
    BY <2>1 DEF Deliverable
  <2>3. PICK N : N = Newest(q.snapshot.visible, CommentLimit)
    OBVIOUS
  <2>4. \A c \in N : c \in CommentIds /\ c[1] = l
    BY <2>2, <2>3 DEF Newest, SnapSound, Rows
  <2>5. base = Pending(comments) \cup {Card(c, 0, FALSE) : c \in N}
    BY <1>4, <2>3 DEF BaseCards, NewCards
  <2>6. ASSUME NEW c \in N, NEW n, n = Card(c, 0, FALSE)
        PROVE  CardSound(n, l, begun, most) /\ n.id = c /\ ~n.pending
    <3>1. n = [id |-> c, pending |-> FALSE, likes |-> 0, mine |-> FALSE]
      BY <2>6 DEF Card
    <3> QED
      BY <2>4, <3>1 DEF CardSound
  <2>7. \A p \in Begun : p \notin CommentIds
    BY IdAssumption DEF Begun, Ops
  <2>8. ASSUME NEW n \in base
        PROVE  /\ CardSound(n, l, begun, most)
               /\ \/ n \in comments /\ n.pending /\ n.id \notin CommentIds
                  \/ ~n.pending /\ n.id \in CommentIds /\ n = Card(n.id, 0, FALSE)
    <3>1. CASE n \in Pending(comments)
      <4>1. CardSound(n, l, begun, most) /\ n \in comments /\ n.pending
        BY <3>1, <1>2 DEF CardsSound, Pending
      <4> QED
        BY <4>1, <2>7 DEF CardSound
    <3>2. CASE n \notin Pending(comments)
      <4>1. PICK c \in N : n = Card(c, 0, FALSE)
        BY <2>5, <3>2
      <4> QED
        BY <4>1, <2>4, <2>6
    <3> QED
      BY <3>1, <3>2
  <2>9. \A a, b \in base : a.id = b.id => a = b
    <3>1. \A a, b \in comments : a.id = b.id => a = b
      BY <1>2 DEF CardsSound
    <3> QED
      BY <2>8, <3>1
  <2>10. CardsSound(base, l, begun, most)
    BY <2>8, <2>9 DEF CardsSound
  <2>11. Pending(comments) = {} => Pending(base) = {}
    BY <2>8 DEF Pending
  <2> QED
    BY <2>10, <2>11
<1> QED
  BY <1>3, <1>4

\* ... and with the totals of the snapshot drawn on them.
LEMMA TotalsSound ==
    ASSUME SnapshotInv, NEW q, NEW l, NEW row, Deliverable(q, l, row),
           NEW begun, begun = Begun, NEW most \in Nat, most = MaxComment + Cardinality(Spent),
           NEW base, base = BaseCards(q), NEW after, after = CommentsAfter(q)
    PROVE  /\ CardsSound(after, l, begun, most) /\ Ids(after) = Ids(base)
           /\ Pending(comments) = {} => Pending(after) = {}
<1>1. /\ CardsSound(base, l, begun, most)
      /\ Pending(comments) = {} => Pending(base) = {}
  BY BaseSound
<1>2. CASE ~TakesLikes(q)
  BY <1>1, <1>2, CommentsAfterBase
<1>3. CASE TakesLikes(q)
  <2>1. ~Terminal(q)
    BY <1>3, TerminalChanges DEF TakesLikes, Sections
  <2>2. SnapSound(q.snapshot, row, l)
    BY <2>1 DEF Deliverable
  <2>3. PICK N : N = Newest(q.snapshot.visible, LikeLimit)
    OBVIOUS
  <2>4. PICK likes : likes = q.snapshot.likes
    OBVIOUS
  <2>5. \A c \in N : likes[c] \in Nat /\ likes[c] <= most
    <3>1. likes \in [CommentIds -> Nat] /\ \A c \in CommentIds : likes[c] <= MaxComment
      BY <2>2, <2>4 DEF SnapSound, Rows
    <3>2. N \subseteq CommentIds
      BY <2>2, <2>3 DEF Newest, SnapSound, Rows
    <3>3. MaxComment \in Nat /\ Cardinality(Spent) \in Nat
      BY MostLikes, MostChanges
    <3> QED
      BY <3>1, <3>2, <3>3
  <2>6. PICK f : f = [card \in base |-> WithTotals(q, card)]
    OBVIOUS
  <2>7. ASSUME NEW c \in base
        PROVE  /\ f[c] \in CardRows /\ f[c].id = c.id /\ f[c].pending = c.pending
               /\ f[c].likes <= most
    <3>1. c \in CardRows
      BY <1>1 DEF CardsSound, CardSound, CardRows
    <3>2. PICK k : k = IF c.id \in N THEN likes[c.id] ELSE 0
      OBVIOUS
    <3>3. k \in Nat /\ k <= most
      BY <2>5, <3>2
    <3>4. PICK m : m = (q.all /\ c.id \in liked)
      OBVIOUS
    <3>5. m \in BOOLEAN
      BY <3>4
    <3>6. PICK n1 : n1 = [c EXCEPT !.likes = k]
      OBVIOUS
    <3>7. PICK n : n = [n1 EXCEPT !.mine = m]
      OBVIOUS
    <3>8. n1 \in CardRows /\ n1.id = c.id /\ n1.pending = c.pending /\ n1.likes = k
      BY <3>1, <3>3, <3>6 DEF CardRows
    <3>9. n \in CardRows /\ n.id = c.id /\ n.pending = c.pending /\ n.likes = k
      BY <3>5, <3>7, <3>8 DEF CardRows
    <3>10. WithTotals(q, c) = [c EXCEPT !.likes = k, !.mine = m]
      BY <2>3, <2>4, <3>2, <3>4 DEF WithTotals
    <3>11. f[c] = n
      BY <2>6, <3>1, <3>6, <3>7, <3>10 DEF CardRows
    <3> QED
      BY <3>3, <3>9, <3>11
  <2>8. after = {f[card] : card \in base}
    <3>1. after = {WithTotals(q, card) : card \in base}
      BY <1>3, CommentsAfterBase
    <3>2. \A card \in base : f[card] = WithTotals(q, card)
      BY <2>6
    <3> QED
      BY <3>1, <3>2
  <2>9. Redrawn(after, base, f, most)
    BY <2>7, <2>8 DEF Redrawn
  <2>10. CardsSound(after, l, begun, most) /\ Ids(after) = Ids(base)
    BY <1>1, <2>9, RedrawnSound
  <2>11. Pending(base) = {} => Pending(after) = {}
    BY <2>9, RedrawnPending
  <2> QED
    BY <1>1, <2>10, <2>11
<1> QED
  BY <1>2, <1>3

-----------------------------------------------------------------------------
(* A snapshot is delivered.                                                   *)

\* Versions are merged to the greater; what is known advances to it, or to nothing.
LEMMA VersionsAdvance ==
    ASSUME NEW k \in [Sections -> Int], NEW a \in [Sections -> Int],
           \A s \in Sections : NoVersion <= k[s] /\ k[s] <= a[s],
           NEW v, v = NullVersions \/ v \in [Sections -> Nat],
           NEW k1, k1 = Advanced(k, v), NEW a1, a1 = Merged(a, v)
    PROVE  /\ k1 \in [Sections -> Int] /\ a1 \in [Sections -> Int]
           /\ \A s \in Sections :
                 /\ v[s] \in Int /\ NoVersion <= v[s] /\ NoVersion <= k1[s]
                 /\ k1[s] <= a1[s] /\ a[s] <= a1[s] /\ v[s] <= a1[s]
                 /\ a1[s] = a[s] \/ a1[s] = v[s]
<1>1. \A s \in Sections : v[s] \in Int /\ NoVersion <= v[s]
  BY DEF NullVersions, NoVersion
<1>2. k1 = [s \in Sections |-> IF v[s] = NoVersion \/ k[s] <= v[s] THEN v[s] ELSE k[s]]
  BY DEF Advanced
<1>3. a1 = [s \in Sections |-> IF a[s] > v[s] THEN a[s] ELSE v[s]]
  BY DEF Merged
<1>4. ASSUME NEW s \in Sections
      PROVE  /\ k1[s] \in Int /\ a1[s] \in Int /\ NoVersion <= k1[s]
             /\ k1[s] <= a1[s] /\ a[s] <= a1[s] /\ v[s] <= a1[s]
             /\ a1[s] = a[s] \/ a1[s] = v[s]
  <2>1. v[s] \in Int /\ a[s] \in Int /\ k[s] \in Int /\ NoVersion <= v[s]
        /\ NoVersion <= k[s] /\ k[s] <= a[s] /\ NoVersion \in Int
    BY <1>1 DEF NoVersion
  <2>2. k1[s] = IF v[s] = NoVersion \/ k[s] <= v[s] THEN v[s] ELSE k[s]
    BY <1>2
  <2>3. a1[s] = IF a[s] > v[s] THEN a[s] ELSE v[s]
    BY <1>3
  <2> QED
    BY <2>1, <2>2, <2>3
<1>5. k1 \in [Sections -> Int] /\ a1 \in [Sections -> Int]
  BY <1>2, <1>3, <1>4
<1> QED
  BY <1>1, <1>4, <1>5

\* What Deliver does with a response of the current epoch, by name.
Mine(q) == q.all /\ ~Terminal(q) /\ ~q.late
DeliveredCards(q) == IF Mine(q) THEN MarkMine(CommentsAfter(q), q.participant)
                                ELSE CommentsAfter(q)
Rest(r) == [i \in Requests |->
              IF i = r THEN Free
              ELSE IF Before(i, r) THEN [requests[i] EXCEPT !.late = TRUE]
              ELSE requests[i]]

\* Deliver, by these names.
LEMMA DeliverParts ==
    ASSUME NEW r \in Requests, Deliver(r), NEW q, q = requests[r], q.current
    PROVE  /\ q.busy /\ q.awaits = {} /\ server' = server /\ live' = live
           /\ awake' = awake /\ archive' = archive
           /\ loop' = Released(loop, r) /\ inFlight' = Released(inFlight, r)
           /\ sent' = Without(sent, r)
           /\ session' = IF Closes(q) THEN [lecture |-> q.lecture, status |-> "closed"]
                         ELSE IF Changed(q, "lecture") /\ IsFresh(q.snapshot.version, "lecture")
                         THEN [lecture |-> q.lecture, status |-> "open"] ELSE session
           /\ effectDue' = (effectDue \/ session' # session)
           /\ display' = IF Changed(q, "pdf") /\ IsFresh(q.snapshot.version, "pdf")
                         THEN [lecture |-> q.lecture, version |-> q.snapshot.version["pdf"]]
                         ELSE display
           /\ comments' = IF Closes(q) THEN WithoutPending(DeliveredCards(q))
                                       ELSE DeliveredCards(q)
           /\ liked' = IF Mine(q) THEN q.participant ELSE liked
           /\ known' = Advanced(known, q.snapshot.version)
           /\ applied' = Merged(applied, q.snapshot.version)
           /\ requests' = IF Closes(q) THEN Stale(Rest(r)) ELSE Rest(r)
           /\ ops' = IF Closes(q) THEN Stale(ops) ELSE ops
BY DEF Deliver, Current, Mine, DeliveredCards, Rest, NewEpoch

\* A response that is delivered to the current epoch is one of the joined lecture.
LEMMA DeliveredIsOwn ==
    ASSUME SnapshotInv, NEW r \in Requests, NEW q, q = requests[r],
           q.current, q.busy, q.awaits = {}, NEW l, l = session.lecture,
           NEW row, row = server[l]
    PROVE  /\ Deliverable(q, l, row) /\ q.lecture = l /\ CurrentSound(q) /\ Asks(q)
           /\ q.snapshot.version = NullVersions \/ q.snapshot.version \in [Sections -> Nat]
<1>1. RequestSound(q) /\ CurrentSound(q) /\ q \in RequestRows
  BY DEF SnapshotInv, RequestsSound
<1>2. session # NoSession /\ q.lecture = l /\ Asks(q)
  BY <1>1 DEF CurrentSound, Asks
<1>3. l \in Lectures /\ row \in Rows
  BY <1>2 DEF SnapshotInv, SceneSound, Sessions
<1>4. IF Terminal(q) THEN ~Open(l) ELSE SnapSound(q.snapshot, row, l)
  BY <1>1, <1>2 DEF RequestSound
<1>5. Deliverable(q, l, row)
  BY <1>1, <1>2, <1>3, <1>4 DEF Deliverable
<1>6. q.snapshot.version = NullVersions \/ q.snapshot.version \in [Sections -> Nat]
  BY <1>4 DEF Terminal, Unserved, SnapSound, Rows
<1> QED
  BY <1>1, <1>2, <1>5, <1>6

\* It closes the lecture, which then is closed, or leaves the session as it is.
LEMMA DeliverSession ==
    ASSUME SnapshotInv, NEW r \in Requests, Deliver(r), NEW q, q = requests[r], q.current
    PROVE  /\ session' \in Sessions /\ session'.lecture = session.lecture /\ session' # NoSession
           /\ Closes(q) => session'.status = "closed" /\ ~Open(session.lecture)
           /\ ~Closes(q) => session' = session
<1>1. PICK l : l = session.lecture
  OBVIOUS
<1>2. PICK row : row = server[l]
  OBVIOUS
<1>3. q.busy /\ q.awaits = {}
  BY DeliverParts
<1>4. Deliverable(q, l, row) /\ q.lecture = l /\ CurrentSound(q) /\ Asks(q)
  BY <1>1, <1>2, <1>3, DeliveredIsOwn
<1>5. session' = IF Closes(q) THEN [lecture |-> q.lecture, status |-> "closed"]
                 ELSE IF Changed(q, "lecture") /\ IsFresh(q.snapshot.version, "lecture")
                 THEN [lecture |-> q.lecture, status |-> "open"] ELSE session
  BY DeliverParts
<1>6. l \in Lectures /\ session # NoSession /\ row \in Rows /\ row = server[l] /\ l = session.lecture
  BY <1>4 DEF Deliverable
<1>7. session \in [lecture : Lectures, status : {"open", "closed"}]
  BY <1>6 DEF SnapshotInv, SceneSound, Sessions
<1>8. NoLecture \notin Lectures
  BY SnapshotAssumption
<1>9. CASE Closes(q)
  <2>1. session' = [lecture |-> l, status |-> "closed"]
    BY <1>4, <1>5, <1>9
  <2>2. session' \in Sessions /\ session'.lecture = l /\ session'.status = "closed"
        /\ session' # NoSession
    BY <2>1, <1>6, <1>8 DEF Sessions, NoSession
  <2>3. ~Open(l)
    <3>1. CASE Terminal(q)
      BY <3>1, <1>4 DEF Deliverable
    <3>2. CASE ~Terminal(q)
      <4>1. q.snapshot.version["lecture"] = 1
        BY <3>2, <1>9 DEF Closes
      <4>2. SnapSound(q.snapshot, row, l)
        BY <3>2, <1>4 DEF Deliverable
      <4>3. 1 <= row.version["lecture"] /\ row.version["lecture"] \in Nat
        BY <4>1, <4>2, <1>6 DEF SnapSound, Sections, Rows
      <4> QED
        BY <4>3, <1>6 DEF Open
    <3> QED
      BY <3>1, <3>2
  <2> QED
    BY <2>2, <2>3, <1>1, <1>9
<1>10. CASE ~Closes(q)
  <2>1. ASSUME Changed(q, "lecture")
        PROVE  [lecture |-> l, status |-> "open"] = session
    <3>1. ~Terminal(q)
      BY <1>10 DEF Closes
    <3>2. SnapSound(q.snapshot, row, l)
      BY <3>1, <1>4 DEF Deliverable
    <3>3. RowSound(row, l)
      BY <1>6 DEF SnapshotInv
    <3>4. q.snapshot.version["lecture"] \in Nat /\ row.version["lecture"] \in Nat
          /\ q.snapshot.version["lecture"] <= row.version["lecture"] /\ row.version["lecture"] <= 1
      BY <3>2, <3>3, <1>6 DEF SnapSound, RowSound, Rows, Sections
    <3>5. q.snapshot.version["lecture"] # 1
      BY <2>1, <1>10 DEF Closes
    <3>6. q.snapshot.version["lecture"] = 0
      BY <3>4, <3>5
    <3>7. session.status # "closed"
      <4>1. ASSUME session.status = "closed"
            PROVE  FALSE
        <5>1. q.snapshot.version["lecture"] = row.version["lecture"]
          BY <4>1, <3>1, <1>4, <1>6 DEF CurrentSound
        <5>2. row.version["lecture"] = 0
          BY <5>1, <3>6
        <5>3. ~Open(l)
          BY <4>1, <1>6 DEF SnapshotInv, SceneSound
        <5> QED
          BY <5>2, <5>3, <1>6 DEF Open
      <4> QED
        BY <4>1
    <3>8. session.status = "open"
      BY <3>7, <1>7
    <3> QED
      BY <3>8, <1>6, <1>7
  <2>2. session' = session
    BY <2>1, <1>4, <1>5, <1>10
  <2> QED
    BY <2>2, <1>6, <1>7, <1>10 DEF Sessions
<1> QED
  BY <1>9, <1>10

\* The versions after it: no less than before, and no more than the database has.
LEMMA DeliverVersions ==
    ASSUME SnapshotInv, NEW r \in Requests, Deliver(r), NEW q, q = requests[r], q.current,
           NEW v, v = q.snapshot.version, NEW row, row = server[session.lecture]
    PROVE  /\ known' \in [Sections -> Int] /\ applied' \in [Sections -> Int]
           /\ \A s \in Sections :
                 /\ v[s] \in Int /\ applied[s] \in Int /\ row.version[s] \in Nat
                 /\ NoVersion <= known'[s] /\ known'[s] <= applied'[s]
                 /\ applied[s] <= applied'[s] /\ v[s] <= applied'[s]
                 /\ applied'[s] = applied[s] \/ applied'[s] = v[s]
                 /\ v[s] <= row.version[s] /\ applied'[s] <= row.version[s]
                 /\ v[s] > applied[s] => Changed(q, s) /\ IsFresh(v, s)
<1>1. PICK l : l = session.lecture
  OBVIOUS
<1>2. q.busy /\ q.awaits = {} /\ known' = Advanced(known, v) /\ applied' = Merged(applied, v)
  BY DeliverParts
<1>3. Deliverable(q, l, row) /\ CurrentSound(q)
      /\ (v = NullVersions \/ v \in [Sections -> Nat])
  BY <1>1, <1>2, DeliveredIsOwn
<1>4. session # NoSession /\ row \in Rows
  BY <1>3 DEF Deliverable
<1>5. FenceSound
  BY DEF SnapshotInv
<1>6. PICK k : k = known
  OBVIOUS
<1>7. PICK a : a = applied
  OBVIOUS
<1>8. k \in [Sections -> Int] /\ a \in [Sections -> Int]
      /\ \A s \in Sections : NoVersion <= k[s] /\ k[s] <= a[s] /\ a[s] <= row.version[s]
  BY <1>4, <1>5, <1>6, <1>7 DEF FenceSound
<1>9. PICK k1 : k1 = known'
  OBVIOUS
<1>10. PICK a1 : a1 = applied'
  OBVIOUS
<1>11. k1 = Advanced(k, v) /\ a1 = Merged(a, v)
  BY <1>2, <1>6, <1>7, <1>9, <1>10
<1>12. /\ k1 \in [Sections -> Int] /\ a1 \in [Sections -> Int]
       /\ \A s \in Sections :
             /\ v[s] \in Int /\ NoVersion <= v[s] /\ NoVersion <= k1[s]
             /\ k1[s] <= a1[s] /\ a[s] <= a1[s] /\ v[s] <= a1[s]
             /\ a1[s] = a[s] \/ a1[s] = v[s]
  BY <1>3, <1>8, <1>11, VersionsAdvance
<1>13. ASSUME NEW s \in Sections
       PROVE  /\ v[s] <= row.version[s] /\ a1[s] <= row.version[s] /\ row.version[s] \in Nat
              /\ v[s] > a[s] => Changed(q, s) /\ IsFresh(v, s)
  <2>1. row.version[s] \in Nat /\ v[s] \in Int /\ a[s] \in Int
    BY <1>4, <1>8, <1>12 DEF Rows
  <2>2. v[s] <= row.version[s]
    <3>1. CASE Terminal(q)
      <4>1. v[s] = -1
        BY <3>1 DEF Terminal, Unserved, NullVersions, NoVersion
      <4> QED
        BY <4>1, <2>1
    <3>2. CASE ~Terminal(q)
      BY <3>2, <1>3 DEF Deliverable, SnapSound
    <3> QED
      BY <3>1, <3>2
  <2>3. a1[s] <= row.version[s]
    BY <2>1, <2>2, <1>8, <1>12
  <2>4. ASSUME v[s] > a[s]
        PROVE  Changed(q, s) /\ IsFresh(v, s)
    <3>1. q.known[s] <= a[s] /\ NoVersion <= a[s]
      BY <1>3, <1>7, <1>8, <1>12 DEF CurrentSound, Deliverable, NoVersion
    <3>2. v[s] # NoVersion
      BY <2>1, <2>4, <3>1 DEF NoVersion
    <3>3. q.known[s] \in Int
      BY <1>3 DEF Deliverable, RequestRows
    <3>4. v[s] # q.known[s]
      BY <2>1, <2>4, <3>1, <3>3
    <3>5. v[s] >= applied[s]
      BY <2>1, <2>4, <1>7
    <3> QED
      BY <3>2, <3>4, <3>5 DEF Changed, IsFresh
  <2> QED
    BY <2>1, <2>2, <2>3, <2>4
<1> QED
  BY <1>7, <1>8, <1>9, <1>10, <1>12, <1>13

\* The slide after it: the one of the snapshot unless that is older than what was applied.
LEMMA DeliverDisplay ==
    ASSUME SnapshotInv, NEW r \in Requests, Deliver(r), NEW q, q = requests[r], q.current
    PROVE  /\ DisplaySound'
           /\ applied'["pdf"] <= display'.version
           /\ display' = display \/ (display'.version = applied'["pdf"]
                                     /\ display'.version >= display.version)
<1>1. PICK l : l = session.lecture
  OBVIOUS
<1>2. PICK row : row = server[l]
  OBVIOUS
<1>3. PICK v : v = q.snapshot.version
  OBVIOUS
<1>4. q.busy /\ q.awaits = {} /\ server' = server
      /\ display' = IF Changed(q, "pdf") /\ IsFresh(v, "pdf")
                    THEN [lecture |-> q.lecture, version |-> v["pdf"]] ELSE display
  BY <1>3, DeliverParts
<1>5. Deliverable(q, l, row) /\ q.lecture = l /\ CurrentSound(q) /\ Asks(q)
  BY <1>1, <1>2, <1>4, DeliveredIsOwn
<1>6. /\ v["pdf"] \in Int /\ applied["pdf"] \in Int /\ row.version["pdf"] \in Nat
      /\ applied["pdf"] <= applied'["pdf"] /\ v["pdf"] <= applied'["pdf"]
      /\ applied'["pdf"] = applied["pdf"] \/ applied'["pdf"] = v["pdf"]
      /\ v["pdf"] <= row.version["pdf"]
      /\ v["pdf"] > applied["pdf"] => Changed(q, "pdf") /\ IsFresh(v, "pdf")
  BY <1>1, <1>2, <1>3, DeliverVersions DEF Sections
<1>7. session # NoSession /\ l \in Lectures /\ row \in Rows
  BY <1>5 DEF Deliverable
<1>8. session'.lecture = l /\ session' # NoSession
  BY <1>1, DeliverSession
<1>9. DisplaySound /\ applied["pdf"] <= display.version
  BY <1>7 DEF SnapshotInv, FenceSound
<1>10. CASE Changed(q, "pdf") /\ IsFresh(v, "pdf")
  <2>1. display' = [lecture |-> l, version |-> v["pdf"]] /\ display'.version = v["pdf"]
    BY <1>4, <1>5, <1>10
  <2>2. v["pdf"] >= applied["pdf"] /\ v["pdf"] # NoVersion
    BY <1>3, <1>10 DEF IsFresh, Changed
  <2>3. ~Terminal(q)
    BY <1>10, TerminalChanges DEF Sections
  <2>4. v["pdf"] \in Nat
    BY <2>3, <1>3, <1>5 DEF Deliverable, SnapSound, Rows, Sections
  <2>5. applied'["pdf"] = v["pdf"]
    BY <2>2, <1>6
  <2>6. v["pdf"] >= display.version
    BY <2>2, <2>3, <1>3, <1>5, <1>6 DEF CurrentSound, Deliverable
  <2>7. DisplaySound'
    BY <2>1, <2>4, <1>1, <1>2, <1>4, <1>6, <1>8 DEF DisplaySound
  <2> QED
    BY <2>1, <2>5, <2>6, <2>7, <1>6
<1>11. CASE ~(Changed(q, "pdf") /\ IsFresh(v, "pdf"))
  <2>1. display' = display
    BY <1>4, <1>11
  <2>2. applied'["pdf"] = applied["pdf"]
    BY <1>6, <1>11
  <2>3. DisplaySound'
    BY <2>1, <1>1, <1>4, <1>8, <1>9 DEF DisplaySound
  <2> QED
    BY <2>1, <2>2, <2>3, <1>9
<1> QED
  BY <1>10, <1>11

\* The cards after it, before those under way are dropped.
LEMMA DeliveredCardsSound ==
    ASSUME SnapshotInv, NEW q, NEW l, NEW row, Deliverable(q, l, row),
           NEW begun, begun = Begun, NEW most \in Nat, most = MaxComment + Cardinality(Spent),
           NEW base, base = BaseCards(q), NEW cards, cards = DeliveredCards(q)
    PROVE  /\ CardsSound(cards, l, begun, most) /\ Ids(cards) = Ids(base)
           /\ Pending(comments) = {} => Pending(cards) = {}
<1>1. PICK after : after = CommentsAfter(q)
  OBVIOUS
<1>2. /\ CardsSound(after, l, begun, most) /\ Ids(after) = Ids(base)
      /\ Pending(comments) = {} => Pending(after) = {}
  BY <1>1, TotalsSound
<1>3. CASE Mine(q)
  <2>1. cards = MarkMine(after, q.participant)
    BY <1>1, <1>3 DEF DeliveredCards
  <2>2. /\ CardsSound(cards, l, begun, most) /\ Ids(cards) = Ids(after)
        /\ Pending(after) = {} => Pending(cards) = {}
    BY <2>1, <1>2, MarkMineSound
  <2> QED
    BY <2>2, <1>2
<1>4. CASE ~Mine(q)
  <2>1. cards = after
    BY <1>1, <1>4 DEF DeliveredCards
  <2> QED
    BY <2>1, <1>2
<1> QED
  BY <1>3, <1>4

\* What is under way is dropped; the comments stay.
LEMMA DroppedPending ==
    ASSUME NEW cards, NEW l, NEW begun \in SUBSET Posts, NEW most, CardsSound(cards, l, begun, most),
           NEW fewer, fewer = WithoutPending(cards)
    PROVE  /\ fewer \subseteq cards /\ Pending(fewer) = {}
           /\ \A c \in CommentIds : c \in Ids(cards) => c \in Ids(fewer)
<1>1. fewer = cards \ Pending(cards)
  BY DEF WithoutPending
<1>2. fewer \subseteq cards /\ Pending(fewer) = {}
  BY <1>1 DEF Pending
<1>3. ASSUME NEW c \in CommentIds, c \in Ids(cards)
      PROVE  c \in Ids(fewer)
  <2>1. PICK card \in cards : card.id = c
    BY <1>3 DEF Ids
  <2>2. c \notin Posts
    BY <1>3, IdAssumption DEF Ops
  <2>3. CardSound(card, l, begun, most)
    BY <2>1 DEF CardsSound
  <2>4. ~card.pending
    BY <2>1, <2>2, <2>3 DEF CardSound
  <2>5. card \in fewer
    BY <2>1, <2>4, <1>1 DEF Pending
  <2> QED
    BY <2>1, <2>5 DEF Ids
<1> QED
  BY <1>2, <1>3

\* The comments after it: sound, and those of the snapshot when it was the newest.
LEMMA DeliverContent ==
    ASSUME SnapshotInv, NEW r \in Requests, Deliver(r), NEW q, q = requests[r], q.current
    PROVE  /\ ContentSound' /\ OpsSound'
           /\ applied'["comments"] = server[session.lecture].version["comments"] =>
                 Newest(server[session.lecture].visible, CommentLimit) \subseteq Ids(comments')
<1>1. PICK l : l = session.lecture
  OBVIOUS
<1>2. PICK row : row = server[l]
  OBVIOUS
<1>3. q.busy /\ q.awaits = {} /\ server' = server
      /\ ops' = (IF Closes(q) THEN Stale(ops) ELSE ops)
      /\ liked' = IF Mine(q) THEN q.participant ELSE liked
  BY DeliverParts
<1>4. Deliverable(q, l, row) /\ CurrentSound(q)
  BY <1>1, <1>2, <1>3, DeliveredIsOwn
<1>5. PICK begun : begun = Begun
  OBVIOUS
<1>6. PICK most \in Nat : most = MaxComment + Cardinality(Spent)
  BY MostLikes
<1>7. PICK base : base = BaseCards(q)
  OBVIOUS
<1>8. PICK cards : cards = DeliveredCards(q)
  OBVIOUS
<1>9. /\ CardsSound(cards, l, begun, most) /\ Ids(cards) = Ids(base)
      /\ Pending(comments) = {} => Pending(cards) = {}
  BY <1>4, <1>5, <1>6, <1>7, <1>8, DeliveredCardsSound
<1>10. PICK after : after = comments'
  OBVIOUS
<1>11. after = IF Closes(q) THEN WithoutPending(cards) ELSE cards
  BY <1>8, <1>10, DeliverParts
<1>12. begun \in SUBSET Posts
  BY <1>5 DEF Begun
<1>13. /\ after \subseteq cards
       /\ \A c \in CommentIds : c \in Ids(cards) => c \in Ids(after)
       /\ Closes(q) => Pending(after) = {}
  <2>1. CASE Closes(q)
    BY <2>1, <1>9, <1>11, <1>12, DroppedPending
  <2>2. CASE ~Closes(q)
    BY <2>2, <1>11
  <2> QED
    BY <2>1, <2>2
<1>14. session'.lecture = l /\ (~Closes(q) => session' = session)
  BY <1>1, DeliverSession
<1>15. OpsSound' /\ Begun' = Begun /\ Spent' = Spent
  <2>1. CASE Closes(q)
    BY <2>1, <1>3, StaleOpsSound
  <2>2. CASE ~Closes(q)
    BY <2>2, <1>3, <1>14 DEF SnapshotInv, OpsSound, Begun, Spent
  <2> QED
    BY <2>1, <2>2
<1>16. CardsSound(after, l, begun, most)
  BY <1>9, <1>13 DEF CardsSound
<1>17. session'.status = "closed" => Pending(after) = {}
  <2>1. CASE Closes(q)
    BY <2>1, <1>13
  <2>2. CASE ~Closes(q)
    <3>1. ASSUME session.status = "closed"
          PROVE  Pending(after) = {}
      <4>1. Pending(comments) = {}
        BY <3>1 DEF SnapshotInv, ContentSound
      <4> QED
        BY <4>1, <2>2, <1>9, <1>11
    <3> QED
      BY <3>1, <2>2, <1>14
  <2> QED
    BY <2>1, <2>2
<1>18. liked' \subseteq CommentIds
  <2>1. liked \subseteq CommentIds
    BY DEF SnapshotInv, ContentSound
  <2>2. q.participant \subseteq CommentIds
    BY <1>4 DEF Deliverable, RequestRows
  <2> QED
    BY <2>1, <2>2, <1>3
<1>19. ContentSound'
  BY <1>5, <1>6, <1>10, <1>14, <1>15, <1>16, <1>17, <1>18 DEF ContentSound
<1>20. ASSUME applied'["comments"] = row.version["comments"]
       PROVE  Newest(row.visible, CommentLimit) \subseteq Ids(after)
  <2>1. PICK v : v = q.snapshot.version
    OBVIOUS
  <2>2. /\ v["comments"] \in Int /\ applied["comments"] \in Int /\ row.version["comments"] \in Nat
        /\ applied["comments"] <= applied'["comments"] /\ v["comments"] <= applied'["comments"]
        /\ applied'["comments"] = applied["comments"] \/ applied'["comments"] = v["comments"]
        /\ v["comments"] > applied["comments"] =>
              Changed(q, "comments") /\ IsFresh(v, "comments")
    BY <1>1, <1>2, <2>1, DeliverVersions DEF Sections
  <2>3. Newest(row.visible, CommentLimit) \subseteq CommentIds
    BY <1>4 DEF Newest, Deliverable, Rows
  <2>4. Newest(row.visible, CommentLimit) \subseteq Ids(base)
    <3>1. CASE TakesComments(q)
      <4>1. ~Terminal(q) /\ v["comments"] >= applied["comments"]
        BY <2>1, <3>1, TerminalChanges DEF TakesComments, IsFresh, Sections
      <4>2. v["comments"] = row.version["comments"]
        BY <4>1, <2>2, <1>20
      <4>3. q.snapshot.visible = row.visible
        BY <4>1, <4>2, <2>1, <1>4 DEF Deliverable, SnapSound
      <4>4. ASSUME NEW c \in Newest(row.visible, CommentLimit)
            PROVE  c \in Ids(base)
        <5>1. PICK n : n = Card(c, 0, FALSE)
          OBVIOUS
        <5>2. n \in NewCards(q) /\ n.id = c
          BY <4>3, <5>1 DEF NewCards, Card
        <5>3. n \in base
          BY <5>2, <3>1, <1>7 DEF BaseCards
        <5> QED
          BY <5>2, <5>3 DEF Ids
      <4> QED
        BY <4>4
    <3>2. CASE ~TakesComments(q)
      <4>1. base = comments
        BY <3>2, <1>7 DEF BaseCards
      <4>2. ~(v["comments"] > applied["comments"])
        BY <3>2, <2>1, <2>2 DEF TakesComments
      <4>3. applied["comments"] = row.version["comments"]
        BY <4>2, <2>2, <1>20
      <4> QED
        BY <4>1, <4>3, <1>1, <1>2, <1>4 DEF SnapshotInv, FenceSound, Deliverable
    <3> QED
      BY <3>1, <3>2
  <2> QED
    BY <2>3, <2>4, <1>9, <1>13
<1> QED
  BY <1>1, <1>2, <1>10, <1>15, <1>19, <1>20

\* The requests it leaves: itself free, the older ones late, all as sound as before.
LEMMA RestSound ==
    ASSUME SnapshotInv, NEW r \in Requests, NEW rest, rest = Rest(r)
    PROVE  /\ rest \in [Requests -> RequestRows]
           /\ \A x \in Requests : RequestSound(rest[x]) /\ CurrentSound(rest[x])
           /\ \A x \in Requests : x # r => rest[x].busy = requests[x].busy
<1>1. requests \in [Requests -> RequestRows]
      /\ \A x \in Requests : RequestSound(requests[x]) /\ CurrentSound(requests[x])
  BY DEF SnapshotInv, RequestsSound
<1>2. rest = [x \in Requests |->
              IF x = r THEN Free
              ELSE IF Before(x, r) THEN [requests[x] EXCEPT !.late = TRUE]
              ELSE requests[x]]
  BY DEF Rest
<1>3. ASSUME NEW x \in Requests
      PROVE  /\ rest[x] \in RequestRows /\ RequestSound(rest[x]) /\ CurrentSound(rest[x])
             /\ x # r => rest[x].busy = requests[x].busy
  <2>1. CASE x = r
    BY <2>1, <1>2, FreeSound
  <2>2. CASE x # r /\ Before(x, r)
    <3>1. PICK q \in RequestRows : q = requests[x]
      BY <1>1
    <3>2. RequestSound(q) /\ CurrentSound(q)
      BY <1>1, <3>1
    <3>3. PICK n : n = [q EXCEPT !.late = TRUE]
      OBVIOUS
    <3>4. n \in RequestRows /\ n.busy = q.busy /\ n.lecture = q.lecture /\ n.current = q.current
          /\ n.known = q.known /\ n.snapshot = q.snapshot /\ n.awaits = q.awaits
      BY <3>3 DEF RequestRows
    <3>5. Asks(n) = Asks(q) /\ Terminal(n) = Terminal(q)
      BY <3>4 DEF Asks, Terminal
    <3>6. RequestSound(n)
      BY <3>2, <3>4, <3>5 DEF RequestSound
    <3>7. CurrentSound(n)
      BY <3>2, <3>4, <3>5 DEF CurrentSound
    <3>8. rest[x] = n
      BY <1>2, <2>2, <3>1, <3>3
    <3> QED
      BY <3>1, <3>4, <3>6, <3>7, <3>8
  <2>3. CASE x # r /\ ~Before(x, r)
    BY <2>3, <1>1, <1>2
  <2> QED
    BY <2>1, <2>2, <2>3
<1> QED
  BY <1>2, <1>3

\* What travels after it is sound: late, or of an older epoch when the lecture closed.
LEMMA DeliverRequests ==
    ASSUME SnapshotInv, NEW r \in Requests, Deliver(r), NEW q, q = requests[r], q.current
    PROVE  RequestsSound' /\ SentSound'
<1>1. PICK rest : rest = Rest(r)
  OBVIOUS
<1>2. /\ rest \in [Requests -> RequestRows]
      /\ \A x \in Requests : RequestSound(rest[x]) /\ CurrentSound(rest[x])
      /\ \A x \in Requests : x # r => rest[x].busy = requests[x].busy
  BY <1>1, RestSound
<1>3. /\ server' = server /\ loop' = Released(loop, r) /\ inFlight' = Released(inFlight, r)
      /\ sent' = Without(sent, r)
      /\ requests' = IF Closes(q) THEN Stale(rest) ELSE rest
  BY <1>1, DeliverParts
<1>4. CASE Closes(q)
  <2>1. PICK pool : pool = Stale(rest)
    OBVIOUS
  <2>2. /\ pool \in [Requests -> RequestRows]
        /\ \A x \in Requests : RequestSound(pool[x]) /\ CurrentSound(pool[x])
                               /\ pool[x].busy = rest[x].busy /\ ~pool[x].current
    BY <2>1, <1>2, StalePool
  <2>3. requests' = pool
    BY <2>1, <1>3, <1>4
  <2>4. ASSUME NEW x \in Requests
        PROVE  RequestSound(requests[x])' /\ CurrentSound(requests[x])'
    <3>1. PICK n : n = pool[x]
      OBVIOUS
    <3>2. RequestSound(n) /\ ~n.current
      BY <2>2, <3>1
    <3>3. RequestSound(n)' /\ CurrentSound(n)'
      BY <1>3, <3>2, SameRequest DEF CurrentSound
    <3> QED
      BY <2>3, <3>1, <3>3
  <2>5. RequestsSound'
    BY <2>2, <2>3, <2>4 DEF RequestsSound
  <2>6. \A x \in Requests : x # r => requests'[x].busy = requests[x].busy
    BY <1>2, <2>2, <2>3
  <2>7. SentSound'
    BY <2>6, <1>3, EndedSent
  <2> QED
    BY <2>5, <2>7
<1>5. CASE ~Closes(q)
  <2>1. requests' = rest
    BY <1>3, <1>5
  <2>2. session' = session
    BY <1>5, DeliverSession
  <2>3. \A s \in Sections : applied[s] \in Int /\ applied'[s] \in Int /\ applied[s] <= applied'[s]
    <3>1. PICK row : row = server[session.lecture]
      OBVIOUS
    <3>2. PICK v : v = q.snapshot.version
      OBVIOUS
    <3> QED
      BY <3>1, <3>2, DeliverVersions
  <2>4. /\ applied'["pdf"] <= display'.version
        /\ display' = display \/ (display'.version = applied'["pdf"]
                                  /\ display'.version >= display.version)
    BY DeliverDisplay
  <2>5. ASSUME NEW x \in Requests
        PROVE  RequestSound(requests[x])' /\ CurrentSound(requests[x])'
    <3>1. PICK n : n = rest[x]
      OBVIOUS
    <3>2. RequestSound(n) /\ CurrentSound(n) /\ n \in RequestRows
      BY <1>2, <3>1
    <3>3. RequestSound(n)'
      BY <1>3, <3>2, SameRequest
    <3>4. ASSUME n.current
          PROVE  \A s \in Sections : n.known[s] <= applied'[s]
      <4>1. \A s \in Sections : n.known[s] \in Int /\ n.known[s] <= applied[s]
        BY <3>2, <3>4 DEF CurrentSound, RequestRows
      <4> QED
        BY <4>1, <2>3
    <3>5. ASSUME n.current, Asks(n), ~Terminal(n)
          PROVE  \/ n.snapshot.version["pdf"] >= display'.version
                 \/ n.snapshot.version["pdf"] < applied'["pdf"]
      <4>1. n.snapshot.version["pdf"] \in Nat
        BY <3>2, <3>5 DEF RequestSound, SnapSound, Rows, Sections
      <4>2. \/ n.snapshot.version["pdf"] >= display.version
            \/ n.snapshot.version["pdf"] < applied["pdf"]
        BY <3>2, <3>5 DEF CurrentSound
      <4>3. applied["pdf"] \in Int /\ applied'["pdf"] \in Int /\ applied["pdf"] <= applied'["pdf"]
        BY <2>3 DEF Sections
      <4>4. CASE display' = display
        BY <4>1, <4>2, <4>3, <4>4
      <4>5. CASE display'.version = applied'["pdf"]
        BY <4>1, <4>3, <4>5
      <4> QED
        BY <4>4, <4>5, <2>4
    <3>6. CurrentSound(n)'
      BY <3>2, <3>4, <3>5, <2>2, <1>3 DEF CurrentSound
    <3> QED
      BY <2>1, <3>1, <3>3, <3>6
  <2>6. RequestsSound'
    BY <1>2, <2>1, <2>5 DEF RequestsSound
  <2>7. SentSound'
    BY <1>2, <1>3, <2>1, EndedSent
  <2> QED
    BY <2>6, <2>7
<1> QED
  BY <1>4, <1>5

\* Delivering a snapshot keeps the invariant.
LEMMA DeliverKeeps ==
    ASSUME SnapshotInv, NEW r \in Requests, Deliver(r)
    PROVE  SnapshotInv'
<1>1. CASE ~requests[r].current
  BY <1>1, StaleDeliverKeeps
<1>2. CASE requests[r].current
  <2>1. PICK q : q = requests[r]
    OBVIOUS
  <2>2. q.current
    BY <1>2, <2>1
  <2>3. RequestsSound' /\ SentSound' /\ DisplaySound' /\ ContentSound' /\ OpsSound'
    BY <2>1, <2>2, DeliverRequests, DeliverDisplay, DeliverContent
  <2>4. PICK row : row = server[session.lecture]
    OBVIOUS
  <2>5. PICK v : v = q.snapshot.version
    OBVIOUS
  <2>6. /\ session' \in Sessions /\ session'.lecture = session.lecture /\ session' # NoSession
        /\ Closes(q) => session'.status = "closed" /\ ~Open(session.lecture)
        /\ ~Closes(q) => session' = session
    BY <2>1, <2>2, DeliverSession
  <2>7. server' = server /\ live' = live /\ awake' = awake /\ archive' = archive
        /\ effectDue' = (effectDue \/ session' # session)
    BY <2>1, <2>2, DeliverParts
  <2>8. FenceSound'
    <3>1. /\ known' \in [Sections -> Int] /\ applied' \in [Sections -> Int]
          /\ \A s \in Sections : NoVersion <= known'[s] /\ known'[s] <= applied'[s]
                                 /\ applied'[s] <= row.version[s]
      BY <2>1, <2>2, <2>4, <2>5, DeliverVersions
    <3>2. applied'["pdf"] <= display'.version
      BY <2>1, <2>2, DeliverDisplay
    <3>3. applied'["comments"] = row.version["comments"] =>
                 Newest(row.visible, CommentLimit) \subseteq Ids(comments')
      BY <2>1, <2>2, <2>4, DeliverContent
    <3>4. server'[session'.lecture] = row
      BY <2>4, <2>6, <2>7
    <3> QED
      BY <2>6, <3>1, <3>2, <3>3, <3>4 DEF FenceSound
  <2>9. SceneSound'
    <3>1. SceneSound
      BY DEF SnapshotInv
    <3>2. session'.status = "closed" => ~Open(session.lecture)'
      <4>1. CASE Closes(q)
        BY <4>1, <2>6, <2>7 DEF Open
      <4>2. CASE ~Closes(q)
        BY <4>2, <3>1, <2>6, <2>7 DEF Open, SceneSound
      <4> QED
        BY <4>1, <4>2
    <3>3. archive' = "asked" => session'.status = "closed"
      BY <3>1, <2>6, <2>7 DEF SceneSound
    <3> QED
      BY <3>1, <3>2, <3>3, <2>6, <2>7 DEF SceneSound
  <2>10. server' \in [Lectures -> Rows] /\ \A l \in Lectures : RowSound(server'[l], l)
    BY <2>7 DEF SnapshotInv
  <2> QED
    BY <2>3, <2>8, <2>9, <2>10 DEF SnapshotInv
<1> QED
  BY <1>1, <1>2

-----------------------------------------------------------------------------
(* The student's own comments and likes.                                      *)

\* A step of a comment or a like changes what it is and the cards, and takes no comment away.
LEMMA OpsChange ==
    ASSUME SnapshotInv, UNCHANGED <<server, scene, fence, display, archive>>,
           \A c \in CommentIds : c \in Ids(comments) => c \in Ids(comments'),
           OpsSound', ContentSound'
    PROVE  SnapshotInv'
<1> USE DEF scene, fence
<1>1. SceneSound' /\ DisplaySound' /\ SentSound'
  BY DEF SnapshotInv, SceneSound, DisplaySound, SentSound, Open
<1>2. FenceSound'
  <2>1. FenceSound
    BY DEF SnapshotInv
  <2>2. ASSUME session # NoSession
        PROVE  Newest(server[session.lecture].visible, CommentLimit) \subseteq CommentIds
    BY <2>2 DEF SnapshotInv, SceneSound, Sessions, Rows, Newest
  <2> QED
    BY <2>1, <2>2 DEF FenceSound
<1>3. ASSUME NEW r \in Requests
      PROVE  RequestSound(requests[r])' /\ CurrentSound(requests[r])'
  <2>1. PICK q : q = requests[r]
    OBVIOUS
  <2>2. RequestSound(q) /\ CurrentSound(q)
    BY <2>1 DEF SnapshotInv, RequestsSound
  <2>3. RequestSound(q)' /\ CurrentSound(q)'
    BY <2>2, SameRequest, SameCurrent
  <2> QED
    BY <2>1, <2>3
<1>4. RequestsSound'
  BY <1>3 DEF SnapshotInv, RequestsSound
<1>5. server' \in [Lectures -> Rows] /\ \A l \in Lectures : RowSound(server'[l], l)
  BY DEF SnapshotInv
<1> QED
  BY <1>1, <1>2, <1>4, <1>5 DEF SnapshotInv

\* What one comment or like may become.
OpSound(o, n) ==
    /\ n \in OpRows
    /\ n.phase \notin {"idle", "done"} => n.lecture \in Lectures
    /\ n.phase \notin {"idle", "done"} /\ n.current => n.lecture = session.lecture
    /\ o \in Posts /\ n.phase = "saved" => n.comment \in CommentIds /\ n.comment[1] = n.lecture
    /\ o \in Likes /\ n.phase \in {"sent", "saved"} => n.comment \in CommentIds
OpOnward(n, old) ==
    /\ n.phase # "idle"
    /\ old.phase \in {"refresh", "read", "done"} => n.phase \in {"refresh", "read", "done"}

\* Every comment and like is sound.
LEMMA OpIs ==
    ASSUME SnapshotInv, NEW o \in Ops
    PROVE  OpSound(o, ops[o]) /\ ops \in [Ops -> OpRows]
BY DEF SnapshotInv, OpsSound, OpSound, Ops

\* They stay so when one becomes something sound.
LEMMA OneOp ==
    ASSUME SnapshotInv, session' = session, NEW o \in Ops, NEW n, OpSound(o, n),
           ops' = [ops EXCEPT ![o] = n]
    PROVE  OpsSound'
<1>1. ops \in [Ops -> OpRows] /\ \A x \in Ops : OpSound(x, ops[x])
  BY OpIs
<1>2. n \in OpRows
  BY DEF OpSound
<1>3. ops' \in [Ops -> OpRows]
  BY <1>1, <1>2
<1>4. \A x \in Ops : OpSound(x, ops'[x])
  BY <1>1
<1> QED
  BY <1>3, <1>4 DEF OpsSound, OpSound, Ops

\* Comments once begun and likes once spent remain so.
LEMMA OpCounts ==
    ASSUME SnapshotInv, NEW o \in Ops, NEW n, OpOnward(n, ops[o]),
           ops' = [ops EXCEPT ![o] = n]
    PROVE  /\ Begun \subseteq Begun' /\ Spent \subseteq Spent'
           /\ o \in Posts => o \in Begun'
           /\ Cardinality(Spent) \in Nat /\ Cardinality(Spent') \in Nat
           /\ Cardinality(Spent) <= Cardinality(Spent')
           /\ o \in Likes /\ o \notin Spent /\ n.phase = "refresh" =>
                 Cardinality(Spent') = Cardinality(Spent) + 1
<1>1. ops \in [Ops -> OpRows]
  BY OpIs
<1>2. ops'[o] = n /\ \A x \in Ops : x # o => ops'[x] = ops[x]
  BY <1>1
<1>3. Posts \subseteq Ops /\ Likes \subseteq Ops
  BY DEF Ops
<1>4. Begun \subseteq Begun' /\ Spent \subseteq Spent' /\ (o \in Posts => o \in Begun')
  BY <1>2, <1>3 DEF Begun, Spent, OpOnward
<1>5. PICK before : before = Spent
  OBVIOUS
<1>6. PICK after : after = Spent'
  OBVIOUS
<1>7. IsFiniteSet(before) /\ IsFiniteSet(after) /\ before \subseteq after
  BY <1>4, <1>5, <1>6, SnapshotAssumption, FS_Subset DEF Spent
<1>8. Cardinality(before) \in Nat /\ Cardinality(after) \in Nat
      /\ Cardinality(before) <= Cardinality(after)
  BY <1>7, FS_Subset, FS_CardinalityType
<1>9. ASSUME o \in Likes, o \notin before, n.phase = "refresh"
      PROVE  Cardinality(after) = Cardinality(before) + 1
  <2>1. after = before \cup {o}
    BY <1>2, <1>3, <1>5, <1>6, <1>9 DEF Spent
  <2> QED
    BY <2>1, <1>7, <1>9, FS_AddElement
<1> QED
  BY <1>4, <1>5, <1>6, <1>8, <1>9

\* The cards are as sound after a comment or like moved on as they were before.
LEMMA ContentGrows ==
    ASSUME SnapshotInv, NEW o \in Ops, NEW n, OpOnward(n, ops[o]), ops' = [ops EXCEPT ![o] = n],
           NEW l, l = session.lecture, NEW old, old = comments,
           NEW more, more = Begun', NEW most, most = MaxComment + Cardinality(Spent')
    PROVE  most \in Nat /\ CardsSound(old, l, more, most)
<1>1. PICK begun : begun = Begun
  OBVIOUS
<1>2. PICK few \in Nat : few = MaxComment + Cardinality(Spent)
  BY MostLikes
<1>3. begun \subseteq more /\ most \in Nat /\ few <= most
  <2>1. Begun \subseteq Begun' /\ Cardinality(Spent) \in Nat /\ Cardinality(Spent') \in Nat
        /\ Cardinality(Spent) <= Cardinality(Spent')
    BY OpCounts
  <2>2. PICK a \in Nat : a = Cardinality(Spent)
    BY <2>1
  <2>3. PICK b \in Nat : b = Cardinality(Spent')
    BY <2>1
  <2> QED
    BY <1>1, <1>2, <2>1, <2>2, <2>3, MostChanges
<1>4. CardsSound(old, l, begun, few)
  BY <1>1, <1>2 DEF SnapshotInv, ContentSound
<1> QED
  BY <1>2, <1>3, <1>4, FewerCards

\* Fewer cards after a step of a comment or a like.
LEMMA FewerContent ==
    ASSUME SnapshotInv, session' = session, NEW o \in Ops, NEW n, OpOnward(n, ops[o]),
           ops' = [ops EXCEPT ![o] = n], NEW cards, cards = comments', cards \subseteq comments,
           liked' \subseteq CommentIds
    PROVE  ContentSound'
<1>1. PICK l : l = session.lecture
  OBVIOUS
<1>2. PICK more : more = Begun'
  OBVIOUS
<1>3. PICK most : most = MaxComment + Cardinality(Spent')
  OBVIOUS
<1>4. PICK old : old = comments
  OBVIOUS
<1>5. CardsSound(old, l, more, most)
  BY <1>1, <1>2, <1>3, <1>4, ContentGrows
<1>6. CardsSound(cards, l, more, most)
  BY <1>4, <1>5 DEF CardsSound
<1>7. session.status = "closed" => Pending(cards) = {}
  BY DEF SnapshotInv, ContentSound, Pending
<1> QED
  BY <1>1, <1>2, <1>3, <1>6, <1>7 DEF ContentSound

\* A comment or like that is done.
LEMMA DoneOp ==
    ASSUME NEW o \in Ops, NEW n, n = [NoOp EXCEPT !.phase = "done"], NEW old
    PROVE  OpSound(o, n) /\ OpOnward(n, old)
<1>1. NoOp \in OpRows
  BY DEF NoOp, OpRows, Phases
<1>2. n \in OpRows /\ n.phase = "done"
  BY <1>1 DEF OpRows, Phases
<1> QED
  BY <1>2 DEF OpSound, OpOnward

\* The first step of a comment or like, in the lecture that is joined.
LEMMA BegunOp ==
    ASSUME SnapshotInv, session # NoSession, NEW o \in Ops, ops[o].phase = "idle",
           NEW c \in CommentIds \cup {<<>>}, o \in Likes => c \in CommentIds,
           NEW n, n = [phase |-> "sent", lecture |-> session.lecture, current |-> TRUE,
                       comment |-> c, liked |-> {}]
    PROVE  OpSound(o, n) /\ OpOnward(n, ops[o])
<1>1. session.lecture \in Lectures
  BY DEF SnapshotInv, SceneSound, Sessions
<1>2. n \in OpRows /\ n.phase = "sent" /\ n.lecture = session.lecture /\ n.comment = c
  BY <1>1 DEF OpRows, Phases
<1> QED
  BY <1>1, <1>2 DEF OpSound, OpOnward

\* What the student's comment or like does to the database is forward, too.
LEMMA InsertKeeps ==
    ASSUME SnapshotInv, ServerForward, UNCHANGED <<scene, fence, shown>>,
           NEW o \in Ops, NEW n, OpSound(o, n), OpOnward(n, ops[o]),
           ops' = [ops EXCEPT ![o] = n]
    PROVE  SnapshotInv'
<1>1. /\ \A l \in Lectures : RowSound(server'[l], l)
      /\ server' \in [Lectures -> Rows]
      /\ SceneSound' /\ FenceSound' /\ DisplaySound' /\ RequestsSound' /\ SentSound'
  BY ForwardKeeps
<1>2. OpsSound'
  BY OneOp DEF scene
<1>3. PICK cards : cards = comments'
  OBVIOUS
<1>4. cards \subseteq comments /\ liked' \subseteq CommentIds /\ session' = session
  BY <1>3 DEF scene, shown, SnapshotInv, ContentSound
<1>5. ContentSound'
  BY <1>3, <1>4, FewerContent
<1> QED
  BY <1>1, <1>2, <1>5 DEF SnapshotInv

\* The insert of a comment, ...
LEMMA InsertCommentKeeps ==
    ASSUME SnapshotInv, NEW p \in Posts, InsertComment(p)
    PROVE  SnapshotInv'
<1>1. PICK l : l = ops[p].lecture
  OBVIOUS
<1>2. /\ ops[p].phase = "sent" /\ MayChange(l) /\ UNCHANGED <<scene, fence, shown>>
      /\ server' = [server EXCEPT ![l] = WithComment(server[l], l)]
      /\ ops' = [ops EXCEPT ![p].phase = "saved", ![p].comment = <<l, server[l].written + 1>>]
  BY <1>1 DEF InsertComment
<1>3. p \in Ops /\ ops \in [Ops -> OpRows] /\ OpSound(p, ops[p])
  BY OpIs DEF Ops
<1>4. l \in Lectures
  BY <1>1, <1>2, <1>3 DEF OpSound
<1>5. server[l] \in Rows /\ RowSound(server[l], l)
      /\ server[l].version["lecture"] = 0 /\ Total(server[l].version) < MaxChanges[l]
  BY <1>2, <1>4, MayChangeRow DEF SnapshotInv
<1>6. PICK new : new = WithComment(server[l], l)
  OBVIOUS
<1>7. new \in Rows /\ RowSound(new, l) /\ RowForward(server[l], new)
      /\ <<l, server[l].written + 1>> \in CommentIds
  BY <1>4, <1>5, <1>6, CommentRow
<1>8. ServerForward
  BY <1>2, <1>4, <1>6, <1>7, OneRow
<1>9. PICK c \in CommentIds : c = <<l, server[l].written + 1>> /\ c[1] = l
  BY <1>7
<1>10. PICK m : m = [ops[p] EXCEPT !.phase = "saved"]
  OBVIOUS
<1>11. m \in OpRows /\ m.phase = "saved" /\ m.lecture = l /\ m.current = ops[p].current
  BY <1>1, <1>3, <1>10 DEF OpRows, Phases
<1>12. PICK n : n = [m EXCEPT !.comment = c]
  OBVIOUS
<1>13. n \in OpRows /\ n.phase = "saved" /\ n.lecture = l /\ n.current = ops[p].current
       /\ n.comment = c
  BY <1>11, <1>12 DEF OpRows
<1>14. ops' = [ops EXCEPT ![p] = n]
  BY <1>2, <1>3, <1>9, <1>10, <1>12 DEF OpRows
<1>15. p \notin Likes
  BY SnapshotAssumption
<1>16. OpSound(p, n)
  BY <1>1, <1>2, <1>3, <1>4, <1>9, <1>13, <1>15 DEF OpSound
<1>17. OpOnward(n, ops[p])
  BY <1>2, <1>13 DEF OpOnward
<1> QED
  BY <1>2, <1>3, <1>8, <1>14, <1>16, <1>17, InsertKeeps

\* ... of a like, and the like that was there already.
LEMMA InsertLikeKeeps ==
    ASSUME SnapshotInv, NEW k \in Likes, InsertLike(k)
    PROVE  SnapshotInv'
<1>1. PICK l : l = ops[k].lecture
  OBVIOUS
<1>2. PICK c : c = ops[k].comment
  OBVIOUS
<1>3. ops[k].phase = "sent" /\ UNCHANGED <<scene, fence, shown>>
      /\ ops' = [ops EXCEPT ![k].phase = "saved"]
  BY DEF InsertLike
<1>4. k \in Ops /\ ops \in [Ops -> OpRows] /\ OpSound(k, ops[k])
  BY OpIs DEF Ops
<1>5. l \in Lectures /\ c \in CommentIds
  BY <1>1, <1>2, <1>3, <1>4 DEF OpSound
<1>6. server \in [Lectures -> Rows] /\ \A m \in Lectures : RowSound(server[m], m)
  BY DEF SnapshotInv
<1>7. ServerForward
  <2>1. CASE UNCHANGED server
    <3>1. \A m \in Lectures : RowForward(server[m], server[m])
      BY <1>6, RowStays
    <3> QED
      BY <2>1, <3>1, <1>6 DEF ServerForward
  <2>2. CASE /\ c \in server[l].visible \ server[l].mine
             /\ MayChange(l)
             /\ server' = [server EXCEPT ![l] = [WithLike(server[l], c) EXCEPT
                                                   !.mine = server[l].mine \cup {c}]]
    <3>1. RowSound(server[l], l) /\ server[l].mine \subseteq CommentIds
          /\ server[l].version["lecture"] = 0 /\ Total(server[l].version) < MaxChanges[l]
      BY <2>2, <1>5, <1>6, MayChangeRow DEF Rows
    <3>2. PICK w : w = WithLike(server[l], c)
      OBVIOUS
    <3>3. w \in Rows /\ RowSound(w, l) /\ RowForward(server[l], w)
      BY <3>1, <3>2, <1>5, LikeRow
    <3>4. PICK mine : mine = server[l].mine \cup {c}
      OBVIOUS
    <3>5. PICK n : n = [w EXCEPT !.mine = mine]
      OBVIOUS
    <3>6. mine \in SUBSET CommentIds
      BY <3>1, <3>4, <1>5
    <3>7. n \in Rows /\ n.version = w.version /\ n.written = w.written
          /\ n.visible = w.visible /\ n.likes = w.likes
      BY <3>3, <3>5, <3>6 DEF Rows
    <3>8. RowSound(n, l) /\ RowForward(server[l], n)
      BY <3>3, <3>7 DEF RowSound, RowForward
    <3>9. server' = [server EXCEPT ![l] = n]
      BY <2>2, <3>2, <3>4, <3>5
    <3> QED
      BY <1>5, <3>7, <3>8, <3>9, OneRow
  <2> QED
    BY <1>1, <1>2, <2>1, <2>2 DEF InsertLike
<1>8. PICK n : n = [ops[k] EXCEPT !.phase = "saved"]
  OBVIOUS
<1>9. /\ n \in OpRows /\ n.phase = "saved" /\ n.lecture = ops[k].lecture
      /\ n.current = ops[k].current /\ n.comment = ops[k].comment
      /\ ops' = [ops EXCEPT ![k] = n]
  <2>1. ops[k] \in OpRows
    BY <1>4
  <2>2. n \in OpRows /\ n.phase = "saved" /\ n.lecture = ops[k].lecture
        /\ n.current = ops[k].current /\ n.comment = ops[k].comment
    BY <2>1, <1>8 DEF OpRows, Phases
  <2> QED
    BY <2>2, <1>3, <1>4, <1>8
<1>10. k \notin Posts
  BY SnapshotAssumption
<1>11. OpSound(k, n) /\ OpOnward(n, ops[k])
  BY <1>3, <1>4, <1>9, <1>10 DEF OpSound, OpOnward
<1> QED
  BY <1>3, <1>4, <1>7, <1>9, <1>11, InsertKeeps

\* refreshParticipantLiveState reads what the student has liked.
LEMMA ReadParticipantKeeps ==
    ASSUME SnapshotInv, NEW o \in Ops, ReadParticipant(o)
    PROVE  SnapshotInv'
<1>1. /\ ops[o].phase = "refresh" /\ UNCHANGED <<server, scene, fence, shown>>
      /\ ops' = [ops EXCEPT ![o].phase = "read", ![o].liked = server[ops[o].lecture].mine]
  BY DEF ReadParticipant
<1>2. ops \in [Ops -> OpRows] /\ OpSound(o, ops[o])
  BY OpIs
<1>3. PICK mine : mine = server[ops[o].lecture].mine
  OBVIOUS
<1>4. mine \in SUBSET CommentIds
  BY <1>1, <1>2, <1>3 DEF OpSound, SnapshotInv, Rows
<1>5. PICK m : m = [ops[o] EXCEPT !.phase = "read"]
  OBVIOUS
<1>6. m \in OpRows /\ m.phase = "read" /\ m.lecture = ops[o].lecture /\ m.current = ops[o].current
  BY <1>2, <1>5 DEF OpRows, Phases
<1>7. PICK n : n = [m EXCEPT !.liked = mine]
  OBVIOUS
<1>8. n \in OpRows /\ n.phase = "read" /\ n.lecture = ops[o].lecture /\ n.current = ops[o].current
  BY <1>4, <1>6, <1>7 DEF OpRows
<1>9. ops' = [ops EXCEPT ![o] = n]
  BY <1>1, <1>2, <1>3, <1>5, <1>7 DEF OpRows
<1>10. OpSound(o, n) /\ OpOnward(n, ops[o])
  BY <1>1, <1>2, <1>8 DEF OpSound, OpOnward
<1>11. ServerForward
  <2>1. server \in [Lectures -> Rows] /\ \A l \in Lectures : RowSound(server[l], l)
    BY DEF SnapshotInv
  <2>2. \A l \in Lectures : RowForward(server[l], server[l])
    BY <2>1, RowStays
  <2> QED
    BY <1>1, <2>1, <2>2 DEF ServerForward
<1> QED
  BY <1>1, <1>9, <1>10, <1>11, InsertKeeps

\* A step of a comment or like that redraws the cards.
LEMMA OpCards ==
    ASSUME SnapshotInv, UNCHANGED <<server, scene, fence, display, archive>>,
           NEW o \in Ops, NEW n, OpSound(o, n), OpOnward(n, ops[o]),
           ops' = [ops EXCEPT ![o] = n],
           NEW l, l = session.lecture, NEW cards, cards = comments', NEW more, more = Begun',
           NEW most, most = MaxComment + Cardinality(Spent'), CardsSound(cards, l, more, most),
           session.status = "closed" => Pending(cards) = {}, liked' \subseteq CommentIds,
           \A c \in CommentIds : c \in Ids(comments) => c \in Ids(cards)
    PROVE  SnapshotInv'
<1>1. session' = session
  BY DEF scene
<1>2. OpsSound'
  BY <1>1, OneOp
<1>3. ContentSound'
  BY <1>1 DEF ContentSound
<1> QED
  BY <1>2, <1>3, OpsChange

\* ... and one that only leaves some of the student's own out.
LEMMA OpFewer ==
    ASSUME SnapshotInv, UNCHANGED <<server, scene, fence, display, archive>>,
           NEW o \in Ops, NEW n, OpSound(o, n), OpOnward(n, ops[o]),
           ops' = [ops EXCEPT ![o] = n], NEW cards, cards = comments', cards \subseteq comments,
           liked' \subseteq CommentIds,
           \A c \in CommentIds : c \in Ids(comments) => c \in Ids(cards)
    PROVE  SnapshotInv'
<1>1. session' = session
  BY DEF scene
<1>2. OpsSound'
  BY <1>1, OneOp
<1>3. ContentSound'
  BY <1>1, FewerContent
<1> QED
  BY <1>2, <1>3, OpsChange

\* A comment or like begins with its lecture, in the current epoch.
LEMMA FirstOp ==
    ASSUME NEW l, NEW c
    PROVE  /\ [NoOp EXCEPT !.phase = "sent", !.current = TRUE, !.lecture = l]
              = [phase |-> "sent", lecture |-> l, current |-> TRUE, comment |-> <<>>, liked |-> {}]
           /\ [NoOp EXCEPT !.phase = "sent", !.current = TRUE, !.lecture = l, !.comment = c]
              = [phase |-> "sent", lecture |-> l, current |-> TRUE, comment |-> c, liked |-> {}]
<1>1. NoOp = [phase |-> "idle", lecture |-> NoLecture, current |-> FALSE,
              comment |-> <<>>, liked |-> {}]
  BY DEF NoOp
<1>2. PICK m : m = [NoOp EXCEPT !.phase = "sent"]
  OBVIOUS
<1>3. PICK n : n = [m EXCEPT !.current = TRUE]
  OBVIOUS
<1>4. PICK short : short = [n EXCEPT !.lecture = l]
  OBVIOUS
<1>5. PICK long : long = [short EXCEPT !.comment = c]
  OBVIOUS
<1>6. m = [phase |-> "sent", lecture |-> NoLecture, current |-> FALSE,
           comment |-> <<>>, liked |-> {}]
  BY <1>1, <1>2
<1>7. n = [phase |-> "sent", lecture |-> NoLecture, current |-> TRUE,
           comment |-> <<>>, liked |-> {}]
  BY <1>3, <1>6
<1>8. short = [phase |-> "sent", lecture |-> l, current |-> TRUE,
               comment |-> <<>>, liked |-> {}]
  BY <1>4, <1>7
<1>9. long = [phase |-> "sent", lecture |-> l, current |-> TRUE, comment |-> c, liked |-> {}]
  BY <1>5, <1>8
<1>10. short = [NoOp EXCEPT !.phase = "sent", !.current = TRUE, !.lecture = l]
  BY <1>1, <1>2, <1>3, <1>4
<1>11. long = [NoOp EXCEPT !.phase = "sent", !.current = TRUE, !.lecture = l, !.comment = c]
  BY <1>1, <1>2, <1>3, <1>4, <1>5
<1> QED
  BY <1>8, <1>9, <1>10, <1>11

\* addComment shows a pending card of its own.
LEMMA AddCommentKeeps ==
    ASSUME SnapshotInv, NEW p \in Posts, AddComment(p)
    PROVE  SnapshotInv'
<1>1. /\ ops[p].phase = "idle" /\ UNCHANGED <<server, scene, fence, display, liked, archive>>
      /\ session.status = "open"
  BY DEF AddComment, CanRunLiveSync
<1>2. p \in Ops /\ p \notin Likes /\ p \notin CommentIds /\ session # NoSession
  BY <1>1, SnapshotAssumption, IdAssumption DEF Ops, NoSession
<1>3. PICK n : n = [phase |-> "sent", lecture |-> session.lecture, current |-> TRUE,
                    comment |-> <<>>, liked |-> {}]
  OBVIOUS
<1>4. OpSound(p, n) /\ OpOnward(n, ops[p])
  BY <1>1, <1>2, <1>3, BegunOp
<1>5. ops' = [ops EXCEPT ![p] = n]
  <2>1. PICK m : m = [NoOp EXCEPT !.phase = "sent", !.current = TRUE, !.lecture = session.lecture]
    OBVIOUS
  <2>2. ops' = [ops EXCEPT ![p] = m]
    BY <2>1 DEF AddComment
  <2>3. m = n
    BY <2>1, <1>3, FirstOp
  <2> QED
    BY <2>2, <2>3
<1>6. PICK l : l = session.lecture
  OBVIOUS
<1>7. PICK old : old = comments
  OBVIOUS
<1>8. PICK cards : cards = comments'
  OBVIOUS
<1>9. PICK more : more = Begun'
  OBVIOUS
<1>10. PICK most : most = MaxComment + Cardinality(Spent')
  OBVIOUS
<1>11. most \in Nat /\ CardsSound(old, l, more, most)
  BY <1>2, <1>4, <1>5, <1>6, <1>7, <1>9, <1>10, ContentGrows
<1>12. p \in more
  BY <1>2, <1>4, <1>5, <1>9, OpCounts
<1>13. PICK card : card = PendingCard(p)
  OBVIOUS
<1>14. card.id = p /\ CardSound(card, l, more, most)
  <2>1. card = [id |-> p, pending |-> TRUE, likes |-> 0, mine |-> FALSE]
    BY <1>13 DEF PendingCard
  <2> QED
    BY <2>1, <1>11, <1>12 DEF CardSound
<1>15. cards = old \cup {card}
  BY <1>7, <1>8, <1>13 DEF AddComment
<1>16. ASSUME NEW a \in old
       PROVE  a.id # p
  <2>1. PICK begun : begun = Begun
    OBVIOUS
  <2>2. PICK few : few = MaxComment + Cardinality(Spent)
    OBVIOUS
  <2>3. CardSound(a, l, begun, few)
    BY <1>6, <1>7, <2>1, <2>2 DEF SnapshotInv, ContentSound, CardsSound
  <2>4. p \notin begun
    BY <1>1, <2>1 DEF Begun
  <2> QED
    BY <2>3, <2>4, <1>2 DEF CardSound
<1>17. CardsSound(cards, l, more, most)
  BY <1>11, <1>14, <1>15, <1>16 DEF CardsSound
<1>18. \A c \in CommentIds : c \in Ids(comments) => c \in Ids(cards)
  BY <1>7, <1>15 DEF Ids
<1>19. liked' \subseteq CommentIds
  BY <1>1 DEF SnapshotInv, ContentSound
<1>20. session.status = "closed" => Pending(cards) = {}
  BY <1>1
<1> QED
  BY <1>1, <1>2, <1>4, <1>5, <1>6, <1>8, <1>9, <1>10, <1>17, <1>18, <1>19, <1>20, OpCards

\* toggleCommentLike sends the like of a card that is not pending.
LEMMA AddLikeKeeps ==
    ASSUME SnapshotInv, NEW k \in Likes, AddLike(k)
    PROVE  SnapshotInv'
<1>1. /\ ops[k].phase = "idle" /\ UNCHANGED <<server, scene, fence, shown>>
      /\ session.status = "open"
  BY DEF AddLike, CanRunLiveSync
<1>2. k \in Ops /\ session # NoSession
  BY <1>1 DEF Ops, NoSession
<1>3. PICK card \in comments \ Pending(comments) :
          ops' = [ops EXCEPT ![k] = [NoOp EXCEPT !.phase = "sent", !.current = TRUE,
                                                 !.lecture = session.lecture,
                                                 !.comment = card.id]]
  BY DEF AddLike
<1>4. card.id \in CommentIds
  <2>1. PICK l : l = session.lecture
    OBVIOUS
  <2>2. PICK begun : begun = Begun
    OBVIOUS
  <2>3. PICK few : few = MaxComment + Cardinality(Spent)
    OBVIOUS
  <2>4. CardSound(card, l, begun, few) /\ ~card.pending
    BY <1>3, <2>1, <2>2, <2>3 DEF SnapshotInv, ContentSound, CardsSound, Pending
  <2> QED
    BY <2>4 DEF CardSound
<1>5. PICK c : c = card.id
  OBVIOUS
<1>6. PICK n : n = [phase |-> "sent", lecture |-> session.lecture, current |-> TRUE,
                    comment |-> c, liked |-> {}]
  OBVIOUS
<1>7. OpSound(k, n) /\ OpOnward(n, ops[k])
  BY <1>1, <1>2, <1>4, <1>5, <1>6, BegunOp
<1>8. ops' = [ops EXCEPT ![k] = n]
  <2>1. PICK m : m = [NoOp EXCEPT !.phase = "sent", !.current = TRUE,
                                  !.lecture = session.lecture, !.comment = c]
    OBVIOUS
  <2>2. ops' = [ops EXCEPT ![k] = m]
    BY <2>1, <1>3, <1>5
  <2>3. m = n
    BY <2>1, <1>6, FirstOp
  <2> QED
    BY <2>2, <2>3
<1>9. PICK cards : cards = comments'
  OBVIOUS
<1>10. cards = comments /\ liked' \subseteq CommentIds
  BY <1>1, <1>9 DEF shown, SnapshotInv, ContentSound
<1>11. UNCHANGED <<server, scene, fence, display, archive>>
  BY <1>1 DEF shown
<1> QED
  BY <1>2, <1>7, <1>8, <1>9, <1>10, <1>11, OpFewer

\* The answer to a comment settles its card, or is dropped in a later epoch.
LEMMA CommentAnsweredKeeps ==
    ASSUME SnapshotInv, NEW p \in Posts, CommentAnswered(p)
    PROVE  SnapshotInv'
<1>1. ops[p].phase = "saved" /\ UNCHANGED <<server, scene, fence, display, liked, archive>>
  BY DEF CommentAnswered
<1>2. p \in Ops /\ OpSound(p, ops[p]) /\ ops \in [Ops -> OpRows] /\ p \notin CommentIds
      /\ p \notin Likes
  BY OpIs, IdAssumption, SnapshotAssumption DEF Ops
<1>3. liked' \subseteq CommentIds
  BY <1>1 DEF SnapshotInv, ContentSound
<1>4. PICK cards : cards = comments'
  OBVIOUS
<1>5. CASE ~ops[p].current
  <2>1. PICK n : n = [NoOp EXCEPT !.phase = "done"]
    OBVIOUS
  <2>2. ops' = [ops EXCEPT ![p] = n] /\ cards = comments
    BY <2>1, <1>4, <1>5 DEF CommentAnswered
  <2>3. OpSound(p, n) /\ OpOnward(n, ops[p])
    BY <2>1, <1>2, DoneOp
  <2> QED
    BY <2>2, <2>3, <1>1, <1>2, <1>3, <1>4, OpFewer
<1>6. CASE ops[p].current
  <2>1. PICK c : c = ops[p].comment
    OBVIOUS
  <2>2. PICK n : n = [ops[p] EXCEPT !.phase = "refresh"]
    OBVIOUS
  <2>3. n \in OpRows /\ n.phase = "refresh" /\ n.lecture = ops[p].lecture
        /\ n.current = ops[p].current
    BY <2>2, <1>2 DEF OpRows, Phases
  <2>4. ops' = [ops EXCEPT ![p] = n]
    <3>1. ops' = [ops EXCEPT ![p].phase = "refresh"]
      BY <1>6 DEF CommentAnswered
    <3> QED
      BY <3>1, <2>2
  <2>5. OpSound(p, n) /\ OpOnward(n, ops[p])
    BY <2>3, <1>1, <1>2 DEF OpSound, OpOnward
  <2>6. PICK l : l = session.lecture
    OBVIOUS
  <2>7. c \in CommentIds /\ c[1] = l
    BY <2>1, <2>6, <1>1, <1>2, <1>6 DEF OpSound
  <2>8. PICK old : old = comments
    OBVIOUS
  <2>9. PICK more : more = Begun'
    OBVIOUS
  <2>10. PICK most : most = MaxComment + Cardinality(Spent')
    OBVIOUS
  <2>11. most \in Nat /\ CardsSound(old, l, more, most)
    BY <2>4, <2>5, <2>6, <2>8, <2>9, <2>10, <1>2, ContentGrows
  <2>12. PICK card : card = Card(c, 0, FALSE)
    OBVIOUS
  <2>13. card.id = c /\ ~card.pending /\ CardSound(card, l, more, most)
    <3>1. card = [id |-> c, pending |-> FALSE, likes |-> 0, mine |-> FALSE]
      BY <2>12 DEF Card
    <3> QED
      BY <3>1, <2>7, <2>11 DEF CardSound
  <2>14. cards = {x \in old : x.id \notin {p, c}} \cup {card}
    BY <2>1, <2>8, <2>12, <1>4, <1>6 DEF CommentAnswered, Settled
  <2>15. \A x \in cards : x = card \/ (x \in old /\ x.id # c)
    BY <2>14
  <2>16. CardsSound(cards, l, more, most)
    BY <2>11, <2>13, <2>15 DEF CardsSound
  <2>17. session.status = "closed" => Pending(cards) = {}
    <3>1. session.status = "closed" => Pending(old) = {}
      BY <2>8 DEF SnapshotInv, ContentSound
    <3> QED
      BY <3>1, <2>13, <2>15 DEF Pending
  <2>18. ASSUME NEW d \in CommentIds, d \in Ids(comments)
         PROVE  d \in Ids(cards)
    <3>1. PICK x \in old : x.id = d
      BY <2>18, <2>8 DEF Ids
    <3>2. CASE d = c
      BY <3>2, <2>13, <2>14 DEF Ids
    <3>3. CASE d # c
      <4>1. x \in cards
        BY <3>1, <3>3, <2>14, <2>18, <1>2
      <4> QED
        BY <3>1, <4>1 DEF Ids
    <3> QED
      BY <3>2, <3>3
  <2> QED
    BY <2>4, <2>5, <2>6, <2>9, <2>10, <2>16, <2>17, <2>18, <1>1, <1>2, <1>3, <1>4, OpCards
<1> QED
  BY <1>5, <1>6

\* The answer to a like marks its card and counts it, or is dropped in a later epoch.
LEMMA LikeAnsweredKeeps ==
    ASSUME SnapshotInv, NEW k \in Likes, LikeAnswered(k)
    PROVE  SnapshotInv'
<1>1. ops[k].phase = "saved" /\ UNCHANGED <<server, scene, fence, display, archive>>
  BY DEF LikeAnswered
<1>2. k \in Ops /\ OpSound(k, ops[k]) /\ ops \in [Ops -> OpRows] /\ k \notin Posts
  BY OpIs, SnapshotAssumption DEF Ops
<1>3. PICK c : c = ops[k].comment
  OBVIOUS
<1>4. c \in CommentIds
  BY <1>1, <1>2, <1>3 DEF OpSound
<1>5. liked' \subseteq CommentIds
  <2>1. liked' = liked \/ liked' = liked \cup {c}
    BY <1>3 DEF LikeAnswered
  <2> QED
    BY <2>1, <1>4 DEF SnapshotInv, ContentSound
<1>6. PICK cards : cards = comments'
  OBVIOUS
<1>7. CASE ~ops[k].current
  <2>1. PICK n : n = [NoOp EXCEPT !.phase = "done"]
    OBVIOUS
  <2>2. ops' = [ops EXCEPT ![k] = n] /\ cards = comments
    BY <2>1, <1>6, <1>7 DEF LikeAnswered
  <2>3. OpSound(k, n) /\ OpOnward(n, ops[k])
    BY <2>1, <1>2, DoneOp
  <2> QED
    BY <2>2, <2>3, <1>1, <1>2, <1>5, <1>6, OpFewer
<1>8. CASE ops[k].current
  <2>1. PICK n : n = [ops[k] EXCEPT !.phase = "refresh"]
    OBVIOUS
  <2>2. n \in OpRows /\ n.phase = "refresh" /\ n.lecture = ops[k].lecture
        /\ n.current = ops[k].current
    BY <2>1, <1>2 DEF OpRows, Phases
  <2>3. ops' = [ops EXCEPT ![k] = n]
    <3>1. ops' = [ops EXCEPT ![k].phase = "refresh"]
      BY <1>8 DEF LikeAnswered
    <3> QED
      BY <3>1, <2>1
  <2>4. OpSound(k, n) /\ OpOnward(n, ops[k])
    BY <2>2, <1>1, <1>2 DEF OpSound, OpOnward
  <2>5. PICK l : l = session.lecture
    OBVIOUS
  <2>6. PICK old : old = comments
    OBVIOUS
  <2>7. PICK begun : begun = Begun
    OBVIOUS
  <2>8. PICK few \in Nat : few = MaxComment + Cardinality(Spent)
    BY MostLikes
  <2>9. PICK more : more = Begun'
    OBVIOUS
  <2>10. PICK most : most = MaxComment + Cardinality(Spent')
    OBVIOUS
  <2>11. most = few + 1 /\ begun \subseteq more
    <3>1. k \notin Spent
      BY <1>1 DEF Spent
    <3>2. Cardinality(Spent') = Cardinality(Spent) + 1
      BY <3>1, <2>2, <2>3, <2>4, <1>2, OpCounts
    <3>3. Begun \subseteq Begun'
      BY <2>3, <2>4, <1>2, OpCounts
    <3>4. Cardinality(Spent) \in Nat /\ MaxComment \in Nat
      BY MostLikes, MostChanges
    <3> QED
      BY <3>2, <3>3, <3>4, <2>7, <2>8, <2>9, <2>10
  <2>12. CardsSound(old, l, begun, few)
    BY <2>5, <2>6, <2>7, <2>8 DEF SnapshotInv, ContentSound
  <2>13. CardsSound(old, l, more, few)
    BY <2>8, <2>11, <2>12, FewerCards
  <2>14. PICK f : f = [card \in old |-> IF card.id = c /\ ~card.mine
                                        THEN [card EXCEPT !.mine = TRUE, !.likes = @ + 1]
                                        ELSE card]
    OBVIOUS
  <2>15. ASSUME NEW card \in old
         PROVE  /\ f[card] \in CardRows /\ f[card].id = card.id
                /\ f[card].pending = card.pending /\ f[card].likes <= most
    <3>1. card \in CardRows /\ card.likes <= few /\ card.likes \in Nat
      BY <2>12 DEF CardsSound, CardSound, CardRows
    <3>2. CASE ~(card.id = c /\ ~card.mine)
      <4>1. f[card] = card
        BY <3>2, <2>14
      <4>2. card.likes <= most
        BY <3>1, <2>8, <2>11
      <4> QED
        BY <4>1, <4>2, <3>1
    <3>3. CASE card.id = c /\ ~card.mine
      <4>1. PICK m : m = [card EXCEPT !.mine = TRUE]
        OBVIOUS
      <4>2. PICK n1 : n1 = card.likes + 1
        OBVIOUS
      <4>3. n1 \in Nat /\ n1 <= most
        BY <4>2, <3>1, <2>8, <2>11
      <4>4. m \in CardRows /\ m.id = card.id /\ m.pending = card.pending
            /\ m.likes = card.likes
        BY <4>1, <3>1 DEF CardRows
      <4>5. PICK d : d = [m EXCEPT !.likes = n1]
        OBVIOUS
      <4>6. d \in CardRows /\ d.id = card.id /\ d.pending = card.pending /\ d.likes = n1
        BY <4>3, <4>4, <4>5 DEF CardRows
      <4>7. d = [card EXCEPT !.mine = TRUE, !.likes = card.likes + 1]
        BY <4>1, <4>2, <4>5, <3>1 DEF CardRows
      <4>8. f[card] = d
        BY <4>7, <3>3, <2>14
      <4> QED
        BY <4>3, <4>6, <4>8
    <3> QED
      BY <3>2, <3>3
  <2>16. Redrawn(cards, old, f, most)
    <3>1. cards = {IF card.id = c /\ ~card.mine
                   THEN [card EXCEPT !.mine = TRUE, !.likes = @ + 1]
                   ELSE card : card \in old}
      BY <2>6, <1>3, <1>6, <1>8 DEF LikeAnswered
    <3>2. \A card \in old : f[card] = IF card.id = c /\ ~card.mine
                                      THEN [card EXCEPT !.mine = TRUE, !.likes = @ + 1]
                                      ELSE card
      BY <2>14
    <3>3. cards = {f[card] : card \in old}
      BY <3>1, <3>2
    <3> QED
      BY <3>3, <2>15 DEF Redrawn
  <2>17. CardsSound(cards, l, more, most) /\ Ids(cards) = Ids(old)
    BY <2>13, <2>16, RedrawnSound
  <2>18. session.status = "closed" => Pending(cards) = {}
    <3>1. ASSUME session.status = "closed"
          PROVE  Pending(old) = {}
      BY <3>1, <2>6 DEF SnapshotInv, ContentSound
    <3>2. Pending(old) = {} => Pending(cards) = {}
      BY <2>16, RedrawnPending
    <3> QED
      BY <3>1, <3>2
  <2>19. \A d \in CommentIds : d \in Ids(comments) => d \in Ids(cards)
    BY <2>6, <2>17
  <2> QED
    BY <2>3, <2>4, <2>5, <2>9, <2>10, <2>17, <2>18, <2>19, <1>1, <1>2, <1>5, <1>6, OpCards
<1> QED
  BY <1>7, <1>8

\* A refused or unanswered comment takes its pending card away.
LEMMA OpFailsKeeps ==
    ASSUME SnapshotInv, NEW o \in Ops, OpFails(o)
    PROVE  SnapshotInv'
<1>1. UNCHANGED <<server, scene, fence, display, liked, archive>>
  BY DEF OpFails
<1>2. PICK cards : cards = comments'
  OBVIOUS
<1>3. cards = {card \in comments : card.id # o}
  BY <1>2 DEF OpFails
<1>4. PICK n : n = [NoOp EXCEPT !.phase = "done"]
  OBVIOUS
<1>5. ops' = [ops EXCEPT ![o] = n] /\ OpSound(o, n) /\ OpOnward(n, ops[o])
  BY <1>4, DoneOp DEF OpFails
<1>6. ASSUME NEW c \in CommentIds, c \in Ids(comments)
      PROVE  c \in Ids(cards)
  <2>1. PICK card \in comments : card.id = c
    BY <1>6 DEF Ids
  <2>2. c # o
    BY <1>6, IdAssumption
  <2>3. card \in cards
    BY <2>1, <2>2, <1>3
  <2> QED
    BY <2>1, <2>3 DEF Ids
<1>7. liked' \subseteq CommentIds /\ cards \subseteq comments
  BY <1>1, <1>3 DEF SnapshotInv, ContentSound
<1> QED
  BY <1>1, <1>2, <1>5, <1>6, <1>7, OpFewer

\* The likes that were read are marked on the cards, whatever they are by now.
LEMMA ApplyParticipantKeeps ==
    ASSUME SnapshotInv, NEW o \in Ops, ApplyParticipant(o)
    PROVE  SnapshotInv'
<1>1. UNCHANGED <<server, scene, fence, display, archive>>
  BY DEF ApplyParticipant
<1>2. PICK ids : ids = ops[o].liked
  OBVIOUS
<1>3. ids \subseteq CommentIds
  BY <1>2, OpIs DEF OpRows
<1>4. PICK old : old = comments
  OBVIOUS
<1>5. PICK cards : cards = comments'
  OBVIOUS
<1>6. cards = MarkMine(old, ids) /\ liked' = ids
  BY <1>2, <1>4, <1>5 DEF ApplyParticipant
<1>7. PICK n : n = [NoOp EXCEPT !.phase = "done"]
  OBVIOUS
<1>8. ops' = [ops EXCEPT ![o] = n] /\ OpSound(o, n) /\ OpOnward(n, ops[o])
  BY <1>7, DoneOp DEF ApplyParticipant
<1>9. PICK l : l = session.lecture
  OBVIOUS
<1>10. PICK more : more = Begun'
  OBVIOUS
<1>11. PICK most : most = MaxComment + Cardinality(Spent')
  OBVIOUS
<1>12. CardsSound(old, l, more, most)
  BY <1>4, <1>8, <1>9, <1>10, <1>11, ContentGrows
<1>13. /\ CardsSound(cards, l, more, most) /\ Ids(cards) = Ids(old)
       /\ Pending(old) = {} => Pending(cards) = {}
  BY <1>6, <1>12, MarkMineSound
<1>14. session.status = "closed" => Pending(cards) = {}
  <2>1. ASSUME session.status = "closed"
        PROVE  Pending(old) = {}
    BY <2>1, <1>4 DEF SnapshotInv, ContentSound
  <2> QED
    BY <2>1, <1>13
<1>15. \A d \in CommentIds : d \in Ids(comments) => d \in Ids(cards)
  BY <1>4, <1>13
<1>16. liked' \subseteq CommentIds
  BY <1>3, <1>6
<1> QED
  BY <1>1, <1>5, <1>8, <1>9, <1>10, <1>11, <1>13, <1>14, <1>15, <1>16, OpCards

-----------------------------------------------------------------------------
(* The theorems.                                                              *)

\* The page loads with nothing shown and a lecture nothing was asked of.
LEMMA InitEstablishes ==
    ASSUME SnapshotInit
    PROVE  SnapshotInv
<1>1. PICK v : v = [s \in Sections |-> 0]
  OBVIOUS
<1>2. PICK none : none = [c \in CommentIds |-> 0]
  OBVIOUS
<1>3. PICK row : row = [version |-> v, written |-> 0, visible |-> {}, likes |-> none, mine |-> {}]
  OBVIOUS
<1>4. v \in [Sections -> Nat] /\ (\A s \in Sections : v[s] = 0)
      /\ none \in [CommentIds -> Nat] /\ \A c \in CommentIds : none[c] = 0
  BY <1>1, <1>2
<1>5. row \in Rows /\ row.version = v /\ row.written = 0 /\ row.visible = {} /\ row.likes = none
  BY <1>3, <1>4 DEF Rows
<1>6. server = [l \in Lectures |-> row]
  BY <1>1, <1>2, <1>3 DEF SnapshotInit
<1>7. server \in [Lectures -> Rows] /\ \A l \in Lectures : server[l] = row
  BY <1>5, <1>6
<1>8. ASSUME NEW l \in Lectures
      PROVE  RowSound(row, l)
  <2>1. Total(v) = 0
    BY <1>4 DEF Total, Sections
  <2>2. MaxChanges[l] \in Nat
    BY SnapshotAssumption
  <2>3. v["lecture"] = 0 /\ v["comments"] = 0 /\ v["likes"] = 0
    BY <1>4 DEF Sections
  <2> QED
    BY <2>1, <2>2, <2>3, <1>4, <1>5 DEF RowSound
<1>9. SceneSound
  BY DEF SnapshotInit, SceneSound, Sessions, NoSession
<1>10. FenceSound
  <2>1. known = NullVersions /\ applied = NullVersions /\ display = NoDisplay
    BY DEF SnapshotInit
  <2>2. NullVersions \in [Sections -> Int] /\ \A s \in Sections : NullVersions[s] = -1
    BY DEF NullVersions, NoVersion
  <2>3. NoDisplay.version = -1
    BY DEF NoDisplay, NoVersion
  <2>4. ASSUME session # NoSession
        PROVE  /\ \A s \in Sections : NullVersions[s] <= server[session.lecture].version[s]
               /\ NullVersions["comments"] # server[session.lecture].version["comments"]
    <3>1. session.lecture \in Lectures
      BY <2>4, <1>9 DEF SceneSound, Sessions
    <3> QED
      BY <3>1, <2>2, <1>4, <1>5, <1>7 DEF Sections
  <2> QED
    BY <2>1, <2>2, <2>3, <2>4 DEF FenceSound, Sections, NoVersion
<1>11. DisplaySound
  BY DEF SnapshotInit, DisplaySound
<1>12. RequestsSound
  BY FreeSound DEF SnapshotInit, RequestsSound
<1>13. SentSound
  BY DEF SnapshotInit, SentSound
<1>14. OpsSound
  <2>1. NoOp \in OpRows /\ NoOp.phase = "idle"
    BY DEF NoOp, OpRows, Phases
  <2>2. ops = [o \in Ops |-> NoOp] /\ Posts \subseteq Ops /\ Likes \subseteq Ops
    BY DEF SnapshotInit, Ops
  <2> QED
    BY <2>1, <2>2 DEF OpsSound
<1>15. ContentSound
  BY DEF SnapshotInit, ContentSound, CardsSound, Pending
<1> QED
  BY <1>7, <1>8, <1>9, <1>10, <1>11, <1>12, <1>13, <1>14, <1>15 DEF SnapshotInv

\* Every step of the program keeps the invariant.
LEMMA StepKeeps ==
    ASSUME SnapshotInv, SnapshotNext
    PROVE  SnapshotInv'
<1>1. CASE UserActs
  <2>1. ASSUME NEW l \in Lectures, SelectLecture(l) PROVE SnapshotInv'
    BY <2>1, SelectLectureKeeps
  <2>2. ASSUME NEW p \in Posts, AddComment(p) PROVE SnapshotInv'
    BY <2>2, AddCommentKeeps
  <2>3. ASSUME NEW k \in Likes, AddLike(k) PROVE SnapshotInv'
    BY <2>3, AddLikeKeeps
  <2>4. ASSUME Sleep PROVE SnapshotInv'
    BY <2>4, AwakeKeeps DEF Sleep
  <2> QED
    BY <1>1, <2>1, <2>2, <2>3, <2>4, LeaveLectureKeeps, NavigateKeeps, ForcedRefreshKeeps
       DEF UserActs
<1>2. CASE OthersAct
  BY <1>2, OthersKeep
<1>3. CASE BrowserActs
  <2>1. ASSUME NEW r \in Requests,
               AnswerSnapshot(r) \/ AnswerParticipant(r) \/ Deliver(r) \/ Fail(r)
        PROVE  SnapshotInv'
    BY <2>1, AnswerSnapshotKeeps, AnswerParticipantKeeps, DeliverKeeps, FailKeeps
  <2>2. ASSUME Wake PROVE SnapshotInv'
    BY <2>2, AwakeKeeps DEF Wake
  <2> QED
    BY <1>3, <2>1, <2>2, RunEffectKeeps, ArchiveArrivesKeeps, PollKeeps DEF BrowserActs
<1>4. CASE OpSteps
  <2>1. ASSUME NEW p \in Posts, InsertComment(p) \/ CommentAnswered(p) PROVE SnapshotInv'
    BY <2>1, InsertCommentKeeps, CommentAnsweredKeeps
  <2>2. ASSUME NEW k \in Likes, InsertLike(k) \/ LikeAnswered(k) PROVE SnapshotInv'
    BY <2>2, InsertLikeKeeps, LikeAnsweredKeeps
  <2>3. ASSUME NEW o \in Ops, OpFails(o) \/ ReadParticipant(o) \/ ApplyParticipant(o)
        PROVE  SnapshotInv'
    BY <2>3, OpFailsKeeps, ReadParticipantKeeps, ApplyParticipantKeeps
  <2> QED
    BY <1>4, <2>1, <2>2, <2>3 DEF OpSteps
<1> QED
  BY <1>1, <1>2, <1>3, <1>4 DEF SnapshotNext

\* ... and so does a step that changes nothing.
LEMMA StutterKeeps ==
    ASSUME SnapshotInv, UNCHANGED snapshotVars
    PROVE  SnapshotInv'
<1>1. UNCHANGED <<server, scene, known, applied, shown, ops>> /\ UNCHANGED fence
  BY DEF snapshotVars, fence
<1>2. requests' \in [Requests -> RequestRows]
      /\ \A r \in Requests : RequestSound(requests'[r]) /\ CurrentSound(requests'[r])
  BY <1>1 DEF SnapshotInv, RequestsSound, fence
<1>3. SentSound'
  BY <1>1 DEF SnapshotInv, SentSound, fence
<1> QED
  BY <1>1, <1>2, <1>3, RequestsChange

\* What the browser holds of a lecture is sound, in every behaviour.
THEOREM InvariantHolds == SnapshotSpec => []SnapshotInv
<1>1. SnapshotInit => SnapshotInv
  BY InitEstablishes
<1>2. SnapshotInv /\ [SnapshotNext]_snapshotVars => SnapshotInv'
  BY StepKeeps, StutterKeeps
<1> QED
  BY <1>1, <1>2, PTL DEF SnapshotSpec

\* Every variable has its type.
LEMMA TypesHold ==
    ASSUME SnapshotInv
    PROVE  SnapshotTypeOK
<1> USE DEF SnapshotInv
<1>1. MaxComment \in Nat /\ NoVersion = -1
  BY MostChanges DEF NoVersion
<1>2. server \in [Lectures -> Served]
  <2>1. ASSUME NEW l \in Lectures
        PROVE  server[l] \in Served
    <3>1. PICK row : row = server[l]
      OBVIOUS
    <3>2. /\ row \in Rows
          /\ \A s \in Sections : row.version[s] \in Nat /\ row.version[s] <= MaxComment
          /\ row.written <= MaxComment
          /\ \A c \in CommentIds : row.likes[c] \in Nat /\ row.likes[c] <= MaxComment
      BY <3>1, VersionBound
    <3>3. row.version \in Versions
      <4>1. row.version \in [Sections -> Nat]
        BY <3>2 DEF Rows
      <4>2. \A s \in Sections : row.version[s] \in NoVersion..MaxComment
        BY <3>2, <1>1
      <4> QED
        BY <4>1, <4>2 DEF Versions
    <3>4. row.likes \in [CommentIds -> 0..MaxComment]
      <4>1. row.likes \in [CommentIds -> Nat]
        BY <3>2 DEF Rows
      <4>2. \A c \in CommentIds : row.likes[c] \in 0..MaxComment
        BY <3>2, <1>1
      <4> QED
        BY <4>1, <4>2
    <3>5. row.written \in 0..MaxComment
      BY <3>2, <1>1 DEF Rows
    <3> QED
      BY <3>1, <3>2, <3>3, <3>4, <3>5 DEF Rows, Served
  <2> QED
    BY <2>1
<1>3. {known, applied} \subseteq Versions
  <2>1. FenceSound
    OBVIOUS
  <2>2. \A s \in Sections : applied[s] \in Int /\ applied[s] <= MaxComment
    <3>1. CASE session = NoSession
      BY <3>1, <2>1, <1>1 DEF FenceSound, NullVersions
    <3>2. CASE session # NoSession
      <4>1. PICK l \in Lectures : l = session.lecture
        BY <3>2 DEF SceneSound, Sessions
      <4>2. PICK row : row = server[l]
        OBVIOUS
      <4>3. \A s \in Sections : row.version[s] \in Nat /\ row.version[s] <= MaxComment
        BY <4>2, VersionBound
      <4>4. \A s \in Sections : applied[s] \in Int /\ applied[s] <= row.version[s]
        BY <3>2, <4>1, <4>2, <2>1 DEF FenceSound
      <4> QED
        BY <4>3, <4>4, <1>1
    <3> QED
      BY <3>1, <3>2
  <2>3. \A s \in Sections : /\ known[s] \in Int /\ NoVersion <= known[s]
                            /\ known[s] <= applied[s]
    BY <2>1 DEF FenceSound
  <2>4. \A s \in Sections : known[s] \in NoVersion..MaxComment /\ applied[s] \in NoVersion..MaxComment
    BY <2>2, <2>3, <1>1
  <2> QED
    BY <2>1, <2>4 DEF FenceSound, Versions
<1>4. ToSet(sent) \subseteq {r \in Requests : requests[r].busy}
  <2>1. sent \in Seq(Requests) /\ \A i \in DOMAIN sent : requests[sent[i]].busy
    BY DEF SentSound
  <2>2. \A i \in DOMAIN sent : sent[i] \in Requests
    BY <2>1
  <2> QED
    BY <2>1, <2>2 DEF ToSet
<1>5. display \in [lecture : Lectures, version : 0..MaxComment] \cup {NoDisplay}
  <2>1. ASSUME display # NoDisplay
        PROVE  display \in [lecture : Lectures, version : 0..MaxComment]
    <3>1. PICK l \in Lectures : l = session.lecture
      BY <2>1 DEF DisplaySound, SceneSound, Sessions
    <3>2. PICK row : row = server[l]
      OBVIOUS
    <3>3. row.version["pdf"] \in Nat /\ row.version["pdf"] <= MaxComment
      BY <3>2, VersionBound DEF Sections
    <3>4. display \in [lecture : {l}, version : Nat] /\ display.version <= row.version["pdf"]
      BY <2>1, <3>1, <3>2 DEF DisplaySound
    <3>5. display.version \in 0..MaxComment
      BY <3>3, <3>4, <1>1
    <3> QED
      BY <3>1, <3>4, <3>5
  <2> QED
    BY <2>1
<1>6. comments \subseteq Cards /\ \A a, b \in comments : a.id = b.id => a = b
  <2>1. PICK begun : begun = Begun
    OBVIOUS
  <2>2. PICK most \in Nat : most = MaxComment + Cardinality(Spent)
    BY MostLikes
  <2>3. CardsSound(comments, session.lecture, begun, most)
    BY <2>1, <2>2 DEF ContentSound
  <2>4. PICK all \in Nat : all = MaxComment + Cardinality(Likes) /\ most <= all
    <3>1. Spent \subseteq Likes /\ IsFiniteSet(Likes)
      BY SnapshotAssumption DEF Spent
    <3>2. Cardinality(Spent) \in Nat /\ Cardinality(Likes) \in Nat
          /\ Cardinality(Spent) <= Cardinality(Likes)
      BY <3>1, FS_Subset, FS_CardinalityType
    <3> QED
      BY <3>2, <2>2, <1>1
  <2>5. ASSUME NEW card \in comments
        PROVE  card \in Cards
    <3>1. card \in [id : CommentIds \cup Posts, pending : BOOLEAN, likes : Nat, mine : BOOLEAN]
          /\ card.likes <= most
      BY <2>3 DEF CardsSound, CardSound
    <3>2. card.likes \in 0..all
      BY <3>1, <2>2, <2>4
    <3> QED
      BY <3>1, <3>2, <2>4 DEF Cards, ShownIds
  <2> QED
    BY <2>3, <2>5 DEF CardsSound
<1>7. /\ session \in [lecture : Lectures, status : {"open", "closed"}] \cup {NoSession}
      /\ {live, effectDue, awake} \subseteq BOOLEAN
      /\ {inFlight, loop} \subseteq Requests \cup {NoRequest}
      /\ liked \subseteq CommentIds
      /\ archive \in {"none", "asked", "shown"}
  BY DEF SceneSound, Sessions, SentSound, ContentSound
<1> QED
  BY <1>2, <1>3, <1>4, <1>5, <1>6, <1>7 DEF SnapshotTypeOK

\* What is shown is of the joined lecture, a comment has one card, and a closed lecture shows
\* none as being sent: whatever travels, and however late it arrives.
THEOREM ShownIsOwnHolds == SnapshotSpec => []ShownIsOwn
<1>1. ASSUME SnapshotInv
      PROVE  ShownIsOwn
  <2>1. OwnLecture
    BY <1>1 DEF SnapshotInv, DisplaySound, ContentSound, CardsSound, CardSound, OwnLecture
  <2>2. ClosedQuiet
    BY <1>1 DEF SnapshotInv, ContentSound, ClosedQuiet
  <2> QED
    BY <1>1, <2>1, <2>2, TypesHold DEF ShownIsOwn
<1> QED
  BY <1>1, InvariantHolds, PTL

\* A version the browser tells the server it knows is one that is shown: it is at most the one
\* applied, which the display and the cards have reached.
THEOREM KnownIsShownHolds == SnapshotSpec => []KnownIsShown
<1>1. ASSUME SnapshotInv
      PROVE  KnownIsShown
  <2>1. ASSUME session # NoSession
        PROVE  LET row == server[session.lecture] IN
               /\ known["pdf"] <= display.version
               /\ known["comments"] = row.version["comments"]
                     => Newest(row.visible, CommentLimit) \subseteq Ids(comments)
    <3>1. PICK l \in Lectures : l = session.lecture
      BY <1>1, <2>1 DEF SnapshotInv, SceneSound, Sessions
    <3>2. PICK row \in Rows : row = server[l]
      BY <1>1 DEF SnapshotInv
    <3>3. /\ \A s \in Sections : /\ known[s] \in Int /\ applied[s] \in Int
                                 /\ known[s] <= applied[s] /\ applied[s] <= row.version[s]
          /\ applied["pdf"] <= display.version
          /\ applied["comments"] = row.version["comments"] =>
                Newest(row.visible, CommentLimit) \subseteq Ids(comments)
      BY <1>1, <2>1, <3>1, <3>2 DEF SnapshotInv, FenceSound
    <3>4. display.version \in Int
      BY <1>1 DEF SnapshotInv, DisplaySound, NoDisplay, NoVersion
    <3>5. known["pdf"] <= display.version
      BY <3>3, <3>4 DEF Sections
    <3>6. row.version["comments"] \in Nat
      BY <3>2 DEF Rows, Sections
    <3>7. known["comments"] = row.version["comments"] =>
             applied["comments"] = row.version["comments"]
      BY <3>3, <3>6 DEF Sections
    <3> QED
      BY <3>1, <3>2, <3>3, <3>5, <3>7
  <2> QED
    BY <2>1 DEF KnownIsShown
<1> QED
  BY <1>1, InvariantHolds, PTL

\* The steps that do not join, leave or deliver leave the slide and the session alone.
LEMMA SceneChanges ==
    ASSUME SnapshotNext
    PROVE  \/ \E l \in Lectures : SelectLecture(l)
           \/ LeaveLecture
           \/ ArchiveArrives
           \/ \E r \in Requests : Deliver(r)
           \/ display' = display /\ session' = session
<1>1. CASE UserActs
  BY <1>1 DEF UserActs, Navigate, Sleep, ForcedRefresh, AddComment, AddLike, scene, shown
<1>2. CASE OthersAct
  BY <1>2 DEF OthersAct, scene, shown
<1>3. CASE BrowserActs
  BY <1>3 DEF BrowserActs, Wake, RunEffect, Poll, AnswerSnapshot, AnswerParticipant, Fail,
              scene, shown
<1>4. CASE OpSteps
  BY <1>4 DEF OpSteps, InsertComment, CommentAnswered, InsertLike, LikeAnswered, OpFails,
              ReadParticipant, ApplyParticipant, scene, shown
<1> QED
  BY <1>1, <1>2, <1>3, <1>4 DEF SnapshotNext

\* A step forward: of the slide, ...
SlideForward == display'.lecture = display.lecture => display'.version >= display.version

\* Joining and leaving blank it, an archive and a snapshot bring a newer one.
LEMMA SlideStep ==
    ASSUME SnapshotInv, SnapshotNext
    PROVE  display' = display \/ SlideForward
<1>1. display = NoDisplay \/ display.lecture \in Lectures
  BY DEF SnapshotInv, DisplaySound, SceneSound, Sessions
<1>2. ASSUME NoContent
      PROVE  display' = display \/ SlideForward
  BY <1>1, <1>2, SnapshotAssumption DEF NoContent, NoDisplay, SlideForward
<1>3. ASSUME NEW l \in Lectures, SelectLecture(l)
      PROVE  display' = display \/ SlideForward
  BY <1>2, <1>3 DEF SelectLecture
<1>4. CASE LeaveLecture
  BY <1>2, <1>4 DEF LeaveLecture
<1>5. CASE ArchiveArrives
  <2>1. PICK l \in Lectures : l = session.lecture /\ session # NoSession
    BY <1>5 DEF ArchiveArrives, SnapshotInv, SceneSound, Sessions, NoSession
  <2>2. PICK row : row = server[l]
    OBVIOUS
  <2>3. display'.version = row.version["pdf"]
    BY <1>5, <2>1, <2>2 DEF ArchiveArrives
  <2>4. row.version["pdf"] >= display.version
    BY <2>1, <2>2, ServedIsCurrent
  <2> QED
    BY <2>3, <2>4 DEF SlideForward
<1>6. ASSUME NEW r \in Requests, Deliver(r)
      PROVE  display' = display \/ SlideForward
  <2>1. PICK q : q = requests[r]
    OBVIOUS
  <2>2. CASE ~q.current
    BY <1>6, <2>1, <2>2 DEF Deliver, Current, shown
  <2>3. CASE q.current
    BY <1>6, <2>1, <2>3, DeliverDisplay DEF SlideForward
  <2> QED
    BY <2>2, <2>3
<1> QED
  BY <1>3, <1>4, <1>5, <1>6, SceneChanges

\* ... and of the session, which stays closed.
StaysClosed ==
    session.status = "closed" /\ session'.lecture = session.lecture => session'.status = "closed"

\* Joining another lecture and leaving change the lecture; a snapshot can only close it.
LEMMA SessionStep ==
    ASSUME SnapshotInv, SnapshotNext
    PROVE  session' = session \/ StaysClosed
<1>1. ASSUME NEW l \in Lectures, SelectLecture(l)
      PROVE  StaysClosed
  BY <1>1 DEF SelectLecture, StaysClosed
<1>2. CASE LeaveLecture
  BY <1>2, SnapshotAssumption DEF LeaveLecture, SnapshotInv, SceneSound, Sessions, NoSession, StaysClosed
<1>3. CASE ArchiveArrives
  BY <1>3 DEF ArchiveArrives, scene
<1>4. ASSUME NEW r \in Requests, Deliver(r)
      PROVE  session' = session \/ StaysClosed
  <2>1. PICK q : q = requests[r]
    OBVIOUS
  <2>2. CASE ~q.current
    BY <1>4, <2>1, <2>2 DEF Deliver, Current, scene
  <2>3. CASE q.current
    <3>1. /\ Closes(q) => session'.status = "closed"
          /\ ~Closes(q) => session' = session
      BY <1>4, <2>1, <2>3, DeliverSession
    <3> QED
      BY <3>1 DEF StaysClosed
  <2> QED
    BY <2>2, <2>3
<1> QED
  BY <1>1, <1>2, <1>3, <1>4, SceneChanges

\* The slide of a lecture never goes back, and a lecture shown as closed stays closed.
THEOREM OnlyForwardHolds == SnapshotSpec => OnlyForward
<1>1. SnapshotInv /\ [SnapshotNext]_snapshotVars =>
         [display'.lecture = display.lecture => display'.version >= display.version]_display
  BY SlideStep DEF SlideForward, snapshotVars, shown
<1>2. SnapshotInv /\ [SnapshotNext]_snapshotVars =>
         [session.status = "closed" /\ session'.lecture = session.lecture
            => session'.status = "closed"]_session
  BY SessionStep DEF StaysClosed, snapshotVars, scene
<1> QED
  BY <1>1, <1>2, InvariantHolds, PTL DEF SnapshotSpec, OnlyForward, NeverBack, ClosedForGood
=============================================================================
