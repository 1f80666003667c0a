----------------------- MODULE DisplaySession_proofs -----------------------
(* Proofs about DisplaySession for every set of links, windows and profiles, *)
(* every set of events and every bound.                                       *)
EXTENDS DisplaySession, SequenceTheorems, TLAPS

\* The part of the invariant that is about the database.  A link not issued yet has
\* neither a binding nor a user, which is why issuing it takes nothing from anybody.
DatabaseSound ==
    /\ gate \in BOOLEAN /\ lectureOpen \in BOOLEAN
    /\ live \in Slide
    /\ live.version \in 1..live.stamp
    /\ link \in [Links -> Link]
    /\ latest \in Links \cup {None}
    /\ \A d \in Links :
          /\ link[d].root = "unissued" =>
                /\ link[d].binding = "none" /\ link[d].user = None /\ link[d].by = None
          /\ link[d].binding = "open" => gate
    /\ OneDisplay

WindowsTyped ==
    /\ window \in [Windows -> Window]
    /\ stored \in [Windows -> [link : Links \cup {None}, generation : 0..MaxGeneration]]
    /\ answers \in [Windows -> Seq(Answer)]
    /\ signals \in [Windows -> SUBSET {"changed", "disabled", "closed"}]
    /\ reports \subseteq Message

\* d serves profile u no longer, and never will again.
Dead(d, u) ==
    /\ link[d].root # "unissued"
    /\ \/ ~lectureOpen \/ link[d].root # "open" \/ link[d].binding # "open" \/ ~link[d].term
       \/ link[d].user \notin {None, u}

\* A slide that somebody once read from the database.
SlideSound(s) ==
    /\ s.version <= live.version /\ s.stamp <= live.stamp
    /\ s.version = live.version => s.page = live.page
    /\ s.stamp = live.stamp => s.version = live.version

\* w has drawn what the database holds.
InStepWindow(w) ==
    /\ window[w].drawn
    /\ window[w].shown.page = live.page /\ window[w].shown.version = live.version

\* A report of the present load of w: if it is of the present row, w has drawn it.
RenderSound(w, stamp) ==
    /\ stamp <= live.stamp
    /\ stamp = live.stamp => InStepWindow(w)

AnswerSound(w, a) ==
    /\ SlideSound(a.slide)
    /\ a.valid => link[window[w].link].user = Profile[w]
    /\ ~a.valid => Dead(window[w].link, Profile[w])
    /\ a.read => a.valid
    /\ Terminal(a) => ~lectureOpen

Issued(d) == d = None \/ link[d].root # "unissued"

WindowSound(w) ==
    /\ Issued(window[w].link) /\ Issued(window[w].url) /\ Issued(stored[w].link)
    /\ window[w].phase \in {"claiming", "live", "fallback"} <=> window[w].link # None
    /\ window[w].phase # "live" =>
          /\ ~window[w].subscribed /\ ~window[w].ready /\ ~window[w].beating
          /\ window[w].pending = NoReport /\ window[w].sending = NoReport
    /\ window[w].phase = "live" =>
          window[w].generation \in 1..MaxGeneration /\ link[window[w].link].user = Profile[w]
    /\ window[w].phase = "shut" => stored[w] = NoLaunch
    /\ window[w].phase = "claiming" /\ stored[w].link = window[w].link
          => stored[w].generation < MaxGeneration
    /\ window[w].shown # NoSlide =>
          Showing(w) /\ link[window[w].link].user = Profile[w]
    /\ SlideSound(window[w].shown)
    /\ answers[w] # <<>> => Showing(w)
    /\ \A i \in DOMAIN answers[w] : AnswerSound(w, answers[w][i])
    /\ signals[w] # {} => window[w].subscribed
    /\ "closed" \in signals[w] => Dead(window[w].link, Profile[w])
    /\ RenderSound(w, window[w].pending.stamp) /\ RenderSound(w, window[w].sending.stamp)
    /\ window[w].closed => ~lectureOpen

MessageSound(m) ==
    /\ Issued(m.link)
    /\ m.awaited => m.window # None /\ window[m.window].phase = "live"
    /\ m.window # None =>
          /\ window[m.window].phase \in {"live", "fallback", "ended"}
          /\ m.user = Profile[m.window]
          /\ \/ Dead(m.link, m.user)
             \/ /\ window[m.window].link = m.link
                /\ m.action = "rendered" => RenderSound(m.window, m.stamp)

\* What the database knows of the load that was acknowledged last.
AcknowledgedSound(d) ==
    LET w == link[d].by
    IN  w # None =>
          /\ window[w].phase \in {"live", "fallback", "ended"}
          /\ link[d].user = Profile[w]
          /\ link[d].version <= live.version
          /\ \/ Dead(d, Profile[w])
             \/ /\ window[w].link = d
                /\ link[d].version = live.version => InStepWindow(w)

DisplayInv ==
    /\ DatabaseSound
    /\ WindowsTyped
    /\ \A w \in Windows : WindowSound(w)
    /\ \A m \in reports : MessageSound(m)
    /\ \A d \in Links : AcknowledgedSound(d)

\* What LinksFinal says of one step.
LinksMove ==
    \A d \in Links :
        /\ link[d].root = "ended" => link'[d].root = "ended"
        /\ link[d].binding = "ended" => link'[d].binding = "ended"
        /\ link[d].binding = "disabled" => link'[d].binding \in {"disabled", "ended"}
        /\ link[d].user # None => link'[d].user = link[d].user

\* What no step takes back of the lecture and of the links that were issued.
Forward ==
    /\ lectureOpen' => lectureOpen
    /\ \/ live' = live
       \/ /\ live'.stamp > live.stamp /\ live'.version >= live.version
          /\ live'.version = live.version => live'.page = live.page
    /\ \A d \in Links : link[d].root # "unissued" =>
          /\ link'[d].root # "unissued"
          /\ link'[d].root = "open" => link[d].root = "open"
          /\ link'[d].binding = "open" => link[d].binding = "open"
          /\ link'[d].term => link[d].term
          /\ link[d].user # None => link'[d].user = link[d].user

DatabaseStep == DatabaseSound' /\ Forward /\ LinksMove

\* A step after which w is still the load it was, and has still drawn what it had drawn.
SameLoad(w) ==
    /\ window'[w].link = window[w].link
    /\ window[w].phase \in {"live", "fallback", "ended"}
          => window'[w].phase \in {"live", "fallback", "ended"}
    /\ live'.version = live.version /\ InStepWindow(w) => InStepWindow(w)'

-----------------------------------------------------------------------------
(* The database.                                                              *)

\* What the assumption says of the constants, one by one.
LEMMA Constants ==
    /\ None \notin Links /\ None \notin Windows
    /\ \A w \in Windows : Profile[w] \in Users /\ Profile[w] # None
    /\ MaxPage \in Nat /\ MaxPage > 0
    /\ MaxStamp \in Nat /\ MaxStamp > 0
    /\ MaxGeneration \in Nat /\ MaxGeneration > 0
    /\ MaxAnswers \in Nat /\ MaxAnswers > 0
BY DisplayAssumption DEF Users

\* The type invariant is a part of DisplayInv.
LEMMA TypeFollows == DisplayInv => DisplayTypeOK
BY DEF DisplayInv, DatabaseSound, WindowsTyped, DisplayTypeOK

\* Every row keeps its root, its binding at most is disabled, its term at most ends, and
\* only an open link is claimed, by somebody if by nobody before.
LEMMA RowsKept ==
    ASSUME DatabaseSound, gate' \in BOOLEAN, UNCHANGED <<lectureOpen, latest, live>>,
           link' \in [Links -> Link],
           \A d \in Links :
              /\ link'[d].root = link[d].root
              /\ \/ link'[d].binding = link[d].binding
                 \/ link[d].binding = "open" /\ link'[d].binding = "disabled"
              /\ link'[d].binding = "open" => gate'
              /\ link'[d].term => link[d].term
              /\ \/ link'[d].user = link[d].user
                 \/ link[d].root # "unissued" /\ link[d].user = None
              /\ link[d].root = "unissued" => link'[d].by = None
    PROVE  DatabaseStep
BY DEF DatabaseSound, LinksMove, OneDisplay, Forward, DatabaseStep

\* A claim only sets the user of a link that had none; whoever it refuses is refused for ever.
LEMMA ClaimKeeps ==
    ASSUME DatabaseSound, NEW d \in Links, NEW u \in Users, u # None,
           link' = Claimed(d, u), UNCHANGED <<gate, lectureOpen, live, latest>>
    PROVE  /\ DatabaseStep
           /\ Claimable(d, u) => link'[d].user = u
           /\ \A e \in Links : link'[e].by = link[e].by /\ link'[e].version = link[e].version
           /\ ~Claimable(d, u) /\ link[d].root # "unissued" => Dead(d, u)'
           /\ link'[d].binding = link[d].binding
<1>1. link' \in [Links -> Link]
  BY DEF Claimed, DatabaseSound, Link
<1>2. \A e \in Links : /\ link'[e].root = link[e].root /\ link'[e].binding = link[e].binding
                       /\ link'[e].by = link[e].by /\ link'[e].version = link[e].version
                       /\ link'[e].term = link[e].term
                       /\ \/ link'[e].user = link[e].user
                          \/ link[e].root # "unissued" /\ link[e].user = None
  BY DEF Claimed, Claimable, Servable, DatabaseSound, Link
<1>3. Claimable(d, u) => link'[d].user = u
  BY DEF Claimed, DatabaseSound, Link
<1>4. ASSUME ~Claimable(d, u), link[d].root # "unissued" PROVE Dead(d, u)'
  <2>1. link' = link
    BY <1>4 DEF Claimed
  <2>2. Dead(d, u)
    BY <1>4 DEF Claimable, Servable, Dead, DatabaseSound
  <2> QED
    BY <2>1, <2>2 DEF Dead
<1>5. gate' \in BOOLEAN /\ UNCHANGED <<lectureOpen, latest, live>>
  BY DEF DatabaseSound
<1>6. \A e \in Links : /\ link'[e].binding = "open" => gate'
                       /\ link[e].root = "unissued" => link'[e].by = None
  BY <1>2 DEF DatabaseSound
<1>7. DatabaseStep
  BY <1>1, <1>2, <1>5, <1>6, RowsKept
<1> QED
  BY <1>2, <1>3, <1>4, <1>7

\* Leaving the database alone is a step it may take.
LEMMA UnchangedKeeps ==
    ASSUME DatabaseSound, UNCHANGED database
    PROVE  DatabaseStep
BY RowsKept DEF DatabaseSound, database

\* What a retired row keeps, and what it cannot be any more.
LEMMA RetiredRow ==
    ASSUME NEW row \in Link
    PROVE  /\ Retired(row) \in Link
           /\ Retired(row).user = row.user /\ Retired(row).by = row.by
           /\ Retired(row).term = row.term /\ Retired(row).version = row.version
           /\ Retired(row).root # "open" /\ Retired(row).binding \notin {"open", "disabled"}
           /\ row.root # "open" => Retired(row).root = row.root
           /\ row.binding = "none" => Retired(row).binding = "none"
           /\ row.binding # "none" => Retired(row).binding = "ended"
           /\ Retired(row).root = "unissued" => row.root = "unissued"
BY DEF Retired, Link

\* All links are retired, and nothing else is opened.
LEMMA RetireKeeps ==
    ASSUME DatabaseSound, link' = [d \in Links |-> Retired(link[d])],
           lectureOpen' \in BOOLEAN, lectureOpen' => lectureOpen, UNCHANGED <<gate, live, latest>>
    PROVE  /\ DatabaseStep
           /\ \A d \in Links : /\ link'[d].by = link[d].by /\ link'[d].version = link[d].version
                               /\ link'[d].root # "open"
<1> link \in [Links -> Link]
  BY DEF DatabaseSound
<1>1. \A d \in Links : Retired(link[d]) \in Link
  BY RetiredRow
<1>2. link' \in [Links -> Link]
  BY <1>1
<1>3. \A d \in Links :
        /\ link'[d].root # "open" /\ link'[d].binding \notin {"open", "disabled"}
        /\ link'[d].user = link[d].user /\ link'[d].by = link[d].by
        /\ link'[d].term = link[d].term /\ link'[d].version = link[d].version
        /\ link[d].root # "open" => link'[d].root = link[d].root
        /\ link[d].binding = "none" => link'[d].binding = "none"
        /\ link[d].binding # "none" => link'[d].binding = "ended"
        /\ link'[d].root = "unissued" => link[d].root = "unissued"
  <2> TAKE d \in Links
  <2>1. link'[d] = Retired(link[d]) /\ link[d] \in Link
    OBVIOUS
  <2> QED
    BY <2>1, RetiredRow
<1>4. Forward /\ LinksMove
  BY <1>3 DEF Forward, LinksMove
<1>5. DatabaseSound'
  BY <1>2, <1>3 DEF DatabaseSound, OneDisplay
<1> QED
  BY <1>3, <1>4, <1>5 DEF DatabaseStep

\* The new link takes nothing from anybody, as nobody could have claimed it.
LEMMA IssueKeeps ==
    ASSUME DatabaseSound, NEW d \in Links, NEW realtime \in BOOLEAN, Issue(d, realtime)
    PROVE  /\ DatabaseStep
           /\ \A e \in Links : link'[e].by # None =>
                 link'[e].by = link[e].by /\ link'[e].version = link[e].version
           /\ \A e \in Links \ {d} : link'[e].root # "open"
           /\ link[d].binding = "none" /\ link[d].root = "unissued"
<1> link \in [Links -> Link]
  BY DEF DatabaseSound
<1> DEFINE b == IF realtime THEN "open" ELSE "none"
           new == [Unissued EXCEPT !.root = "open", !.binding = b]
<1>1. \A e \in Links : Retired(link[e]) \in Link
  BY RetiredRow
<1>0. link' = [e \in Links |-> IF e = d THEN new ELSE Retired(link[e])]
  BY DEF Issue
<1>b. b \in {"open", "none"} /\ (b = "open" => realtime)
  OBVIOUS
<1> HIDE DEF b
<1>2. new \in Link /\ new.root = "open" /\ new.binding = b /\ new.user = None /\ new.by = None
  <2>1. 0 \in 0..MaxGeneration /\ 0 \in 0..MaxStamp /\ 0 \in 0..MaxPage
    BY Constants
  <2>2. Unissued \in Link /\ Unissued.user = None /\ Unissued.by = None
    BY <2>1 DEF Unissued, Link
  <2> QED
    BY <1>b, <2>2 DEF Link
<1> HIDE DEF new
<1>n. new.root = "open" /\ new.binding \in {"open", "none"} /\ new.user = None /\ new.by = None
      /\ (new.binding = "open" => realtime)
  BY <1>b, <1>2
<1>3. link' \in [Links -> Link]
  BY <1>0, <1>1, <1>2
<1>4. \A e \in Links \ {d} :
        /\ link'[e].root # "open" /\ link'[e].binding \notin {"open", "disabled"}
        /\ link'[e].user = link[e].user /\ link'[e].by = link[e].by
        /\ link'[e].term = link[e].term /\ link'[e].version = link[e].version
        /\ link[e].root # "open" => link'[e].root = link[e].root
        /\ link[e].binding = "none" => link'[e].binding = "none"
        /\ link[e].binding # "none" => link'[e].binding = "ended"
        /\ link'[e].root = "unissued" => link[e].root = "unissued"
  <2> TAKE e \in Links \ {d}
  <2>1. link'[e] = Retired(link[e]) /\ link[e] \in Link
    BY <1>0
  <2> QED
    BY <2>1, RetiredRow
<1>5. link'[d] = new
  BY <1>0
<1>6. link[d].root = "unissued" /\ link[d].binding = "none" /\ link[d].user = None
  BY DEF Issue, DatabaseSound
<1>7. latest' = d /\ lectureOpen' /\ UNCHANGED <<gate, lectureOpen, live>> /\ (realtime => gate)
  BY DEF Issue
<1>8. Forward /\ LinksMove
  BY <1>4, <1>5, <1>6, <1>7, <1>n DEF Forward, LinksMove
<1>9. DatabaseSound'
  <2>1. \A e \in Links : /\ link'[e].root = "unissued" =>
                              link'[e].binding = "none" /\ link'[e].user = None /\ link'[e].by = None
                         /\ link'[e].binding = "open" => gate'
    BY <1>4, <1>5, <1>6, <1>7, <1>n DEF DatabaseSound
  <2>2. OneDisplay'
    BY <1>4, <1>5, <1>6, <1>7, <1>n DEF OneDisplay
  <2> QED
    BY <1>3, <1>7, <2>1, <2>2 DEF DatabaseSound
<1> QED
  BY <1>4, <1>5, <1>6, <1>8, <1>9, <1>n DEF DatabaseStep

-----------------------------------------------------------------------------
(* What a step leaves as it was.                                              *)

\* The parts of the invariant, one by one.
LEMMA Parts ==
    ASSUME DisplayInv
    PROVE  /\ DatabaseSound /\ WindowsTyped
           /\ link \in [Links -> Link] /\ live \in Slide
           /\ window \in [Windows -> Window] /\ answers \in [Windows -> Seq(Answer)]
           /\ signals \in [Windows -> SUBSET {"changed", "disabled", "closed"}]
           /\ reports \subseteq Message
           /\ \A w \in Windows : WindowSound(w) /\ window[w] \in Window
           /\ \A m \in reports : MessageSound(m)
           /\ \A d \in Links : AcknowledgedSound(d)
BY DEF DisplayInv, DatabaseSound, WindowsTyped

\* A link that is dead for a profile stays dead, whatever is switched on again.
LEMMA DeadStays ==
    ASSUME Forward, NEW d \in Links, NEW u, u # None, Dead(d, u)
    PROVE  Dead(d, u)'
BY DEF Forward, Dead

\* A link once issued stays issued.
LEMMA IssuedStays ==
    ASSUME Forward, NEW d \in Links \cup {None}, Issued(d)
    PROVE  Issued(d)'
BY DEF Forward, Issued

\* A slide that was read stays sound while the live state moves on.
LEMMA SlideStays ==
    ASSUME Forward, NEW s \in Slide, SlideSound(s), live \in Slide, live' \in Slide
    PROVE  SlideSound(s)'
BY DEF Forward, SlideSound, Slide

\* A report stays sound as long as the window keeps what it has drawn.
LEMMA RenderStays ==
    ASSUME Forward, NEW w \in Windows, NEW stamp \in Nat, RenderSound(w, stamp),
           live'.version = live.version /\ InStepWindow(w) => InStepWindow(w)',
           live \in Slide, live' \in Slide
    PROVE  RenderSound(w, stamp)'
BY DEF Forward, RenderSound, Slide

\* An answer on its way stays true: a claim is never taken back, a refusal never reversed.
LEMMA AnswerStays ==
    ASSUME DisplayInv, DatabaseSound', Forward, NEW w \in Windows, NEW a \in Answer,
           AnswerSound(w, a), window[w].link \in Links, window'[w].link = window[w].link
    PROVE  AnswerSound(w, a)'
<1> DEFINE d == window[w].link
<1>1. d \in Links /\ window'[w].link = d /\ a.slide \in Slide
  BY DEF Answer
<1>2. SlideSound(a.slide)'
  BY <1>1, SlideStays DEF DatabaseSound, DisplayInv, AnswerSound
<1>3. Issued(d) /\ Profile[w] # None
  BY Parts, Constants DEF WindowSound
<1>4. a.valid => link'[d].user = Profile[w]
  BY <1>1, <1>3, Constants DEF Forward, Issued, AnswerSound
<1>5. ~a.valid => Dead(d, Profile[w])'
  BY <1>1, <1>3, DeadStays DEF AnswerSound
<1>6. (a.read => a.valid) /\ (Terminal(a) => ~lectureOpen')
  BY DEF AnswerSound, Forward
<1> QED
  BY <1>1, <1>2, <1>4, <1>5, <1>6 DEF AnswerSound, Dead, Terminal

\* A window that nothing happened to, but for signals.
LEMMA WindowStays ==
    ASSUME DisplayInv, DatabaseSound', Forward, NEW w \in Windows,
           window'[w] = window[w], stored'[w] = stored[w], answers'[w] = answers[w],
           signals'[w] # {} => window[w].subscribed,
           "closed" \in signals'[w] => Dead(window[w].link, Profile[w])'
    PROVE  WindowSound(w)'
<1> DEFINE v == window[w]
<1>1. v \in Window /\ stored[w].link \in Links \cup {None} /\ WindowSound(w) /\ answers[w] \in Seq(Answer)
  BY DEF DisplayInv, WindowsTyped
<1>2. v.link \in Links \cup {None} /\ v.url \in Links \cup {None} /\ v.shown \in Slide
      /\ v.pending.stamp \in Nat /\ v.sending.stamp \in Nat
  BY <1>1, Constants DEF Window, Rendered
<1>3. live \in Slide /\ live' \in Slide
  BY DEF DisplayInv, DatabaseSound
<1>4. Issued(v.link)' /\ Issued(v.url)' /\ Issued(stored[w].link)'
  BY <1>1, <1>2, IssuedStays DEF WindowSound, Issued
<1>5. SlideSound(v.shown)'
  BY <1>1, <1>2, <1>3, SlideStays DEF WindowSound, SlideSound
<1>6. RenderSound(w, v.pending.stamp)' /\ RenderSound(w, v.sending.stamp)'
  <2>1. live'.version = live.version /\ InStepWindow(w) => InStepWindow(w)'
    BY DEF InStepWindow, Forward
  <2>2. RenderSound(w, v.pending.stamp) /\ RenderSound(w, v.sending.stamp)
    BY <1>1 DEF WindowSound
  <2>3. ASSUME NEW stamp \in Nat, RenderSound(w, stamp) PROVE RenderSound(w, stamp)'
    BY <1>3, <2>1, <2>3, RenderStays
  <2> QED
    BY <1>2, <2>2, <2>3 DEF RenderSound, InStepWindow
<1>7. \A i \in DOMAIN answers[w] : AnswerSound(w, answers[w][i])'
  <2> TAKE i \in DOMAIN answers[w]
  <2>1. answers[w][i] \in Answer /\ AnswerSound(w, answers[w][i]) /\ answers[w] # <<>>
    BY <1>1 DEF WindowSound
  <2>2. v.link \in Links
    BY <1>1, <1>2, <2>1, Constants DEF WindowSound, Showing
  <2> QED
    BY <2>1, <2>2, AnswerStays
<1>8. v.link # None => link'[v.link].user = Profile[w] \/ link[v.link].user # Profile[w]
  BY <1>1, <1>2, Constants DEF Forward, WindowSound, Issued
<1>9. /\ v.phase = "live" => v.generation \in 1..MaxGeneration /\ link'[v.link].user = Profile[w]
      /\ v.shown # NoSlide => Showing(w)' /\ link'[v.link].user = Profile[w]
      /\ answers[w] # <<>> => Showing(w)'
  BY <1>1, <1>8 DEF WindowSound, Showing
<1>10. v.closed => ~lectureOpen'
  BY <1>1 DEF WindowSound, Forward
<1> QED
  BY <1>1, <1>4, <1>5, <1>6, <1>7, <1>9, <1>10 DEF WindowSound, Issued, SlideSound, Showing, Dead

\* A report on its way stays sound, unless its window leaves its load.
LEMMA MessageStays ==
    ASSUME DisplayInv, DatabaseSound', Forward, NEW m \in Message, MessageSound(m),
           m.window # None => SameLoad(m.window),
           m.awaited => window'[m.window].phase = "live"
    PROVE  MessageSound(m)'
<1>1. m.link \in Links /\ m.user # None /\ m.stamp \in Nat /\ m.window \in Windows \cup {None}
  BY Constants DEF Message, Users
<1>2. Issued(m.link)'
  BY <1>1, IssuedStays DEF MessageSound
<1>3. CASE m.window = None
  BY <1>2, <1>3 DEF MessageSound
<1>4. CASE m.window # None
  <2>1. m.window \in Windows
    BY <1>1, <1>4
  <2>2. Dead(m.link, m.user) => Dead(m.link, m.user)'
    BY <1>1, DeadStays
  <2>3. RenderSound(m.window, m.stamp) => RenderSound(m.window, m.stamp)'
    BY <1>1, <1>4, <2>1, RenderStays DEF SameLoad, DisplayInv, DatabaseSound
  <2> QED
    BY <1>2, <1>4, <2>2, <2>3 DEF MessageSound, SameLoad
<1> QED
  BY <1>3, <1>4

\* So does what a row says of the load acknowledged last.
LEMMA AcknowledgedStays ==
    ASSUME DisplayInv, DatabaseSound', Forward, NEW d \in Links,
           link'[d].by # None => /\ link'[d].by = link[d].by /\ link'[d].version = link[d].version
                                 /\ SameLoad(link[d].by)
    PROVE  AcknowledgedSound(d)'
<1>1. CASE link'[d].by = None
  BY <1>1 DEF AcknowledgedSound
<1>2. CASE link'[d].by # None
  <2> DEFINE w == link[d].by
  <2>1. w \in Windows /\ link'[d].by = w /\ AcknowledgedSound(d) /\ w # None /\ Profile[w] # None
    BY <1>2, Constants DEF DisplayInv, DatabaseSound, Link
  <2>2. link[d].root # "unissued" /\ link[d].version \in Nat
    BY <2>1, Constants DEF DisplayInv, DatabaseSound, Link
  <2>3. link'[d].user = Profile[w]
    BY <2>1, <2>2 DEF AcknowledgedSound, Forward
  <2>4. Dead(d, Profile[w]) => Dead(d, Profile[w])'
    BY <2>1, DeadStays
  <2>5. live \in Slide /\ live' \in Slide
    BY DEF DisplayInv, DatabaseSound
  <2>6. /\ link[d].version <= live.version /\ live.version <= live'.version
        /\ link[d].version = live'.version => link[d].version = live.version
    BY <2>1, <2>2, <2>5 DEF Forward, Slide, AcknowledgedSound
  <2>7. /\ window'[w].link = window[w].link /\ window'[w].phase \in {"live", "fallback", "ended"}
        /\ live'.version = live.version /\ InStepWindow(w) => InStepWindow(w)'
    BY <1>2, <2>1 DEF SameLoad, AcknowledgedSound
  <2>8. link'[d].by = w /\ link'[d].version = link[d].version /\ link[d].version <= live'.version
    BY <1>2, <2>2, <2>5, <2>6 DEF Slide
  <2>9. \/ Dead(d, Profile[w])'
        \/ /\ window'[w].link = d
           /\ link[d].version = live'.version => InStepWindow(w)'
    BY <2>1, <2>4, <2>6, <2>7 DEF AcknowledgedSound
  <2> QED
    BY <2>3, <2>7, <2>8, <2>9 DEF AcknowledgedSound, Dead, InStepWindow
<1> QED
  BY <1>1, <1>2

-----------------------------------------------------------------------------
(* The teacher, the operator and the clock.                                   *)

\* The database changes and at most tells the windows of it.
LEMMA AdministrationKeeps ==
    ASSUME DisplayInv, DatabaseStep, UNCHANGED <<window, stored, answers>>, reports' \subseteq reports,
           \A d \in Links :
              \/ AcknowledgedSound(d)'
              \/ link'[d].by # None =>
                    link'[d].by = link[d].by /\ link'[d].version = link[d].version,
           signals' \in [Windows -> SUBSET {"changed", "disabled", "closed"}],
           \A w \in Windows :
              /\ signals'[w] # {} => window[w].subscribed
              /\ "closed" \in signals'[w] => Dead(window[w].link, Profile[w])'
    PROVE  DisplayInv'
<1>1. DatabaseSound' /\ Forward
  BY DEF DatabaseStep
<1>2. \A w \in Windows : SameLoad(w)
  BY <1>1 DEF SameLoad, InStepWindow, Forward
<1>3. \A w \in Windows : WindowSound(w)'
  BY <1>1, WindowStays
<1>4. ASSUME NEW m \in reports' PROVE MessageSound(m)'
  <2>1. m \in Message /\ MessageSound(m) /\ m.window \in Windows \cup {None}
    BY Parts DEF Message
  <2>2. m.awaited => window'[m.window].phase = "live"
    BY <2>1 DEF MessageSound
  <2> QED
    BY <1>1, <1>2, <2>1, <2>2, MessageStays
<1>5. ASSUME NEW d \in Links PROVE AcknowledgedSound(d)'
  <2>1. CASE AcknowledgedSound(d)'
    BY <2>1
  <2>2. CASE link'[d].by # None =>
               link'[d].by = link[d].by /\ link'[d].version = link[d].version
    <3>1. link'[d].by # None => link[d].by \in Windows
      BY <2>2, Constants, Parts DEF Link
    <3> QED
      BY <1>1, <1>2, <2>2, <3>1, AcknowledgedStays
  <2> QED
    BY <2>1, <2>2
<1>6. WindowsTyped'
  BY Parts DEF WindowsTyped
<1> QED
  BY <1>1, <1>3, <1>4, <1>5, <1>6 DEF DisplayInv

\* A broadcast reaches only windows that are subscribed.
LEMMA SignalledTyped ==
    ASSUME DisplayInv, NEW ds, NEW kind \in {"changed", "disabled", "closed"},
           signals' = Signalled(ds, kind)
    PROVE  /\ signals' \in [Windows -> SUBSET {"changed", "disabled", "closed"}]
           /\ \A w \in Windows :
                /\ signals'[w] # {} => window[w].subscribed
                /\ "closed" \in signals'[w] =>
                     "closed" \in signals[w] \/ (kind = "closed" /\ window[w].link \in ds)
<1>1. signals \in [Windows -> SUBSET {"changed", "disabled", "closed"}]
      /\ \A w \in Windows : signals[w] # {} => window[w].subscribed
  BY Parts DEF WindowSound
<1> QED
  BY <1>1 DEF Signalled

\* A message that the channel is closed stays true.
LEMMA HeardClosed ==
    ASSUME DisplayInv, DatabaseStep, UNCHANGED window, NEW w \in Windows, "closed" \in signals[w]
    PROVE  Dead(window[w].link, Profile[w])'
<1> DEFINE d == window[w].link
<1>1. WindowSound(w) /\ window[w] \in Window
  BY Parts
<1>2. window[w].phase = "live" /\ Dead(d, Profile[w])
  BY <1>1 DEF WindowSound
<1>3. d # None /\ d \in Links
  BY <1>1, <1>2 DEF WindowSound, Window
<1>4. Dead(d, Profile[w])'
  BY <1>2, <1>3, DeadStays, Constants DEF DatabaseStep
<1> QED
  BY <1>4 DEF Dead

\* A retired link is over for everybody.
LEMMA ClosedSignals ==
    ASSUME DisplayInv, DatabaseStep, UNCHANGED window, NEW ds,
           ds \subseteq {d \in Links : link[d].binding # "none"},
           signals' = Signalled(ds, "closed"),
           \A d \in ds : link'[d].root # "open"
    PROVE  /\ signals' \in [Windows -> SUBSET {"changed", "disabled", "closed"}]
           /\ \A w \in Windows :
                /\ signals'[w] # {} => window[w].subscribed
                /\ "closed" \in signals'[w] => Dead(window[w].link, Profile[w])'
<1>1. ASSUME NEW w \in Windows, "closed" \in signals[w]
      PROVE  Dead(window[w].link, Profile[w])'
  BY <1>1, HeardClosed
<1>2. ASSUME NEW w \in Windows, window[w].link \in ds
      PROVE  Dead(window[w].link, Profile[w])'
  BY <1>2, Parts DEF DatabaseSound, DatabaseStep, Forward, Dead
<1> QED
  BY <1>1, <1>2, SignalledTyped

\* A broadcast of another kind adds no closed message.
LEMMA OtherSignals ==
    ASSUME DisplayInv, DatabaseStep, UNCHANGED window, NEW ds,
           NEW kind \in {"changed", "disabled"},
           signals' = signals \/ signals' = Signalled(ds, kind)
    PROVE  /\ signals' \in [Windows -> SUBSET {"changed", "disabled", "closed"}]
           /\ \A w \in Windows :
                /\ signals'[w] # {} => window[w].subscribed
                /\ "closed" \in signals'[w] => Dead(window[w].link, Profile[w])'
<1>1. ASSUME NEW w \in Windows, "closed" \in signals[w]
      PROVE  Dead(window[w].link, Profile[w])'
  BY <1>1, HeardClosed
<1>2. CASE signals' = signals
  BY <1>1, <1>2, Parts DEF WindowSound
<1>3. CASE signals' = Signalled(ds, kind)
  BY <1>1, <1>3, SignalledTyped
<1> QED
  BY <1>2, <1>3

\* The teacher, the operator and the clock.
LEMMA Administrated ==
    ASSUME DisplayInv, Administration
    PROVE  DisplayInv' /\ LinksMove
<1> /\ DatabaseSound /\ link \in [Links -> Link] /\ live \in Slide
    /\ live.version \in 1..live.stamp /\ gate \in BOOLEAN /\ lectureOpen \in BOOLEAN
  BY Parts DEF DatabaseSound
<1>1. ASSUME NEW d \in Links, NEW realtime \in BOOLEAN, Issue(d, realtime)
      PROVE  DisplayInv' /\ LinksMove
  <2> DEFINE ds == {e \in Links : link[e].binding \in {"open", "disabled"}}
  <2>1. /\ signals' = Signalled(ds, "closed") /\ UNCHANGED <<window, stored, answers, reports>>
        /\ DatabaseStep /\ d \notin ds
        /\ \A e \in Links : link'[e].by # None =>
              link'[e].by = link[e].by /\ link'[e].version = link[e].version
        /\ \A e \in Links \ {d} : link'[e].root # "open"
    BY <1>1, IssueKeeps DEF Issue
  <2>2. \A e \in ds : link'[e].root # "open"
    BY <2>1
  <2> QED
    BY <2>1, <2>2, ClosedSignals, AdministrationKeeps DEF DatabaseStep
<1> DEFINE bound == {e \in Links : link[e].binding \in {"open", "disabled"}}
<1>9. ASSUME RetireAll, lectureOpen' \in BOOLEAN, lectureOpen' => lectureOpen,
             UNCHANGED <<gate, live, latest>>, UNCHANGED <<window, stored, answers, reports>>
      PROVE  DisplayInv' /\ LinksMove
  <2>1. /\ signals' = Signalled(bound, "closed")
        /\ link' = [d \in Links |-> Retired(link[d])]
    BY <1>9 DEF RetireAll
  <2>2. /\ DatabaseStep
        /\ \A d \in Links : /\ link'[d].by = link[d].by /\ link'[d].version = link[d].version
                            /\ link'[d].root # "open"
    <3>1. UNCHANGED <<gate, live, latest>>
      BY <1>9
    <3> QED
      BY <1>9, <2>1, <3>1, RetireKeeps, Zenon
  <2>3. /\ bound \subseteq {d \in Links : link[d].binding # "none"}
        /\ \A d \in bound : link'[d].root # "open"
    BY <2>2
  <2>4. UNCHANGED window /\ UNCHANGED <<window, stored, answers, reports>>
    BY <1>9
  <2> HIDE DEF bound
  <2>5. /\ signals' \in [Windows -> SUBSET {"changed", "disabled", "closed"}]
        /\ \A w \in Windows :
             /\ signals'[w] # {} => window[w].subscribed
             /\ "closed" \in signals'[w] => Dead(window[w].link, Profile[w])'
    BY <2>1, <2>2, <2>3, <2>4, ClosedSignals
  <2>6. \A d \in Links : link'[d].by # None =>
              link'[d].by = link[d].by /\ link'[d].version = link[d].version
    BY <2>2
  <2>7. DisplayInv'
    BY <2>2, <2>4, <2>5, <2>6, AdministrationKeeps
  <2> QED
    BY <2>2, <2>7 DEF DatabaseStep
<1>2. CASE CloseLecture
  <2>1. lectureOpen' = FALSE
    BY <1>2 DEF CloseLecture
  <2>2. RetireAll /\ UNCHANGED <<gate, live, latest>> /\ UNCHANGED <<window, stored, answers, reports>>
    BY <1>2 DEF CloseLecture
  <2> QED
    BY <1>9, <2>1, <2>2
<1>8. CASE RevokeAdmin
  <2>1. lectureOpen' = lectureOpen
    BY <1>8 DEF RevokeAdmin
  <2>2. RetireAll /\ UNCHANGED <<gate, live, latest>> /\ UNCHANGED <<window, stored, answers, reports>>
    BY <1>8 DEF RevokeAdmin
  <2> QED
    BY <1>9, <2>1, <2>2
<1>3. CASE DisableGate
  <2> DEFINE ds == {d \in Links : link[d].binding = "open"}
  <2>1. /\ signals' = Signalled(ds, "disabled") /\ UNCHANGED <<window, stored, answers, reports>>
        /\ gate' = FALSE /\ UNCHANGED <<lectureOpen, live, latest>>
        /\ link' = [d \in Links |-> IF link[d].binding = "open"
                                    THEN [link[d] EXCEPT !.binding = "disabled"] ELSE link[d]]
    BY <1>3 DEF DisableGate
  <2>2. ASSUME NEW r \in Link
        PROVE  LET n == [r EXCEPT !.binding = "disabled"]
               IN  /\ n \in Link /\ n.root = r.root /\ n.user = r.user /\ n.term = r.term
                   /\ n.by = r.by /\ n.version = r.version /\ n.binding = "disabled"
    BY DEF Link
  <2>3. /\ link' \in [Links -> Link]
        /\ \A d \in Links :
             /\ link'[d].root = link[d].root /\ link'[d].user = link[d].user
             /\ link'[d].term = link[d].term /\ link'[d].by = link[d].by
             /\ link'[d].version = link[d].version
             /\ link'[d].binding = IF link[d].binding = "open" THEN "disabled" ELSE link[d].binding
    BY <2>1, <2>2
  <2>4. DatabaseStep
    <3>1. \A d \in Links :
            /\ \/ link'[d].binding = link[d].binding
               \/ link[d].binding = "open" /\ link'[d].binding = "disabled"
            /\ link'[d].binding # "open"
            /\ link[d].root = "unissued" => link'[d].by = None
      BY <2>3 DEF DatabaseSound
    <3> QED
      BY <2>1, <2>3, <3>1, RowsKept
  <2> QED
    BY <2>1, <2>3, <2>4, OtherSignals, AdministrationKeeps DEF DatabaseStep
<1>4. CASE EnableGate
  <2>1. /\ gate' = TRUE /\ UNCHANGED <<lectureOpen, live, link, latest, signals>>
        /\ UNCHANGED <<window, stored, answers, reports>>
    BY <1>4 DEF EnableGate
  <2>2. DatabaseStep
    BY <2>1, RowsKept DEF DatabaseSound
  <2> QED
    BY <2>1, <2>2, OtherSignals, AdministrationKeeps DEF DatabaseStep
<1>5. ASSUME NEW d \in Links, TermEnds(d) \/ GoesQuiet(d)
      PROVE  DisplayInv' /\ LinksMove
  <2>1. /\ UNCHANGED <<gate, lectureOpen, live, latest, signals>>
        /\ UNCHANGED <<window, stored, answers, reports>>
        /\ \/ link' = [link EXCEPT ![d].term = FALSE]
           \/ link' = [link EXCEPT ![d].fresh = FALSE]
    BY <1>5 DEF TermEnds, GoesQuiet
  <2>2. ASSUME NEW r \in Link
        PROVE  LET n == [r EXCEPT !.term = FALSE]
               IN  /\ n \in Link /\ n.root = r.root /\ n.user = r.user /\ n.term = FALSE
                   /\ n.by = r.by /\ n.version = r.version /\ n.binding = r.binding
    BY DEF Link
  <2>3. ASSUME NEW r \in Link
        PROVE  LET n == [r EXCEPT !.fresh = FALSE]
               IN  /\ n \in Link /\ n.root = r.root /\ n.user = r.user /\ n.term = r.term
                   /\ n.by = r.by /\ n.version = r.version /\ n.binding = r.binding
    BY DEF Link
  <2>4. /\ link' \in [Links -> Link]
        /\ \A e \in Links :
             /\ link'[e].root = link[e].root /\ link'[e].user = link[e].user
             /\ link'[e].term => link[e].term
             /\ link'[e].by = link[e].by
             /\ link'[e].version = link[e].version /\ link'[e].binding = link[e].binding
    <3>1. CASE link' = [link EXCEPT ![d].term = FALSE]
      BY <2>2, <3>1
    <3>2. CASE link' = [link EXCEPT ![d].fresh = FALSE]
      BY <2>3, <3>2
    <3> QED
      BY <2>1, <3>1, <3>2
  <2>5. DatabaseStep
    BY <2>1, <2>4, RowsKept DEF DatabaseSound
  <2> QED
    BY <2>1, <2>4, <2>5, OtherSignals, AdministrationKeeps DEF DatabaseStep
<1>6. CASE OtherChange \/ \E p \in 1..MaxPage : TurnPage(p)
  <2> DEFINE ds == {d \in Links : Running(d) /\ link[d].user # None}
  <2>1. /\ UNCHANGED <<gate, lectureOpen, link, latest>>
        /\ UNCHANGED <<window, stored, answers, reports>>
        /\ signals' = Signalled(ds, "changed")
        /\ live.stamp < MaxStamp
        /\ \/ live' = [live EXCEPT !.stamp = @ + 1]
           \/ \E p \in 1..MaxPage :
                live' = [page |-> p, version |-> live.version + 1, stamp |-> live.stamp + 1]
    BY <1>6 DEF OtherChange, TurnPage, Announce
  <2>2. /\ live' \in Slide /\ live'.version \in 1..live'.stamp /\ live'.stamp > live.stamp
        /\ live'.version >= live.version
        /\ live'.version = live.version => live'.page = live.page
    BY <2>1, Constants DEF Slide
  <2>3. DatabaseStep
    BY <2>1, <2>2 DEF DatabaseStep, DatabaseSound, Forward, LinksMove, OneDisplay
  <2> QED
    BY <2>1, <2>3, OtherSignals, AdministrationKeeps DEF DatabaseStep
<1> QED
  BY <1>1, <1>2, <1>3, <1>4, <1>5, <1>6, <1>8 DEF Administration

-----------------------------------------------------------------------------
(* Steps of one window.                                                       *)

\* Nothing happens to any other window.
Elsewhere(w) ==
    \A x \in Windows \ {w} : /\ window'[x] = window[x] /\ stored'[x] = stored[x]
                             /\ answers'[x] = answers[x] /\ signals'[x] = signals[x]

\* A step of w keeps the invariant if it does for w, for what w has sent and for the rows
\* that name w.
LEMMA OneWindow ==
    ASSUME DisplayInv, DatabaseStep, WindowsTyped', NEW w \in Windows, Elsewhere(w),
           WindowSound(w)',
           \A m \in reports' :
              \/ MessageSound(m)'
              \/ /\ m \in reports
                 /\ m.window = w => SameLoad(w) /\ (m.awaited => window'[w].phase = "live"),
           \A d \in Links :
              \/ AcknowledgedSound(d)'
              \/ link'[d].by # None => /\ link'[d].by = link[d].by
                                       /\ link'[d].version = link[d].version
                                       /\ link[d].by = w => SameLoad(w)
    PROVE  DisplayInv'
<1>1. DatabaseSound' /\ Forward
  BY DEF DatabaseStep
<1>2. \A x \in Windows \ {w} : SameLoad(x)
  BY <1>1 DEF SameLoad, InStepWindow, Forward, Elsewhere
<1>3. ASSUME NEW x \in Windows PROVE WindowSound(x)'
  <2>1. CASE x = w
    BY <2>1
  <2>2. CASE x # w
    <3>1. /\ window'[x] = window[x] /\ stored'[x] = stored[x]
          /\ answers'[x] = answers[x] /\ signals'[x] = signals[x]
      BY <2>2 DEF Elsewhere
    <3>2. WindowSound(x) /\ window[x] \in Window
      BY Parts
    <3>3. signals'[x] # {} => window[x].subscribed
      BY <3>1, <3>2 DEF WindowSound
    <3>4. "closed" \in signals'[x] => Dead(window[x].link, Profile[x])'
      <4>1. SUFFICES ASSUME "closed" \in signals[x] PROVE Dead(window[x].link, Profile[x])'
        BY <3>1
      <4>2. Dead(window[x].link, Profile[x]) /\ window[x].phase = "live"
        BY <3>2, <4>1 DEF WindowSound
      <4>3. window[x].link \in Links
        BY <3>2, <4>2 DEF WindowSound, Window
      <4>4. PICK d \in Links : d = window[x].link
        BY <4>3
      <4>5. Dead(d, Profile[x])'
        BY <1>1, <4>2, <4>4, DeadStays, Constants
      <4> QED
        BY <3>1, <4>4, <4>5 DEF Dead
    <3> QED
      BY <1>1, <3>1, <3>3, <3>4, WindowStays
  <2> QED
    BY <2>1, <2>2
<1>4. ASSUME NEW m \in reports' PROVE MessageSound(m)'
  <2>1. CASE MessageSound(m)'
    BY <2>1
  <2>2. CASE /\ m \in reports
             /\ m.window = w => SameLoad(w) /\ (m.awaited => window'[w].phase = "live")
    <3>1. m \in Message /\ MessageSound(m) /\ m.window \in Windows \cup {None}
      BY <2>2, Parts DEF Message
    <3>2. m.awaited => window'[m.window].phase = "live"
      BY <2>2, <3>1 DEF MessageSound, Elsewhere
    <3>3. m.window # None => SameLoad(m.window)
      BY <1>2, <2>2, <3>1
    <3> QED
      BY <1>1, <3>1, <3>2, <3>3, MessageStays
  <2> QED
    BY <2>1, <2>2
<1>5. ASSUME NEW d \in Links PROVE AcknowledgedSound(d)'
  <2>1. CASE AcknowledgedSound(d)'
    BY <2>1
  <2>2. CASE link'[d].by # None => /\ link'[d].by = link[d].by
                                   /\ link'[d].version = link[d].version
                                   /\ link[d].by = w => SameLoad(w)
    <3>1. link[d].by \in Windows \cup {None}
      BY Parts DEF Link
    <3> QED
      BY <1>1, <1>2, <2>2, <3>1, AcknowledgedStays
  <2> QED
    BY <2>1, <2>2
<1> QED
  BY <1>1, <1>3, <1>4, <1>5 DEF DisplayInv

\* The load goes on: the window keeps its link, it at most goes on with snapshots only, and
\* what is new in it is in order.
Continues(w) ==
    /\ window'[w].link = window[w].link /\ window'[w].url \in {window[w].url, None}
    /\ \/ /\ window'[w].phase = window[w].phase
          /\ window'[w].generation = window[w].generation
       \/ window[w].phase = "live" /\ window'[w].phase = "fallback"
    /\ stored'[w] = stored[w]
    /\ \A i \in DOMAIN answers'[w] :
          \/ \E j \in DOMAIN answers[w] : /\ answers'[w][i].slide = answers[w][j].slide
                                          /\ answers'[w][i].valid = answers[w][j].valid
                                          /\ answers'[w][i].read = answers[w][j].read
          \/ Showing(w) /\ AnswerSound(w, answers[w][i])'
    /\ signals'[w] # {} => window'[w].subscribed
    /\ "closed" \in signals'[w] => "closed" \in signals[w]
    /\ window'[w].phase # "live" =>
          /\ ~window'[w].subscribed /\ ~window'[w].ready /\ ~window'[w].beating
          /\ window'[w].pending = NoReport /\ window'[w].sending = NoReport
    /\ \/ window'[w].shown = window[w].shown
       \/ /\ SlideSound(window[w].shown)' /\ Showing(w)
          /\ link'[window[w].link].user = Profile[w]
    /\ live'.version = live.version /\ InStepWindow(w) => InStepWindow(w)'
    /\ RenderSound(w, window[w].pending.stamp)' /\ RenderSound(w, window[w].sending.stamp)'
    /\ window'[w].closed => window[w].closed \/ ~lectureOpen'

\* A load that goes on stays sound.
LEMMA LoadStays ==
    ASSUME DisplayInv, DatabaseSound', Forward, WindowsTyped', NEW w \in Windows, Continues(w)
    PROVE  WindowSound(w)' /\ SameLoad(w)
<1> DEFINE v == window[w]
           n == window'[w]
<1>1. /\ v \in Window /\ n \in Window /\ stored[w].link \in Links \cup {None}
      /\ WindowSound(w) /\ answers[w] \in Seq(Answer) /\ answers'[w] \in Seq(Answer)
  BY DEF DisplayInv, WindowsTyped
<1>2. v.link \in Links \cup {None} /\ v.url \in Links \cup {None} /\ v.shown \in Slide
      /\ n.shown \in Slide
  BY <1>1 DEF Window
<1>3. live \in Slide /\ live' \in Slide
  BY DEF DisplayInv, DatabaseSound
<1>4. Issued(window[w].link)' /\ Issued(window[w].url)' /\ Issued(stored[w].link)'
  <2>1. \A d \in Links \cup {None} : Issued(d) => Issued(d)'
    BY IssuedStays
  <2>2. \A d \in Links \cup {None} :
          d \in {window[w].link, window[w].url, stored[w].link} => Issued(d)
    BY <1>1 DEF WindowSound
  <2>3. \A d \in Links \cup {None} :
          d \in {window[w].link, window[w].url, stored[w].link, None} => Issued(d)'
    BY <2>1, <2>2 DEF Issued
  <2> QED
    BY <1>1, <1>2, <2>3 DEF Issued, Continues
<1>6. SlideSound(window[w].shown)'
  <2>1. CASE window'[w].shown = window[w].shown
    <3>1. PICK t \in Slide : t = window[w].shown
      BY <1>2
    <3>2. SlideSound(t)'
      BY <1>1, <1>3, <3>1, SlideStays DEF WindowSound
    <3> QED
      BY <2>1, <3>1, <3>2 DEF SlideSound
  <2> QED
    BY <2>1 DEF Continues
<1>7. \A i \in DOMAIN answers'[w] : AnswerSound(w, answers[w][i])' /\ Showing(w)
  <2> TAKE i \in DOMAIN answers'[w]
  <2>1. CASE Showing(w) /\ AnswerSound(w, answers[w][i])'
    BY <2>1
  <2>2. ASSUME NEW j \in DOMAIN answers[w], answers'[w][i].slide = answers[w][j].slide,
               answers'[w][i].valid = answers[w][j].valid, answers'[w][i].read = answers[w][j].read
        PROVE  AnswerSound(w, answers[w][i])' /\ Showing(w)
    <3>1. answers[w][j] \in Answer /\ AnswerSound(w, answers[w][j]) /\ Showing(w)
      BY <1>1 DEF WindowSound
    <3>2. v.link \in Links
      BY <1>1, <1>2, <3>1 DEF WindowSound, Showing
    <3>3. PICK a \in Answer : a = answers[w][j]
      BY <3>1
    <3>4. AnswerSound(w, a)'
      BY <3>1, <3>2, <3>3, AnswerStays DEF Continues
    <3> QED
      BY <2>2, <3>1, <3>3, <3>4 DEF AnswerSound, SlideSound, Dead, Terminal
  <2> QED
    BY <2>1, <2>2 DEF Continues
<1>8. v.link # None => link'[v.link].user = Profile[w] \/ link[v.link].user # Profile[w]
  BY <1>1, <1>2, Constants DEF Forward, WindowSound, Issued
<1>9. /\ n.phase = "live" => n.generation \in 1..MaxGeneration /\ link'[n.link].user = Profile[w]
      /\ n.shown # NoSlide => Showing(w)' /\ link'[n.link].user = Profile[w]
      /\ answers'[w] # <<>> => Showing(w)'
  <2>1. answers'[w] # <<>> => 1 \in DOMAIN answers'[w]
    BY <1>1
  <2> QED
    BY <1>1, <1>7, <1>8, <2>1 DEF WindowSound, Showing, Continues
<1>10. "closed" \in signals'[w] => Dead(window[w].link, Profile[w])'
  <2>1. SUFFICES ASSUME "closed" \in signals[w] PROVE Dead(window[w].link, Profile[w])'
    BY DEF Continues
  <2>2. Dead(v.link, Profile[w]) /\ v.phase = "live"
    BY <1>1, <2>1 DEF WindowSound
  <2>3. PICK d \in Links : d = v.link
    BY <1>1, <1>2, <2>2 DEF WindowSound
  <2>4. Dead(d, Profile[w])'
    BY <2>2, <2>3, DeadStays, Constants
  <2> QED
    BY <2>3, <2>4 DEF Dead, Continues
<1>11. /\ n.phase \in {"claiming", "live", "fallback"} <=> n.link # None
       /\ n.phase = "shut" => stored'[w] = NoLaunch
       /\ n.phase = "claiming" /\ stored'[w].link = n.link => stored'[w].generation < MaxGeneration
  BY <1>1 DEF WindowSound, Continues
<1>12. SameLoad(w)
  BY DEF Continues, SameLoad
<1>13. stored'[w] = stored[w]
  BY DEF Continues
<1>14. /\ signals'[w] # {} => n.subscribed
       /\ n.phase # "live" =>
            /\ ~n.subscribed /\ ~n.ready /\ ~n.beating
            /\ n.pending = NoReport /\ n.sending = NoReport
       /\ RenderSound(w, window[w].pending.stamp)' /\ RenderSound(w, window[w].sending.stamp)'
  BY DEF Continues
<1>16. n.closed => ~lectureOpen'
  BY <1>1 DEF Continues, WindowSound, Forward
<1>15. WindowSound(w)'
  BY <1>4, <1>6, <1>7, <1>9, <1>10, <1>11, <1>13, <1>14, <1>16
     DEF WindowSound, Issued, SlideSound, Showing, Dead, RenderSound, InStepWindow, AnswerSound
<1> QED
  BY <1>12, <1>15

\* A step after which the load of w goes on keeps the invariant.
LEMMA LoadKeeps ==
    ASSUME DisplayInv, DatabaseStep, WindowsTyped', NEW w \in Windows, Elsewhere(w), Continues(w),
           \A m \in reports' : m \in reports \/ MessageSound(m)',
           window'[w].phase = window[w].phase \/ \A m \in reports' : ~(m.window = w /\ m.awaited),
           \A d \in Links : link'[d].by = link[d].by /\ link'[d].version = link[d].version
    PROVE  DisplayInv'
<1>1. WindowSound(w)' /\ SameLoad(w)
  BY LoadStays DEF DatabaseStep
<1>2. \A m \in reports \cap reports' : m.window = w /\ m.awaited => window'[w].phase = "live"
  BY Parts DEF MessageSound
<1> QED
  BY <1>1, <1>2, OneWindow

\* A report that is as sound as it was.
LEMMA ReportStays ==
    ASSUME DisplayInv, DatabaseStep, NEW w \in Windows,
           live'.version = live.version /\ InStepWindow(w) => InStepWindow(w)'
    PROVE  /\ \A stamp \in {window[w].pending.stamp, window[w].sending.stamp, 0} :
                 RenderSound(w, stamp)'
           /\ NoReport.stamp = 0
<1>1. WindowSound(w) /\ window[w] \in Window /\ live \in Slide /\ live' \in Slide
      /\ live'.version \in 1..live'.stamp /\ Forward
  BY Parts DEF DatabaseStep, DatabaseSound
<1>2. /\ window[w].pending.stamp \in Nat /\ window[w].sending.stamp \in Nat
      /\ RenderSound(w, window[w].pending.stamp) /\ RenderSound(w, window[w].sending.stamp)
  BY <1>1 DEF Window, Rendered, WindowSound
<1>3. ASSUME NEW stamp \in Nat, RenderSound(w, stamp) PROVE RenderSound(w, stamp)'
  BY <1>1, <1>3, RenderStays
<1>4. RenderSound(w, 0)' /\ NoReport.stamp = 0
  BY <1>1 DEF RenderSound, NoReport, Slide
<1>5. ASSUME NEW stamp \in {window[w].pending.stamp, window[w].sending.stamp}
      PROVE  RenderSound(w, stamp)'
  BY <1>2, <1>3
<1> QED
  BY <1>4, <1>5

\* A window that shows nothing yet.
Blank(w) ==
    /\ window'[w].shown = NoSlide
    /\ ~window'[w].subscribed /\ ~window'[w].ready /\ ~window'[w].beating
    /\ window'[w].pending = NoReport /\ window'[w].sending = NoReport
    /\ answers'[w] = <<>> /\ signals'[w] = {}
    /\ window'[w].closed => ~lectureOpen'

\* A window that shows nothing is sound once its links and its stored launch are.
LEMMA BlankSound ==
    ASSUME DatabaseSound', NEW w \in Windows, Blank(w),
           Issued(window[w].link)', Issued(window[w].url)', Issued(stored[w].link)',
           window'[w].phase \in {"claiming", "live", "fallback"} <=> window'[w].link # None,
           window'[w].phase = "live" =>
              window'[w].generation \in 1..MaxGeneration /\ link'[window'[w].link].user = Profile[w],
           window'[w].phase = "shut" => stored'[w] = NoLaunch,
           window'[w].phase = "claiming" /\ stored'[w].link = window'[w].link
              => stored'[w].generation < MaxGeneration
    PROVE  WindowSound(w)'
<1>1. live' \in Slide /\ live'.version \in 1..live'.stamp
  BY DEF DatabaseSound
<1>2. SlideSound(window[w].shown)'
  BY <1>1 DEF SlideSound, NoSlide, Slide, Blank
<1>3. RenderSound(w, window[w].pending.stamp)' /\ RenderSound(w, window[w].sending.stamp)'
  BY <1>1 DEF RenderSound, NoReport, Slide, Blank
<1>4. /\ window'[w].shown = NoSlide /\ answers'[w] = <<>> /\ signals'[w] = {}
      /\ ~window'[w].subscribed /\ ~window'[w].ready /\ ~window'[w].beating
      /\ window'[w].pending = NoReport /\ window'[w].sending = NoReport
      /\ window'[w].closed => ~lectureOpen'
  BY DEF Blank
<1> QED
  BY <1>2, <1>3, <1>4 DEF WindowSound

-----------------------------------------------------------------------------
(* Loads begin and end.                                                       *)

\* A window that is shut holds nothing.
LEMMA ShutTyped ==
    /\ Shut \in Window
    /\ Shut.shown = NoSlide /\ ~Shut.subscribed /\ ~Shut.ready /\ ~Shut.beating
    /\ Shut.pending = NoReport /\ Shut.sending = NoReport
    /\ Shut.phase = "shut" /\ Shut.link = None /\ Shut.url = None /\ ~Shut.closed
<1>1. 0 \in 0..MaxGeneration /\ NoSlide \in Slide /\ NoReport \in Rendered
  BY Constants DEF NoSlide, NoReport, Slide, Rendered
<1> HIDE DEF NoSlide, NoReport
<1> QED
  BY <1>1 DEF Shut, Window

\* A window that loads holds its link and nothing else.
LEMMA LoadingTyped ==
    ASSUME NEW d \in Links, NEW url \in Links \cup {None}, NEW closed \in BOOLEAN,
           NEW v, v = Loading(d, url, closed)
    PROVE  /\ v \in Window
           /\ v.shown = NoSlide /\ ~v.subscribed /\ ~v.ready /\ ~v.beating
           /\ v.pending = NoReport /\ v.sending = NoReport
           /\ v.phase = "claiming" /\ v.link = d /\ v.url = url /\ v.closed = closed
BY ShutTyped DEF Loading, Window

\* A terminal screen holds at most the address it was opened with.
LEMMA EndedTyped ==
    ASSUME DisplayInv, NEW w \in Windows, NEW v, v = Ended(w)
    PROVE  /\ v \in Window
           /\ v.shown = NoSlide /\ ~v.subscribed /\ ~v.ready /\ ~v.beating
           /\ v.pending = NoReport /\ v.sending = NoReport
           /\ v.phase = "ended" /\ v.link = None /\ v.url = window[w].url /\ ~v.closed
<1>1. window[w].url \in Links \cup {None}
  BY Parts DEF Window
<1> QED
  BY <1>1, ShutTyped DEF Ended, Window

\* No stored launch is well formed.
LEMMA NoLaunchTyped ==
    NoLaunch \in [link : Links \cup {None}, generation : 0..MaxGeneration] /\ NoLaunch.link = None
BY Constants DEF NoLaunch

\* A window that did not claim its link yet is in no report and in no row.
LEMMA NoTrace ==
    ASSUME DisplayInv, NEW w \in Windows, window[w].phase \in {"shut", "claiming"}
    PROVE  /\ \A m \in reports : m.window # w
           /\ \A d \in Links : link[d].by # w
BY Parts, Constants DEF MessageSound, AcknowledgedSound

\* A step of a window that shows nothing afterwards keeps the invariant, if no report and no
\* row of the load that went speaks of the window any more.
LEMMA BlankKeeps ==
    ASSUME DisplayInv, DatabaseStep, WindowsTyped', NEW w \in Windows, Elsewhere(w), Blank(w),
           Issued(window[w].link)', Issued(window[w].url)', Issued(stored[w].link)',
           window'[w].phase \in {"claiming", "live", "fallback"} <=> window'[w].link # None,
           window'[w].phase = "live" =>
              window'[w].generation \in 1..MaxGeneration /\ link'[window'[w].link].user = Profile[w],
           window'[w].phase = "shut" => stored'[w] = NoLaunch,
           window'[w].phase = "claiming" /\ stored'[w].link = window'[w].link
              => stored'[w].generation < MaxGeneration,
           \A m \in reports' : MessageSound(m)' \/ (m \in reports /\ m.window # w),
           \A d \in Links :
              \/ AcknowledgedSound(d)'
              \/ link'[d].by # None => /\ link'[d].by = link[d].by /\ link[d].by # w
                                       /\ link'[d].version = link[d].version
    PROVE  DisplayInv'
<1>1. WindowSound(w)'
  BY BlankSound DEF DatabaseStep
<1> QED
  BY <1>1, OneWindow

\* The reports of a load that goes are as well formed as before.
LEMMA AbandonedTyped ==
    ASSUME DisplayInv, NEW w \in Windows, NEW v \in {w, None}, reports' = Abandoned(w, v)
    PROVE  /\ reports' \subseteq Message
           /\ \A n \in reports' :
                \/ n \in reports /\ n.window # w
                \/ \E m \in reports : /\ m.window = w /\ n.window = v /\ ~n.awaited
                                      /\ n.link = m.link /\ n.user = m.user
                                      /\ n.action = m.action /\ n.stamp = m.stamp
<1>1. ASSUME NEW m \in Message
      PROVE  LET n == [m EXCEPT !.window = v, !.awaited = FALSE]
             IN  /\ n \in Message /\ n.window = v /\ ~n.awaited
                 /\ n.link = m.link /\ n.user = m.user
                 /\ n.action = m.action /\ n.stamp = m.stamp
  BY DEF Message
<1>2. reports \subseteq Message
  BY Parts
<1>3. ASSUME NEW n \in reports'
      PROVE  /\ n \in Message
             /\ \/ n \in reports /\ n.window # w
                \/ \E m \in reports : /\ m.window = w /\ n.window = v /\ ~n.awaited
                                      /\ n.link = m.link /\ n.user = m.user
                                      /\ n.action = m.action /\ n.stamp = m.stamp
  <2>1. PICK m \in reports :
          n = IF m.window = w THEN [m EXCEPT !.window = v, !.awaited = FALSE] ELSE m
    BY DEF Abandoned
  <2>2. CASE m.window = w
    BY <1>1, <1>2, <2>1, <2>2
  <2>3. CASE m.window # w
    BY <1>2, <2>1, <2>3
  <2> QED
    BY <2>2, <2>3
<1> QED
  BY <1>3

\* OpenLink: the window was shut, so nobody speaks of it.
LEMMA OpenLinkKeeps ==
    ASSUME DisplayInv, NEW w \in Windows, NEW d \in Links, OpenLink(w, d)
    PROVE  DisplayInv' /\ LinksMove
<1>0. PICK closed \in Restored : window' = [window EXCEPT ![w] = Loading(d, d, closed)]
  BY DEF OpenLink
<1> DEFINE v == Loading(d, d, closed)
<1>1. /\ window[w].phase = "shut" /\ link[d].root # "unissued"
      /\ window' = [window EXCEPT ![w] = v]
      /\ UNCHANGED <<database, stored, answers, signals, reports>>
  BY <1>0 DEF OpenLink
<1>c. closed \in BOOLEAN /\ (closed => ~lectureOpen)
  BY Parts DEF Restored, DatabaseSound
<1>2. /\ v \in Window
      /\ v.shown = NoSlide /\ ~v.subscribed /\ ~v.ready /\ ~v.beating
      /\ v.pending = NoReport /\ v.sending = NoReport
      /\ v.phase = "claiming" /\ v.link = d /\ v.url = d /\ v.closed = closed
  BY <1>c, LoadingTyped
<1> HIDE DEF v
<1>3. /\ DatabaseStep /\ link' = link
  BY <1>1, UnchangedKeeps, Parts DEF database
<1>4. window'[w] = v /\ WindowsTyped'
  BY <1>1, <1>2, Parts DEF WindowsTyped
<1>5. Elsewhere(w)
  BY <1>1, Parts DEF Elsewhere
<1>6. WindowSound(w) /\ stored[w] = NoLaunch /\ answers[w] = <<>> /\ signals[w] = {}
  BY <1>1, Parts DEF WindowSound, Showing
<1>7. Blank(w)
  BY <1>1, <1>2, <1>4, <1>6, <1>c DEF Blank, database
<1>8. Issued(window[w].link)' /\ Issued(window[w].url)' /\ Issued(stored[w].link)'
  BY <1>1, <1>2, <1>3, <1>4, <1>6, NoLaunchTyped DEF Issued
<1>9. stored'[w].link # window'[w].link
  BY <1>1, <1>2, <1>4, <1>6, NoLaunchTyped, Constants
<1>10. DisplayInv'
  BY <1>1, <1>2, <1>3, <1>4, <1>5, <1>7, <1>8, <1>9, NoTrace, BlankKeeps, Constants
<1> QED
  BY <1>3, <1>10 DEF DatabaseStep

\* Nothing is left of a load that goes.
LEMMA LeavesKeeps ==
    ASSUME DisplayInv, NEW w \in Windows, NEW v \in Window, Leaves(w, v),
           NEW launch \in [link : Links \cup {None}, generation : 0..MaxGeneration],
           stored' = [stored EXCEPT ![w] = launch],
           UNCHANGED <<gate, lectureOpen, live, latest>>,
           v.shown = NoSlide, ~v.subscribed, ~v.ready, ~v.beating,
           v.pending = NoReport, v.sending = NoReport,
           Issued(v.link), Issued(v.url), Issued(launch.link),
           v.phase \in {"shut", "claiming", "ended"},
           v.phase = "claiming" <=> v.link # None,
           v.phase = "shut" => launch = NoLaunch,
           v.phase = "claiming" /\ launch.link = v.link => launch.generation < MaxGeneration,
           v.closed => ~lectureOpen
    PROVE  DisplayInv' /\ LinksMove
<1>1. /\ window' = [window EXCEPT ![w] = v]
      /\ answers' = [answers EXCEPT ![w] = <<>>]
      /\ signals' = [signals EXCEPT ![w] = {}]
      /\ reports' = Abandoned(w, None)
      /\ link' = [d \in Links |-> [link[d] EXCEPT !.by = IF @ = w THEN None ELSE @]]
  BY DEF Leaves
<1>2. ASSUME NEW r \in Link, NEW x \in Windows \cup {None}
      PROVE  LET n == [r EXCEPT !.by = x]
             IN  /\ n \in Link /\ n.root = r.root /\ n.user = r.user /\ n.term = r.term
                 /\ n.by = x /\ n.version = r.version /\ n.binding = r.binding
  BY DEF Link
<1>3. /\ link' \in [Links -> Link]
      /\ \A d \in Links :
           /\ link'[d].root = link[d].root /\ link'[d].user = link[d].user
           /\ link'[d].term = link[d].term /\ link'[d].binding = link[d].binding
           /\ link'[d].version = link[d].version
           /\ link'[d].by = IF link[d].by = w THEN None ELSE link[d].by
  <2>1. ASSUME NEW d \in Links
        PROVE  LET x == IF link[d].by = w THEN None ELSE link[d].by
               IN  x \in Windows \cup {None} /\ link[d] \in Link
                   /\ link'[d] = [link[d] EXCEPT !.by = x]
    BY <1>1, Parts DEF Link
  <2>2. ASSUME NEW d \in Links
        PROVE  /\ link'[d] \in Link
               /\ link'[d].root = link[d].root /\ link'[d].user = link[d].user
               /\ link'[d].term = link[d].term /\ link'[d].binding = link[d].binding
               /\ link'[d].version = link[d].version
               /\ link'[d].by = IF link[d].by = w THEN None ELSE link[d].by
    <3>1. PICK x \in Windows \cup {None} :
            /\ x = IF link[d].by = w THEN None ELSE link[d].by
            /\ link[d] \in Link /\ link'[d] = [link[d] EXCEPT !.by = x]
      BY <2>1
    <3>2. PICK r \in Link : r = link[d]
      BY <3>1
    <3> QED
      BY <1>2, <3>1, <3>2
  <2>3. link' = [d \in Links |-> link'[d]]
    BY <1>1
  <2> QED
    BY <2>2, <2>3
<1>4. DatabaseStep
  <2>1. \A d \in Links : /\ link'[d].binding = "open" => gate'
                         /\ link[d].root = "unissued" => link'[d].by = None
    BY <1>3, Parts DEF DatabaseSound
  <2>2. DatabaseSound /\ gate' \in BOOLEAN /\ UNCHANGED <<lectureOpen, latest, live>>
    BY Parts DEF DatabaseSound
  <2> QED
    BY <1>3, <2>1, <2>2, RowsKept
<1>5. /\ reports' \subseteq Message
      /\ \A n \in reports' :
           \/ n \in reports /\ n.window # w
           \/ \E m \in reports : n.window = None /\ ~n.awaited /\ n.link = m.link
  BY <1>1, AbandonedTyped
<1>6. /\ window'[w] = v /\ stored'[w] = launch /\ answers'[w] = <<>> /\ signals'[w] = {}
      /\ WindowsTyped' /\ Elsewhere(w)
  BY <1>1, <1>5, Parts DEF WindowsTyped, Elsewhere
<1>7. Blank(w)
  BY <1>6 DEF Blank
<1>8. \A d \in Links \cup {None} : Issued(d) => Issued(d)'
  BY <1>4, IssuedStays DEF DatabaseStep
<1>9. Issued(window[w].link)' /\ Issued(window[w].url)' /\ Issued(stored[w].link)'
  <2>1. v.link \in Links \cup {None} /\ v.url \in Links \cup {None} /\ launch.link \in Links \cup {None}
    BY DEF Window
  <2>2. \A d \in Links \cup {None} : d \in {v.link, v.url, launch.link} => Issued(d)'
    BY <1>8
  <2> QED
    BY <1>6, <2>1, <2>2 DEF Issued
<1>10. \A n \in reports' : MessageSound(n)' \/ (n \in reports /\ n.window # w)
  <2>1. ASSUME NEW n \in reports', NEW m \in reports,
               n.window = None, ~n.awaited, n.link = m.link
        PROVE  MessageSound(n)'
    <3>1. m.link \in Links /\ Issued(m.link)
      BY Parts DEF Message, MessageSound
    <3>2. PICK d \in Links : d = n.link
      BY <2>1, <3>1
    <3> QED
      BY <1>8, <2>1, <3>1, <3>2 DEF MessageSound, Issued
  <2> QED
    BY <1>5, <2>1
<1>11. DisplayInv'
  BY <1>3, <1>4, <1>6, <1>7, <1>9, <1>10, BlankKeeps
<1> QED
  BY <1>4, <1>11 DEF DatabaseStep

\* Reload: the old load is in no report and no row any more.
LEMMA ReloadKeeps ==
    ASSUME DisplayInv, NEW w \in Windows, Reload(w)
    PROVE  DisplayInv' /\ LinksMove
<1>1. /\ stored[w].generation < MaxGeneration /\ UNCHANGED <<gate, lectureOpen, live, latest>>
      /\ stored' = IF Launch(w) = None THEN [stored EXCEPT ![w] = NoLaunch] ELSE stored
  BY DEF Reload
<1>c. PICK closed \in Restored :
        Leaves(w, IF Launch(w) = None THEN Ended(w)
                  ELSE Loading(Launch(w), window[w].url, closed))
  BY DEF Reload
<1>d. closed \in BOOLEAN /\ (closed => ~lectureOpen)
  BY Parts DEF Restored, DatabaseSound
<1>2. /\ Issued(window[w].url) /\ Issued(stored[w].link)
      /\ window[w].url \in Links \cup {None} /\ stored[w].link \in Links \cup {None}
      /\ stored[w] \in [link : Links \cup {None}, generation : 0..MaxGeneration]
      /\ stored = [stored EXCEPT ![w] = stored[w]]
  BY Parts DEF WindowSound, Window, WindowsTyped
<1>3. CASE Launch(w) = None
  <2> DEFINE v == Ended(w)
  <2>1. Leaves(w, v) /\ stored' = [stored EXCEPT ![w] = NoLaunch]
    BY <1>1, <1>3, <1>c
  <2>2. /\ v \in Window
        /\ v.shown = NoSlide /\ ~v.subscribed /\ ~v.ready /\ ~v.beating
        /\ v.pending = NoReport /\ v.sending = NoReport
        /\ v.phase = "ended" /\ v.link = None /\ v.url = window[w].url /\ ~v.closed
    BY EndedTyped
  <2>3. Issued(None)
    BY DEF Issued
  <2>4. PICK launch \in [link : Links \cup {None}, generation : 0..MaxGeneration] :
          launch = NoLaunch /\ launch.link = None
    BY NoLaunchTyped
  <2> HIDE DEF v
  <2>5. Issued(v.link) /\ Issued(v.url) /\ Issued(launch.link) /\ v.phase # "claiming" /\ v.phase # "shut"
    BY <1>2, <2>2, <2>3, <2>4
  <2>6. stored' = [stored EXCEPT ![w] = launch]
    BY <2>1, <2>4
  <2> QED
    BY <1>1, <2>1, <2>2, <2>5, <2>6, LeavesKeeps
<1>4. CASE Launch(w) # None
  <2> DEFINE d == Launch(w)
             v == Loading(d, window[w].url, closed)
  <2>1. Leaves(w, v) /\ stored' = [stored EXCEPT ![w] = stored[w]]
    BY <1>1, <1>2, <1>4, <1>c
  <2>2. d \in Links /\ Issued(d)
    BY <1>2, <1>4 DEF Launch
  <2>3. /\ v \in Window
        /\ v.shown = NoSlide /\ ~v.subscribed /\ ~v.ready /\ ~v.beating
        /\ v.pending = NoReport /\ v.sending = NoReport
        /\ v.phase = "claiming" /\ v.link = d /\ v.url = window[w].url /\ v.closed = closed
    BY <1>2, <1>d, <2>2, LoadingTyped
  <2> HIDE DEF v, d
  <2>4. v.link # None
    BY <2>2, <2>3, Constants
  <2> QED
    BY <1>1, <1>2, <1>d, <2>1, <2>2, <2>3, <2>4, LeavesKeeps
<1> QED
  BY <1>3, <1>4

\* CloseTab: nor is the load of a tab that was closed.
LEMMA CloseTabKeeps ==
    ASSUME DisplayInv, NEW w \in Windows, CloseTab(w)
    PROVE  DisplayInv' /\ LinksMove
<1>1. /\ Leaves(w, Shut) /\ stored' = [stored EXCEPT ![w] = NoLaunch]
      /\ UNCHANGED <<gate, lectureOpen, live, latest>>
  BY DEF CloseTab
<1>2. Issued(None)
  BY DEF Issued
<1> QED
  BY <1>1, <1>2, ShutTyped, NoLaunchTyped, LeavesKeeps

\* What a claim of w finds: the window has nothing yet.
LEMMA ClaimingBlank ==
    ASSUME DisplayInv, NEW w \in Windows, window[w].phase = "claiming"
    PROVE  /\ window[w] \in Window /\ window[w].link \in Links
           /\ Issued(window[w].link) /\ Issued(window[w].url) /\ Issued(stored[w].link)
           /\ link[window[w].link].root # "unissued"
           /\ window[w].url \in Links \cup {None}
           /\ window[w].shown = NoSlide
           /\ ~window[w].subscribed /\ ~window[w].ready /\ ~window[w].beating
           /\ window[w].pending = NoReport /\ window[w].sending = NoReport
           /\ answers[w] = <<>> /\ signals[w] = {}
           /\ stored[w] \in [link : Links \cup {None}, generation : 0..MaxGeneration]
           /\ stored[w].link = window[w].link => stored[w].generation < MaxGeneration
           /\ window[w].closed => ~lectureOpen
<1>1. WindowSound(w) /\ window[w] \in Window
  BY Parts
<1>2. window[w].link \in Links
  BY <1>1 DEF WindowSound, Window
<1>3. link[window[w].link].root # "unissued"
  BY <1>1, <1>2, Constants DEF WindowSound, Issued
<1>4. stored[w] \in [link : Links \cup {None}, generation : 0..MaxGeneration]
  BY Parts DEF WindowsTyped
<1> QED
  BY <1>1, <1>2, <1>3, <1>4 DEF WindowSound, Showing, Window

\* The window goes on from its claim as v, with the launch it stores.
LEMMA ClaimedKeeps ==
    ASSUME DisplayInv, NEW w \in Windows, window[w].phase = "claiming", NEW v \in Window,
           NEW launch \in [link : Links \cup {None}, generation : 0..MaxGeneration],
           DatabaseStep,
           \A d \in Links : link'[d].by = link[d].by /\ link'[d].version = link[d].version,
           window' = [window EXCEPT ![w] = v], stored' = [stored EXCEPT ![w] = launch],
           UNCHANGED <<answers, signals, reports>>,
           v.shown = NoSlide, ~v.subscribed, ~v.ready, ~v.beating,
           v.pending = NoReport, v.sending = NoReport,
           v.url \in {window[w].url, None}, v.link \in {window[w].link, None},
           launch.link \in {stored[w].link, window[w].link, None},
           v.phase \in {"live", "fallback", "ended"},
           v.phase \in {"live", "fallback"} <=> v.link # None,
           v.phase = "live" =>
              v.generation \in 1..MaxGeneration /\ link'[v.link].user = Profile[w],
           v.closed => ~lectureOpen
    PROVE  DisplayInv' /\ LinksMove
<1>1. /\ window'[w] = v /\ stored'[w] = launch
      /\ WindowsTyped' /\ Elsewhere(w)
  BY Parts DEF WindowsTyped, Elsewhere
<1>2. Blank(w)
  BY <1>1, ClaimingBlank DEF Blank, DatabaseStep, Forward
<1>3. \A d \in Links \cup {None} :
        d \in {window[w].link, window[w].url, stored[w].link, None} => Issued(d)'
  BY ClaimingBlank, IssuedStays DEF DatabaseStep, Issued
<1>4. Issued(window[w].link)' /\ Issued(window[w].url)' /\ Issued(stored[w].link)'
  <2>1. v.link \in Links \cup {None} /\ v.url \in Links \cup {None} /\ launch.link \in Links \cup {None}
    BY DEF Window
  <2>2. \A d \in Links \cup {None} : d \in {v.link, v.url, launch.link} => Issued(d)'
    BY <1>3
  <2> QED
    BY <1>1, <2>1, <2>2 DEF Issued
<1>5. \A m \in reports' : m \in reports /\ m.window # w
  BY NoTrace
<1>6. \A d \in Links : link'[d].by # None => /\ link'[d].by = link[d].by /\ link[d].by # w
                                             /\ link'[d].version = link[d].version
  BY NoTrace
<1>7. DisplayInv'
  BY <1>1, <1>2, <1>4, <1>5, <1>6, BlankKeeps
<1> QED
  BY <1>7 DEF DatabaseStep

\* The generation of a new load is in its bounds.
LEMMA PersistedTyped ==
    ASSUME DisplayInv, NEW w \in Windows, window[w].phase = "claiming"
    PROVE  /\ Persisted(w) \in [link : Links \cup {None}, generation : 0..MaxGeneration]
           /\ Persisted(w).link = window[w].link
           /\ Persisted(w).generation \in 1..MaxGeneration
<1> DEFINE g == IF stored[w].link = window[w].link THEN stored[w].generation + 1 ELSE 1
<1>1. g \in 1..MaxGeneration
  BY ClaimingBlank, Constants
<1>2. Persisted(w) = [link |-> window[w].link, generation |-> g]
  BY DEF Persisted
<1> HIDE DEF g
<1>3. g \in 0..MaxGeneration /\ window[w].link \in Links \cup {None}
  BY <1>1, ClaimingBlank, Constants
<1> QED
  BY <1>1, <1>2, <1>3

\* Claim, with a session, as a conflict, and without a session.
LEMMA ClaimStepKeeps ==
    ASSUME DisplayInv, NEW w \in Windows, Claim(w)
    PROVE  DisplayInv' /\ LinksMove
<1>0. PICK d \in Links : d = window[w].link
  BY ClaimingBlank DEF Claim
<1> DEFINE u == Profile[w]
<1>1. /\ window[w].phase = "claiming" /\ link' = Claimed(d, u)
      /\ UNCHANGED <<gate, lectureOpen, live, latest>> /\ UNCHANGED <<answers, signals, reports>>
  BY <1>0 DEF Claim
<1>2. /\ DatabaseSound /\ u \in Users /\ u # None
  BY Parts, Constants
<1>3. /\ DatabaseStep /\ (Claimable(d, u) => link'[d].user = u)
      /\ \A e \in Links : link'[e].by = link[e].by /\ link'[e].version = link[e].version
  BY <1>1, <1>2, ClaimKeeps
<1>4. CASE /\ Claimable(d, u)
           /\ stored' = [stored EXCEPT ![w] = Persisted(w)]
           /\ window' = [window EXCEPT ![w] = [@ EXCEPT !.phase = "live", !.url = None,
                                         !.generation = Persisted(w).generation]]
  <2>1. PICK launch \in [link : Links \cup {None}, generation : 0..MaxGeneration] :
          launch = Persisted(w)
    BY <1>1, PersistedTyped
  <2>2. launch.link = d /\ launch.generation \in 1..MaxGeneration
    BY <1>0, <1>1, <2>1, PersistedTyped
  <2> DEFINE v == [window[w] EXCEPT !.phase = "live", !.url = None,
                                    !.generation = launch.generation]
  <2>3. window' = [window EXCEPT ![w] = v] /\ stored' = [stored EXCEPT ![w] = launch]
    BY <1>4, <2>1
  <2>4. PICK r \in Window : r = window[w]
    BY <1>1, ClaimingBlank
  <2>5. /\ v \in Window /\ v.phase = "live" /\ v.url = None /\ v.generation = launch.generation
        /\ v.link = r.link /\ v.shown = r.shown /\ v.pending = r.pending /\ v.sending = r.sending
        /\ v.subscribed = r.subscribed /\ v.ready = r.ready /\ v.beating = r.beating
        /\ v.closed = r.closed
    BY <2>4 DEF Window
  <2> HIDE DEF v
  <2>6. /\ v.shown = NoSlide /\ ~v.subscribed /\ ~v.ready /\ ~v.beating
        /\ v.pending = NoReport /\ v.sending = NoReport /\ v.link = d
        /\ v.closed => ~lectureOpen
    BY <1>0, <1>1, <2>4, <2>5, ClaimingBlank
  <2>7. v.link # None
    BY <2>6, Constants
  <2> QED
    <3>1. link'[v.link].user = Profile[w] /\ v.generation \in 1..MaxGeneration
      BY <1>3, <1>4, <2>2, <2>5, <2>6
    <3>2. v.link \in {window[w].link, None} /\ launch.link \in {stored[w].link, window[w].link, None}
          /\ v.url \in {window[w].url, None}
      BY <1>0, <2>2, <2>5, <2>6
    <3> QED
      BY <1>1, <1>3, <2>3, <2>5, <2>6, <2>7, <3>1, <3>2, ClaimedKeeps
<1>5. CASE /\ stored' = [stored EXCEPT ![w] = NoLaunch]
           /\ window' = [window EXCEPT ![w] = Ended(w)]
  BY <1>1, <1>3, <1>5, EndedTyped, NoLaunchTyped, ClaimedKeeps
<1>6. CASE window' = [window EXCEPT ![w].phase = "fallback"] /\ UNCHANGED stored
  <2>1. PICK launch \in [link : Links \cup {None}, generation : 0..MaxGeneration] :
          launch = stored[w]
    BY <1>1, ClaimingBlank
  <2> DEFINE v == [window[w] EXCEPT !.phase = "fallback"]
  <2>3. window' = [window EXCEPT ![w] = v] /\ stored' = [stored EXCEPT ![w] = launch]
    BY <1>6, <2>1, Parts DEF WindowsTyped
  <2>4. PICK r \in Window : r = window[w]
    BY <1>1, ClaimingBlank
  <2>5. /\ v \in Window /\ v.phase = "fallback" /\ v.url = r.url
        /\ v.link = r.link /\ v.shown = r.shown /\ v.pending = r.pending /\ v.sending = r.sending
        /\ v.subscribed = r.subscribed /\ v.ready = r.ready /\ v.beating = r.beating
        /\ v.closed = r.closed
    BY <2>4 DEF Window
  <2> HIDE DEF v
  <2>6. /\ v.shown = NoSlide /\ ~v.subscribed /\ ~v.ready /\ ~v.beating
        /\ v.pending = NoReport /\ v.sending = NoReport /\ v.link = d
        /\ v.closed => ~lectureOpen
    BY <1>0, <1>1, <2>4, <2>5, ClaimingBlank
  <2>7. v.link # None
    BY <2>6, Constants
  <2> QED
    BY <1>0, <1>1, <1>3, <2>1, <2>3, <2>4, <2>5, <2>6, <2>7, ClaimedKeeps
<1> QED
  BY <1>0, <1>4, <1>5, <1>6 DEF Claim

\* ClaimUnavailable: the database was not asked.
LEMMA ClaimUnavailableKeeps ==
    ASSUME DisplayInv, NEW w \in Windows, ClaimUnavailable(w)
    PROVE  DisplayInv' /\ LinksMove
<1>1. /\ window[w].phase = "claiming"
      /\ window' = [window EXCEPT ![w].phase = "fallback"]
      /\ UNCHANGED <<database, stored, answers, signals, reports>>
  BY DEF ClaimUnavailable
<1>2. /\ DatabaseStep
      /\ \A e \in Links : link'[e].by = link[e].by /\ link'[e].version = link[e].version
  BY <1>1, UnchangedKeeps, Parts DEF database
<1>3. PICK launch \in [link : Links \cup {None}, generation : 0..MaxGeneration] :
        launch = stored[w]
  BY <1>1, ClaimingBlank
<1> DEFINE v == [window[w] EXCEPT !.phase = "fallback"]
<1>4. /\ window' = [window EXCEPT ![w] = v] /\ stored' = [stored EXCEPT ![w] = launch]
      /\ UNCHANGED <<answers, signals, reports>>
  BY <1>1, <1>3, Parts DEF WindowsTyped
<1>5. PICK r \in Window : r = window[w]
  BY <1>1, ClaimingBlank
<1>6. /\ v \in Window /\ v.phase = "fallback" /\ v.url = r.url
      /\ v.link = r.link /\ v.shown = r.shown /\ v.pending = r.pending /\ v.sending = r.sending
      /\ v.subscribed = r.subscribed /\ v.ready = r.ready /\ v.beating = r.beating
      /\ v.closed = r.closed
  BY <1>5 DEF Window
<1> HIDE DEF v
<1>7. /\ v.shown = NoSlide /\ ~v.subscribed /\ ~v.ready /\ ~v.beating
      /\ v.pending = NoReport /\ v.sending = NoReport
      /\ v.closed => ~lectureOpen
  BY <1>1, <1>5, <1>6, ClaimingBlank
<1>8. v.link # None
  BY <1>1, <1>5, <1>6, ClaimingBlank, Constants
<1>9. v.link = window[w].link /\ v.url = window[w].url /\ launch.link = stored[w].link
  BY <1>3, <1>5, <1>6
<1> QED
  BY <1>1, <1>2, <1>4, <1>6, <1>7, <1>8, <1>9, ClaimedKeeps

\* ClaimFails, whether or not the database executed it.
LEMMA ClaimFailsKeeps ==
    ASSUME DisplayInv, NEW w \in Windows, ClaimFails(w)
    PROVE  DisplayInv' /\ LinksMove
<1>0. PICK d \in Links : d = window[w].link
  BY ClaimingBlank DEF ClaimFails
<1>1. /\ window[w].phase = "claiming" /\ link' \in {link, Claimed(d, Profile[w])}
      /\ UNCHANGED <<gate, lectureOpen, live, latest>> /\ UNCHANGED <<answers, signals, reports>>
      /\ stored' = [stored EXCEPT ![w] = NoLaunch]
      /\ window' = [window EXCEPT ![w] = Ended(w)]
  BY <1>0 DEF ClaimFails
<1>3. /\ DatabaseStep
      /\ \A e \in Links : link'[e].by = link[e].by /\ link'[e].version = link[e].version
  <2>1. CASE link' = link
    BY <1>1, <2>1, UnchangedKeeps, Parts DEF database
  <2>2. CASE link' = Claimed(d, Profile[w])
    BY <1>1, <2>2, ClaimKeeps, Parts, Constants
  <2> QED
    BY <1>1, <2>1, <2>2
<1> QED
  BY <1>1, <1>3, EndedTyped, NoLaunchTyped, ClaimedKeeps

\* A load ends for good only when its link is dead.
LEMMA FinishesKeeps ==
    ASSUME DisplayInv, NEW w \in Windows, Finishes(w),
           window[w].link # None, Dead(window[w].link, Profile[w])
    PROVE  DisplayInv' /\ LinksMove
<1> DEFINE v == Ended(w)
<1>1. /\ window' = [window EXCEPT ![w] = v]
      /\ stored' = [stored EXCEPT ![w] = NoLaunch]
      /\ answers' = [answers EXCEPT ![w] = <<>>]
      /\ signals' = [signals EXCEPT ![w] = {}]
      /\ reports' = Abandoned(w, w)
      /\ UNCHANGED database
  BY DEF Finishes
<1>2. /\ v \in Window
      /\ v.shown = NoSlide /\ ~v.subscribed /\ ~v.ready /\ ~v.beating
      /\ v.pending = NoReport /\ v.sending = NoReport
      /\ v.phase = "ended" /\ v.link = None /\ v.url = window[w].url /\ ~v.closed
  BY EndedTyped
<1> HIDE DEF v
<1>3. /\ DatabaseStep /\ link' = link
  BY <1>1, UnchangedKeeps, Parts DEF database
<1>4. /\ reports' \subseteq Message
      /\ \A n \in reports' :
           \/ n \in reports /\ n.window # w
           \/ \E m \in reports : /\ m.window = w /\ n.window = w /\ ~n.awaited
                                 /\ n.link = m.link /\ n.user = m.user
  BY <1>1, AbandonedTyped
<1>5. /\ window'[w] = v /\ stored'[w] = NoLaunch /\ answers'[w] = <<>> /\ signals'[w] = {}
      /\ WindowsTyped' /\ Elsewhere(w)
  BY <1>1, <1>2, <1>4, NoLaunchTyped, Parts DEF WindowsTyped, Elsewhere
<1>6. Blank(w)
  BY <1>2, <1>5 DEF Blank
<1>7. /\ \A d \in Links \cup {None} : Issued(d) => Issued(d)'
      /\ \A d \in Links : Dead(d, Profile[w]) => Dead(d, Profile[w])'
  BY <1>3, IssuedStays, DeadStays, Constants DEF DatabaseStep
<1>8. Issued(window[w].link)' /\ Issued(window[w].url)' /\ Issued(stored[w].link)'
  <2>1. Issued(window[w].url) /\ window[w].url \in Links \cup {None}
    BY Parts DEF WindowSound, Window
  <2>2. PICK d \in Links \cup {None} : d = window[w].url
    BY <2>1
  <2>3. Issued(d)'
    BY <1>7, <2>1, <2>2
  <2> QED
    BY <1>2, <1>5, <2>2, <2>3, NoLaunchTyped DEF Issued
<1>9. \A n \in reports' : MessageSound(n)' \/ (n \in reports /\ n.window # w)
  <2>1. ASSUME NEW n \in reports', NEW m \in reports, m.window = w,
               n.window = w, ~n.awaited, n.link = m.link, n.user = m.user
        PROVE  MessageSound(n)'
    <3>1. m.link \in Links /\ MessageSound(m)
      BY Parts DEF Message
    <3>2. m.user = Profile[w] /\ Dead(m.link, Profile[w]) /\ Issued(m.link)
      BY <2>1, <3>1, Constants DEF MessageSound
    <3>3. PICK d \in Links : d = n.link
      BY <2>1, <3>1
    <3>4. Dead(d, Profile[w])' /\ Issued(d)'
      BY <1>7, <2>1, <3>2, <3>3
    <3> QED
      BY <1>2, <1>5, <2>1, <3>2, <3>3, <3>4 DEF MessageSound, Issued, Dead
  <2> QED
    BY <1>4, <2>1
<1>10. ASSUME NEW d \in Links
       PROVE  \/ AcknowledgedSound(d)'
              \/ link'[d].by # None => /\ link'[d].by = link[d].by /\ link[d].by # w
                                       /\ link'[d].version = link[d].version
  <2>1. SUFFICES ASSUME link[d].by = w PROVE AcknowledgedSound(d)'
    BY <1>3
  <2>2. /\ AcknowledgedSound(d) /\ w # None
    BY Parts, Constants
  <2>3. Dead(d, Profile[w]) /\ link[d].user = Profile[w] /\ link[d].version <= live.version
    BY <2>1, <2>2 DEF AcknowledgedSound
  <2>4. Dead(d, Profile[w])'
    BY <1>7, <2>3
  <2>5. link'[d].by = w /\ link'[d].user = Profile[w] /\ link'[d].version <= live'.version
    BY <1>1, <2>1, <2>3 DEF database
  <2> QED
    BY <1>2, <1>5, <2>4, <2>5 DEF AcknowledgedSound, Dead
<1>11. DisplayInv'
  BY <1>2, <1>3, <1>5, <1>6, <1>8, <1>9, <1>10, BlankKeeps
<1> QED
  BY <1>3, <1>11 DEF DatabaseStep

\* Each way to end a window proves its link dead: a closed channel, a refusal that was not
\* overtaken, a term that is over.
LEMMA EndingsKeep ==
    ASSUME DisplayInv, NEW w \in Windows,
           \/ HearClosed(w) \/ Expire(w)
           \/ \E i \in DOMAIN answers[w] : ReceiveEnd(w, i)
    PROVE  DisplayInv' /\ LinksMove
<1>1. WindowSound(w) /\ window[w] \in Window /\ answers[w] \in Seq(Answer)
  BY Parts
<1>2. CASE HearClosed(w)
  <2>1. Finishes(w) /\ window[w].phase = "live" /\ Dead(window[w].link, Profile[w])
    BY <1>1, <1>2 DEF HearClosed, WindowSound
  <2> QED
    BY <1>1, <2>1, FinishesKeeps DEF WindowSound
<1>3. CASE Expire(w)
  <2>1. Finishes(w) /\ window[w].phase = "live" /\ ~link[window[w].link].term
    BY <1>3 DEF Expire
  <2>2. window[w].link # None /\ Dead(window[w].link, Profile[w])
    BY <1>1, <2>1 DEF WindowSound, Dead, Issued
  <2> QED
    BY <2>1, <2>2, FinishesKeeps
<1>4. ASSUME NEW i \in DOMAIN answers[w], ReceiveEnd(w, i)
      PROVE  DisplayInv' /\ LinksMove
  <2>1. Finishes(w) /\ ~answers[w][i].valid /\ AnswerSound(w, answers[w][i]) /\ answers[w] # <<>>
    BY <1>1, <1>4 DEF ReceiveEnd, WindowSound
  <2>2. window[w].link # None /\ Dead(window[w].link, Profile[w])
    BY <1>1, <2>1 DEF WindowSound, AnswerSound, Showing
  <2> QED
    BY <2>1, <2>2, FinishesKeeps
<1> QED
  BY <1>2, <1>3, <1>4

-----------------------------------------------------------------------------
(* A load goes on.                                                            *)

\* What w becomes is n, and nothing was asked of it that its load had not.
Touched(w, n) ==
    LET v == window[w]
    IN  /\ n.link = v.link /\ n.url = v.url /\ n.phase = v.phase /\ n.generation = v.generation
        /\ n.phase # "live" => /\ ~n.subscribed /\ ~n.ready /\ ~n.beating
                               /\ n.pending = NoReport /\ n.sending = NoReport
        /\ n.shown = v.shown \/ (/\ SlideSound(n.shown) /\ Showing(w)
                                 /\ link[v.link].user = Profile[w])
        /\ InStepWindow(w) => /\ n.drawn /\ n.shown.page = live.page
                              /\ n.shown.version = live.version
        /\ n.pending \in {v.pending, v.sending, NoReport}
             \/ (n.drawn /\ n.pending.stamp = n.shown.stamp)
        /\ n.sending \in {v.pending, v.sending, NoReport}
        /\ n.closed => v.closed \/ ~lectureOpen

\* A load that is only touched goes on.
LEMMA TouchContinues ==
    ASSUME DisplayInv, DatabaseStep, live' = live,
           NEW w \in Windows, NEW n \in Window, window'[w] = n, stored'[w] = stored[w],
           Touched(w, n),
           \A d \in Links : link[d].user = Profile[w] => link'[d].user = Profile[w],
           \A i \in DOMAIN answers'[w] :
              \/ \E j \in DOMAIN answers[w] : /\ answers'[w][i].slide = answers[w][j].slide
                                              /\ answers'[w][i].valid = answers[w][j].valid
                                              /\ answers'[w][i].read = answers[w][j].read
              \/ Showing(w) /\ AnswerSound(w, answers[w][i])',
           signals'[w] # {} => n.subscribed,
           "closed" \in signals'[w] => "closed" \in signals[w]
    PROVE  Continues(w)
<1> DEFINE v == window[w]
<1>1. v \in Window /\ WindowSound(w) /\ live \in Slide /\ live.version \in 1..live.stamp
  BY Parts DEF DatabaseSound
<1>2. InStepWindow(w) => InStepWindow(w)'
  BY DEF InStepWindow, Touched
<1>3. \A stamp \in {v.pending.stamp, v.sending.stamp, 0} : RenderSound(w, stamp)'
  BY <1>2, ReportStays
<1>4. SlideSound(n.shown)
  BY <1>1 DEF Touched, WindowSound
<1>5. n.drawn => RenderSound(w, n.shown.stamp)'
  BY <1>1, <1>4 DEF RenderSound, SlideSound, InStepWindow, Window, Slide
<1>6. RenderSound(w, window[w].pending.stamp)' /\ RenderSound(w, window[w].sending.stamp)'
  <2>1. PICK p : p = n.pending.stamp
    OBVIOUS
  <2>2. PICK s : s = n.sending.stamp
    OBVIOUS
  <2>3. s \in {v.pending.stamp, v.sending.stamp, 0}
    BY <2>2 DEF Touched, NoReport
  <2>4. p \in {v.pending.stamp, v.sending.stamp, 0} \/ (n.drawn /\ p = n.shown.stamp)
    BY <2>1 DEF Touched, NoReport
  <2>5. RenderSound(w, p)' /\ RenderSound(w, s)'
    BY <1>3, <1>5, <2>3, <2>4
  <2> QED
    BY <2>1, <2>2, <2>5 DEF RenderSound, InStepWindow
<1>7. \/ n.shown = v.shown
      \/ /\ SlideSound(window[w].shown)' /\ Showing(w)
         /\ link'[v.link].user = Profile[w]
  <2>1. CASE n.shown = v.shown
    BY <2>1
  <2>2. CASE SlideSound(n.shown) /\ Showing(w) /\ link[v.link].user = Profile[w]
    <3>1. v.link \in Links
      BY <1>1, <2>2 DEF WindowSound, Window, Showing
    <3> QED
      BY <2>2, <3>1 DEF SlideSound
  <2> QED
    BY <2>1, <2>2 DEF Touched
<1>8. n.closed => v.closed \/ ~lectureOpen'
  BY DEF Touched, DatabaseStep, Forward
<1> QED
  BY <1>2, <1>6, <1>7, <1>8 DEF Continues, Touched

\* One step of a load that leaves the database alone.
LEMMA TouchKeeps ==
    ASSUME DisplayInv, UNCHANGED <<database, stored>>, WindowsTyped',
           NEW w \in Windows, NEW n \in Window, window'[w] = n, Elsewhere(w), Touched(w, n),
           \A i \in DOMAIN answers'[w] : \E j \in DOMAIN answers[w] :
              /\ answers'[w][i].slide = answers[w][j].slide
              /\ answers'[w][i].valid = answers[w][j].valid
              /\ answers'[w][i].read = answers[w][j].read,
           signals'[w] # {} => n.subscribed,
           "closed" \in signals'[w] => "closed" \in signals[w],
           \A m \in reports' : m \in reports \/ MessageSound(m)'
    PROVE  DisplayInv' /\ LinksMove
<1>1. DatabaseStep /\ live' = live /\ link' = link
  BY UnchangedKeeps, Parts DEF database
<1>2. Continues(w)
  BY <1>1, TouchContinues
<1>3. window'[w].phase = window[w].phase
  BY DEF Touched
<1>4. DisplayInv'
  BY <1>1, <1>2, <1>3, LoadKeeps
<1> QED
  BY <1>1, <1>4 DEF DatabaseStep

\* The reporter takes up what is drawn.
LEMMA ReportedFields ==
    ASSUME NEW n \in Window, NEW r, r = Reported(n)
    PROVE  /\ r \in Window
           /\ r.link = n.link /\ r.url = n.url /\ r.phase = n.phase
           /\ r.generation = n.generation /\ r.shown = n.shown /\ r.drawn = n.drawn
           /\ r.subscribed = n.subscribed /\ r.ready = n.ready /\ r.beating = n.beating
           /\ r.sending = n.sending /\ r.closed = n.closed
           /\ \/ r.pending = n.pending
              \/ n.phase = "live" /\ n.drawn /\ r.pending.stamp = n.shown.stamp
<1> DEFINE p == [page |-> n.shown.page, stamp |-> n.shown.stamp]
<1>1. p \in Rendered /\ p.stamp = n.shown.stamp
  BY DEF Window, Slide, Rendered
<1>2. r = IF n.phase = "live" /\ n.subscribed /\ n.drawn /\ n.awake THEN [n EXCEPT !.pending = p] ELSE n
  BY DEF Reported
<1> HIDE DEF p
<1>3. CASE r = n
  BY <1>3
<1>4. CASE r = [n EXCEPT !.pending = p] /\ n.phase = "live" /\ n.drawn
  BY <1>1, <1>4 DEF Window
<1> QED
  BY <1>2, <1>3, <1>4

\* Nothing read yet is sound.
LEMMA NoSlideTyped == NoSlide \in Slide
BY Constants DEF NoSlide, Slide

LEMMA NoSlideSound ==
    ASSUME DatabaseSound, UNCHANGED live
    PROVE  SlideSound(NoSlide) /\ SlideSound(NoSlide)'
BY DEF DatabaseSound, SlideSound, NoSlide, Slide

\* A snapshot request claims, and its answer says what the claim came to.
LEMMA AskKeeps ==
    ASSUME DisplayInv, NEW w \in Windows, NEW forced \in BOOLEAN, Ask(w, forced), Showing(w),
           UNCHANGED <<gate, lectureOpen, live, latest, window, stored, reports>>,
           \A x \in Windows \ {w} : signals'[x] = signals[x],
           signals' \in [Windows -> SUBSET {"changed", "disabled", "closed"}],
           signals'[w] \subseteq signals[w]
    PROVE  DisplayInv' /\ LinksMove
<1>1. window[w] \in Window /\ WindowSound(w) /\ answers \in [Windows -> Seq(Answer)]
      /\ live \in Slide /\ DatabaseSound
  BY Parts
<1>2. window[w].link \in Links
  BY <1>1 DEF Showing, WindowSound, Window
<1>3. PICK d \in Links : d = window[w].link
  BY <1>2
<1>4. link[d].root # "unissued"
  BY <1>1, <1>3, Constants DEF WindowSound, Issued
<1>5. PICK known \in 0..MaxStamp : known = IF forced THEN 0 ELSE window[w].shown.version
  BY <1>1, Constants DEF Window, Slide
<1>6. PICK valid \in BOOLEAN : valid = Claimable(d, Profile[w])
  BY DEF Claimable
<1> DEFINE a == [valid |-> valid, late |-> FALSE, read |-> FALSE, known |-> known,
                 slide |-> NoSlide]
<1>7. /\ link' = Claimed(d, Profile[w])
      /\ answers' = [answers EXCEPT ![w] = Append(@, a)]
  BY <1>3, <1>5, <1>6 DEF Ask
<1>8. a \in Answer /\ a.slide = NoSlide /\ a.valid = valid /\ ~a.read
  BY <1>5, NoSlideTyped DEF Answer
<1> HIDE DEF a
<1>9. /\ DatabaseStep /\ (Claimable(d, Profile[w]) => link'[d].user = Profile[w])
      /\ \A e \in Links : link'[e].by = link[e].by /\ link'[e].version = link[e].version
      /\ ~Claimable(d, Profile[w]) => Dead(d, Profile[w])'
  BY <1>1, <1>4, <1>7, ClaimKeeps, Constants
<1>10. /\ answers' \in [Windows -> Seq(Answer)]
       /\ \A x \in Windows \ {w} : answers'[x] = answers[x]
       /\ \A i \in DOMAIN answers'[w] :
            answers'[w][i] = a \/ (i \in DOMAIN answers[w] /\ answers'[w][i] = answers[w][i])
  BY <1>1, <1>7, <1>8
<1>11. WindowsTyped' /\ Elsewhere(w)
  BY <1>10, Parts DEF WindowsTyped, Elsewhere
<1>12. \A i \in DOMAIN answers'[w] :
          \/ \E j \in DOMAIN answers[w] : /\ answers'[w][i].slide = answers[w][j].slide
                                          /\ answers'[w][i].valid = answers[w][j].valid
                                          /\ answers'[w][i].read = answers[w][j].read
          \/ Showing(w) /\ AnswerSound(w, answers[w][i])'
  <2> TAKE i \in DOMAIN answers'[w]
  <2>1. CASE answers'[w][i] = a
    <3>1. SlideSound(NoSlide)'
      BY <1>1, NoSlideSound
    <3>2. valid => link'[d].user = Profile[w]
      BY <1>6, <1>9
    <3>3. ~valid => Dead(d, Profile[w])'
      BY <1>6, <1>9
    <3> QED
      BY <1>3, <1>8, <2>1, <3>1, <3>2, <3>3 DEF AnswerSound, SlideSound, Dead, Terminal
  <2> QED
    BY <1>10, <2>1
<1>13. window'[w] = window[w] /\ Touched(w, window[w])
  BY <1>1 DEF Touched, WindowSound, InStepWindow
<1>14. \A e \in Links : link[e].user = Profile[w] => link'[e].user = Profile[w]
  BY <1>9, Constants DEF DatabaseStep, LinksMove
<1>15. signals'[w] # {} => window[w].subscribed
  BY <1>1 DEF WindowSound
<1>16. Continues(w)
  BY <1>1, <1>9, <1>12, <1>13, <1>14, <1>15, TouchContinues
<1>17. DisplayInv'
  BY <1>9, <1>11, <1>13, <1>16, LoadKeeps
<1> QED
  BY <1>9, <1>17 DEF DatabaseStep

\* Poll and Refresh.
LEMMA PollKeeps ==
    ASSUME DisplayInv, NEW w \in Windows, Poll(w) \/ Refresh(w)
    PROVE  DisplayInv' /\ LinksMove
<1>1. signals \in [Windows -> SUBSET {"changed", "disabled", "closed"}]
  BY Parts
<1>2. CASE Poll(w)
  <2>1. /\ Showing(w) /\ Ask(w, FALSE) /\ signals' = signals
        /\ UNCHANGED <<gate, lectureOpen, live, latest, window, stored, reports>>
    BY <1>2 DEF Poll
  <2> QED
    BY <1>1, <2>1, AskKeeps
<1>3. CASE Refresh(w)
  <2>1. /\ Showing(w) /\ Ask(w, TRUE) /\ signals' = [signals EXCEPT ![w] = @ \ {"changed"}]
        /\ UNCHANGED <<gate, lectureOpen, live, latest, window, stored, reports>>
    BY <1>3 DEF Refresh, Showing
  <2>2. /\ signals' \in [Windows -> SUBSET {"changed", "disabled", "closed"}]
        /\ signals'[w] \subseteq signals[w] /\ \A x \in Windows \ {w} : signals'[x] = signals[x]
    BY <1>1, <2>1
  <2> QED
    BY <2>1, <2>2, AskKeeps
<1> QED
  BY <1>2, <1>3

\* Taking an answer only marks the earlier ones as late.
LEMMA OvertakenElements ==
    ASSUME DisplayInv, NEW w \in Windows, NEW i \in DOMAIN answers[w],
           answers' = [answers EXCEPT ![w] = Overtaken(w, i)]
    PROVE  /\ answers' \in [Windows -> Seq(Answer)]
           /\ \A k \in DOMAIN answers'[w] : \E j \in DOMAIN answers[w] :
                 /\ answers'[w][k].slide = answers[w][j].slide
                 /\ answers'[w][k].valid = answers[w][j].valid
                 /\ answers'[w][k].read = answers[w][j].read
<1>1. answers \in [Windows -> Seq(Answer)]
  BY Parts
<1>2. PICK s \in Seq(Answer) : s = answers[w]
  BY <1>1
<1>3. ASSUME NEW a \in Answer
      PROVE  LET n == [a EXCEPT !.late = TRUE]
             IN  n \in Answer /\ n.slide = a.slide /\ n.valid = a.valid /\ n.read = a.read
  BY DEF Answer
<1> DEFINE el(j) == IF j < i THEN [s[j] EXCEPT !.late = TRUE] ELSE s[j + 1]
           t == [j \in 1..(Len(s) - 1) |-> el(j)]
<1>4. ASSUME NEW k \in 1..(Len(s) - 1)
      PROVE  /\ el(k) \in Answer
             /\ \E j \in 1..Len(s) : /\ el(k).slide = s[j].slide /\ el(k).valid = s[j].valid
                                     /\ el(k).read = s[j].read
  <2>1. k \in 1..Len(s) /\ k + 1 \in 1..Len(s) /\ s[k] \in Answer /\ s[k + 1] \in Answer
    BY <1>2
  <2>2. CASE k < i
    <3>1. el(k) = [s[k] EXCEPT !.late = TRUE]
      BY <2>2
    <3>2. PICK a \in Answer : a = s[k]
      BY <2>1
    <3> HIDE DEF el
    <3> QED
      BY <1>3, <2>1, <3>1, <3>2
  <2>3. CASE ~(k < i)
    <3>1. el(k) = s[k + 1]
      BY <2>3
    <3> HIDE DEF el
    <3> QED
      BY <2>1, <3>1
  <2> QED
    BY <2>2, <2>3
<1>5. Overtaken(w, i) = t
  BY <1>2 DEF Overtaken
<1> HIDE DEF el
<1>6. t \in Seq(Answer) /\ \A k \in DOMAIN t : t[k] = el(k) /\ k \in 1..(Len(s) - 1)
  <2>1. Len(s) - 1 \in Nat
    BY <1>2
  <2>2. t \in [1..(Len(s) - 1) -> Answer]
    BY <1>4
  <2> QED
    BY <2>1, <2>2
<1> HIDE DEF t
<1>7. answers'[w] = t /\ answers' \in [Windows -> Seq(Answer)]
  BY <1>1, <1>5, <1>6
<1> QED
  BY <1>2, <1>4, <1>6, <1>7

\* Losing an answer adds none.
LEMMA RemovedElements ==
    ASSUME DisplayInv, NEW w \in Windows, NEW i \in DOMAIN answers[w],
           answers' = [answers EXCEPT ![w] = RemoveAt(@, i)]
    PROVE  /\ answers' \in [Windows -> Seq(Answer)]
           /\ \A k \in DOMAIN answers'[w] : \E j \in DOMAIN answers[w] :
                 /\ answers'[w][k].slide = answers[w][j].slide
                 /\ answers'[w][k].valid = answers[w][j].valid
                 /\ answers'[w][k].read = answers[w][j].read
<1>1. answers \in [Windows -> Seq(Answer)]
  BY Parts
<1>2. PICK s \in Seq(Answer) : s = answers[w]
  BY <1>1
<1> DEFINE t == RemoveAt(s, i)
<1>3. t \in Seq(Answer) /\ \A k \in 1..Len(t) : \E j \in 1..Len(s) : t[k] = s[j]
  <2>1. i \in 1..Len(s) /\ Len(s) \in Nat
    BY <1>2
  <2>2. PICK a \in Seq(Answer) : /\ a = SubSeq(s, 1, i - 1) /\ Len(a) = i - 1
                                 /\ \A k \in 1..(i - 1) : a[k] = s[k]
    <3>1. /\ SubSeq(s, 1, i - 1) \in Seq(Answer)
          /\ Len(SubSeq(s, 1, i - 1)) = IF 1 <= i - 1 THEN (i - 1) - 1 + 1 ELSE 0
          /\ \A k \in 1..((i - 1) - 1 + 1) : SubSeq(s, 1, i - 1)[k] = s[1 + k - 1]
      <4>1. \A k \in 1..(i - 1) : s[k] \in Answer
        BY <2>1
      <4> QED
        BY <2>1, <4>1, SubSeqProperties
    <3>2. (IF 1 <= i - 1 THEN (i - 1) - 1 + 1 ELSE 0) = i - 1 /\ (i - 1) - 1 + 1 = i - 1
      BY <2>1
    <3>3. \A k \in 1..(i - 1) : 1 + k - 1 = k
      BY <2>1
    <3> QED
      BY <3>1, <3>2, <3>3
  <2>3. PICK b \in Seq(Answer) : /\ b = SubSeq(s, i + 1, Len(s)) /\ Len(b) = Len(s) - i
                                 /\ \A k \in 1..(Len(s) - i) : b[k] = s[k + i]
    <3>1. /\ SubSeq(s, i + 1, Len(s)) \in Seq(Answer)
          /\ Len(SubSeq(s, i + 1, Len(s))) = IF i + 1 <= Len(s) THEN Len(s) - (i + 1) + 1 ELSE 0
          /\ \A k \in 1..(Len(s) - (i + 1) + 1) : SubSeq(s, i + 1, Len(s))[k] = s[(i + 1) + k - 1]
      <4>1. \A k \in (i + 1)..Len(s) : s[k] \in Answer
        BY <2>1
      <4> QED
        BY <2>1, <4>1, SubSeqProperties
    <3>2. /\ (IF i + 1 <= Len(s) THEN Len(s) - (i + 1) + 1 ELSE 0) = Len(s) - i
          /\ Len(s) - (i + 1) + 1 = Len(s) - i
      BY <2>1
    <3>3. \A k \in 1..(Len(s) - i) : (i + 1) + k - 1 = k + i
      BY <2>1
    <3> QED
      BY <3>1, <3>2, <3>3
  <2>4. t = a \o b
    BY <2>2, <2>3 DEF RemoveAt
  <2>5. /\ t \in Seq(Answer) /\ Len(t) = Len(a) + Len(b)
        /\ \A k \in 1..Len(t) : t[k] = IF k <= Len(a) THEN a[k] ELSE b[k - Len(a)]
    BY <2>4
  <2> HIDE DEF t
  <2>6. ASSUME NEW k \in 1..Len(t) PROVE \E j \in 1..Len(s) : t[k] = s[j]
    <3>0. k \in 1..(Len(s) - 1) /\ i \in Nat
      <4>1. Len(t) = (i - 1) + (Len(s) - i)
        BY <2>2, <2>3, <2>5
      <4>2. (i - 1) + (Len(s) - i) = Len(s) - 1 /\ i \in Nat
        BY <2>1
      <4> QED
        BY <4>1, <4>2
    <3>1. CASE k <= Len(a)
      <4>1. k \in 1..(i - 1) /\ k \in 1..Len(s)
        BY <2>1, <2>2, <3>0, <3>1
      <4> QED
        BY <2>2, <2>5, <3>1, <4>1
    <3>2. CASE ~(k <= Len(a))
      <4>1. k - Len(a) \in 1..(Len(s) - i) /\ (k - Len(a)) + i \in 1..Len(s)
        BY <2>1, <2>2, <3>0, <3>2
      <4> QED
        BY <2>3, <2>5, <3>2, <4>1
    <3> QED
      BY <3>1, <3>2
  <2> QED
    BY <2>5, <2>6
<1> HIDE DEF t
<1>4. answers'[w] = t /\ answers' \in [Windows -> Seq(Answer)]
  <2>1. answers' = [answers EXCEPT ![w] = t]
    BY <1>1, <1>2 DEF t
  <2> QED
    BY <1>1, <1>3, <2>1
<1>5. DOMAIN answers'[w] = 1..Len(t) /\ DOMAIN answers[w] = 1..Len(s)
  BY <1>2, <1>3, <1>4
<1>6. ASSUME NEW k \in 1..Len(t)
      PROVE  \E j \in 1..Len(s) : /\ t[k].slide = s[j].slide
                                  /\ t[k].valid = s[j].valid
                                  /\ t[k].read = s[j].read
  BY <1>3
<1>7. ASSUME NEW k \in DOMAIN answers'[w]
      PROVE  \E j \in DOMAIN answers[w] :
                /\ answers'[w][k].slide = answers[w][j].slide
                /\ answers'[w][k].valid = answers[w][j].valid
                /\ answers'[w][k].read = answers[w][j].read
  <2>1. PICK j \in 1..Len(s) : /\ t[k].slide = s[j].slide
                               /\ t[k].valid = s[j].valid
                               /\ t[k].read = s[j].read
    BY <1>5, <1>6
  <2>2. answers'[w][k] = t[k] /\ answers[w][j] = s[j] /\ j \in DOMAIN answers[w]
    BY <1>2, <1>4, <1>5
  <2> QED
    BY <2>1, <2>2
<1> QED
  BY <1>4, <1>7

\* Receive: nothing older replaces what is shown, and the same version is the same page.
LEMMA ReceiveKeeps ==
    ASSUME DisplayInv, NEW w \in Windows, NEW i \in DOMAIN answers[w], Receive(w, i)
    PROVE  DisplayInv' /\ LinksMove
<1>1. /\ answers[w][i].read
      /\ window' = [window EXCEPT ![w] = Applied(@, answers[w][i])]
      /\ answers' = [answers EXCEPT ![w] = Overtaken(w, i)]
      /\ UNCHANGED <<database, stored, signals, reports>>
  BY DEF Receive
<1>2. PICK v \in Window : v = window[w]
  BY Parts
<1>3. WindowSound(w) /\ answers[w] \in Seq(Answer) /\ answers[w] # <<>> /\ Showing(w)
      /\ AnswerSound(w, answers[w][i])
  BY Parts DEF WindowSound
<1>4. PICK a \in Answer : a = answers[w][i]
  BY <1>3
<1>5. /\ SlideSound(a.slide) /\ a.slide \in Slide /\ link[v.link].user = Profile[w]
  BY <1>1, <1>2, <1>3, <1>4 DEF AnswerSound, Answer
<1> DEFINE n == Applied(v, a)
<1>6. n \in Window /\ Touched(w, n) /\ n.subscribed = v.subscribed
  <2>1. CASE ~(a.slide.version # a.known /\ a.slide.version >= v.shown.version)
    <3>1. n = v
      BY <2>1 DEF Applied
    <3> QED
      BY <1>2, <1>3, <3>1 DEF Touched, WindowSound, InStepWindow
  <2>2. CASE a.slide.version # a.known /\ a.slide.version >= v.shown.version
    <3>1. PICK drawn \in BOOLEAN : drawn = (v.drawn /\ a.slide.page = v.shown.page)
      OBVIOUS
    <3> DEFINE m == [v EXCEPT !.shown = a.slide, !.drawn = drawn]
    <3>2. n = Reported(m)
      BY <2>2, <3>1 DEF Applied
    <3>3. /\ m \in Window /\ m.shown = a.slide /\ m.drawn = drawn
          /\ m.link = v.link /\ m.url = v.url /\ m.phase = v.phase
          /\ m.generation = v.generation
          /\ m.subscribed = v.subscribed /\ m.ready = v.ready /\ m.beating = v.beating
          /\ m.pending = v.pending /\ m.sending = v.sending /\ m.closed = v.closed
      BY <1>5 DEF Window
    <3> HIDE DEF m, n
    <3>4. /\ n \in Window /\ n.shown = a.slide /\ n.drawn = drawn
          /\ n.link = v.link /\ n.url = v.url /\ n.phase = v.phase
          /\ n.generation = v.generation
          /\ n.subscribed = v.subscribed /\ n.ready = v.ready /\ n.beating = v.beating
          /\ n.sending = v.sending /\ n.closed = v.closed
          /\ \/ n.pending = v.pending
             \/ v.phase = "live" /\ n.drawn /\ n.pending.stamp = n.shown.stamp
      BY <3>2, <3>3, ReportedFields
    <3>5. InStepWindow(w) => /\ n.drawn /\ n.shown.page = live.page
                             /\ n.shown.version = live.version
      <4>1. /\ live.version \in Nat /\ a.slide.version \in Nat
            /\ a.slide.version <= live.version
            /\ a.slide.version = live.version => a.slide.page = live.page
        BY <1>5, Parts, Constants DEF SlideSound, Slide
      <4>2. SUFFICES ASSUME InStepWindow(w)
                     PROVE  n.drawn /\ n.shown.page = live.page /\ n.shown.version = live.version
        OBVIOUS
      <4>3. v.drawn /\ v.shown.page = live.page /\ v.shown.version = live.version
        BY <1>2, <4>2 DEF InStepWindow
      <4>4. a.slide.version = live.version /\ a.slide.page = live.page
        BY <2>2, <4>1, <4>3
      <4> QED
        BY <3>1, <3>4, <4>3, <4>4
    <3>6. n.phase # "live" => /\ ~n.subscribed /\ ~n.ready /\ ~n.beating
                              /\ n.pending = NoReport /\ n.sending = NoReport
      BY <1>2, <1>3, <3>4 DEF WindowSound
    <3> QED
      BY <1>2, <1>3, <1>5, <3>4, <3>5, <3>6 DEF Touched
  <2> QED
    BY <2>1, <2>2
<1> HIDE DEF n
<1>7. window' = [window EXCEPT ![w] = n]
  BY <1>1, <1>2, <1>4, Parts DEF n
<1>8. /\ answers' \in [Windows -> Seq(Answer)]
      /\ \A k \in DOMAIN answers'[w] : \E j \in DOMAIN answers[w] :
            /\ answers'[w][k].slide = answers[w][j].slide
            /\ answers'[w][k].valid = answers[w][j].valid
            /\ answers'[w][k].read = answers[w][j].read
  BY <1>1, OvertakenElements
<1>9. window'[w] = n /\ WindowsTyped' /\ Elsewhere(w)
  BY <1>1, <1>6, <1>7, <1>8, Parts DEF WindowsTyped, Elsewhere
<1>10. signals'[w] # {} => n.subscribed
  BY <1>1, <1>2, <1>3, <1>6 DEF WindowSound
<1>11. UNCHANGED <<database, stored>> /\ signals' = signals /\ reports' = reports
  BY <1>1
<1> QED
  BY <1>6, <1>8, <1>9, <1>10, <1>11, TouchKeeps

\* Read: what is read is the present row, or nothing of a lecture that is closed.
LEMMA ReadKeeps ==
    ASSUME DisplayInv, NEW w \in Windows, NEW i \in DOMAIN answers[w], Read(w, i)
    PROVE  DisplayInv' /\ LinksMove
<1>1. /\ answers[w][i].valid
      /\ answers' = [answers EXCEPT ![w][i].read = TRUE,
                                    ![w][i].slide = IF lectureOpen THEN live ELSE NoSlide]
      /\ UNCHANGED <<database, window, stored, signals, reports>>
  BY DEF Read
<1>2. /\ window[w] \in Window /\ WindowSound(w) /\ answers \in [Windows -> Seq(Answer)]
      /\ DatabaseSound /\ live \in Slide /\ live.version \in 1..live.stamp
  BY Parts DEF DatabaseSound
<1>3. PICK s \in Seq(Answer) : s = answers[w]
  BY <1>2
<1>4. PICK a \in Answer : a = s[i]
  BY <1>3
<1>5. PICK slide \in Slide : slide = IF lectureOpen THEN live ELSE NoSlide
  BY <1>2, NoSlideTyped
<1> DEFINE n == [a EXCEPT !.read = TRUE, !.slide = slide]
<1>6. n \in Answer /\ n.read /\ n.slide = slide /\ n.valid = a.valid
  BY DEF Answer
<1>7. answers' = [answers EXCEPT ![w] = [s EXCEPT ![i] = n]]
  BY <1>1, <1>2, <1>3, <1>4, <1>5
<1> HIDE DEF n
<1>8. /\ answers' \in [Windows -> Seq(Answer)]
      /\ \A x \in Windows \ {w} : answers'[x] = answers[x]
      /\ DOMAIN answers'[w] = DOMAIN answers[w]
      /\ \A k \in DOMAIN answers'[w] : answers'[w][k] = IF k = i THEN n ELSE answers[w][k]
  BY <1>2, <1>3, <1>6, <1>7
<1>9. /\ AnswerSound(w, a) /\ a.valid /\ Showing(w)
  BY <1>1, <1>2, <1>3, <1>4 DEF WindowSound
<1>10. /\ DatabaseStep /\ live' = live /\ link' = link /\ lectureOpen' = lectureOpen
  BY <1>1, <1>2, UnchangedKeeps DEF database
<1>11. AnswerSound(w, n)'
  <2>1. SlideSound(slide)'
    BY <1>1, <1>2, <1>5, <1>10, NoSlideSound DEF SlideSound, Slide
  <2>2. n.slide = NoSlide => ~lectureOpen'
    BY <1>2, <1>5, <1>6, <1>10 DEF NoSlide
  <2>3. n.valid /\ link'[window'[w].link].user = Profile[w]
    BY <1>1, <1>6, <1>9, <1>10 DEF AnswerSound
  <2> QED
    BY <1>6, <2>1, <2>2, <2>3 DEF AnswerSound, SlideSound, Terminal
<1>12. \A k \in DOMAIN answers'[w] :
          \/ \E j \in DOMAIN answers[w] : /\ answers'[w][k].slide = answers[w][j].slide
                                          /\ answers'[w][k].valid = answers[w][j].valid
                                          /\ answers'[w][k].read = answers[w][j].read
          \/ Showing(w) /\ AnswerSound(w, answers[w][k])'
  <2> TAKE k \in DOMAIN answers'[w]
  <2>1. CASE k = i
    <3>1. answers'[w][k] = n
      BY <1>8, <2>1
    <3> QED
      BY <1>9, <1>11, <3>1 DEF AnswerSound, SlideSound, Dead, Terminal
  <2>2. CASE k # i
    BY <1>8, <2>2
  <2> QED
    BY <2>1, <2>2
<1>13. WindowsTyped' /\ Elsewhere(w)
  BY <1>1, <1>8, Parts DEF WindowsTyped, Elsewhere
<1>14. window'[w] = window[w] /\ Touched(w, window[w]) /\ stored'[w] = stored[w]
  BY <1>1, <1>2 DEF Touched, WindowSound, InStepWindow
<1>15. /\ signals'[w] # {} => window[w].subscribed
       /\ signals' = signals /\ reports' = reports
  BY <1>1, <1>2 DEF WindowSound
<1>16. Continues(w)
  BY <1>2, <1>10, <1>12, <1>14, <1>15, TouchContinues
<1>17. DisplayInv'
  BY <1>10, <1>13, <1>14, <1>15, <1>16, LoadKeeps
<1> QED
  BY <1>10, <1>17 DEF DatabaseStep

\* ReceiveTerminal: what says so was read of a lecture that is closed.
LEMMA ReceiveTerminalKeeps ==
    ASSUME DisplayInv, NEW w \in Windows, NEW i \in DOMAIN answers[w], ReceiveTerminal(w, i)
    PROVE  DisplayInv' /\ LinksMove
<1>1. /\ Terminal(answers[w][i])
      /\ window' = [window EXCEPT ![w].closed = TRUE]
      /\ answers' = [answers EXCEPT ![w] = <<>>]
      /\ UNCHANGED <<database, stored, signals, reports>>
  BY DEF ReceiveTerminal
<1>2. PICK v \in Window : v = window[w]
  BY Parts
<1>3. WindowSound(w) /\ ~lectureOpen
  BY <1>1, Parts DEF WindowSound, AnswerSound
<1> DEFINE n == [v EXCEPT !.closed = TRUE]
<1>4. window' = [window EXCEPT ![w] = n]
  BY <1>1, <1>2, Parts
<1>5. /\ n \in Window /\ n.sending = v.sending /\ n.pending = v.pending
      /\ n.link = v.link /\ n.url = v.url /\ n.phase = v.phase /\ n.generation = v.generation
      /\ n.shown = v.shown /\ n.drawn = v.drawn /\ n.subscribed = v.subscribed
      /\ n.ready = v.ready /\ n.beating = v.beating
  BY DEF Window
<1> HIDE DEF n
<1>6. Touched(w, n)
  BY <1>2, <1>3, <1>5 DEF Touched, WindowSound, InStepWindow
<1>7. answers'[w] = <<>> /\ answers' \in [Windows -> Seq(Answer)]
  BY <1>1, Parts
<1>8. window'[w] = n /\ WindowsTyped' /\ Elsewhere(w)
  BY <1>1, <1>4, <1>5, <1>7, Parts DEF WindowsTyped, Elsewhere
<1>9. /\ UNCHANGED <<database, stored>> /\ reports' = reports
      /\ signals'[w] # {} => n.subscribed
      /\ "closed" \in signals'[w] => "closed" \in signals[w]
      /\ DOMAIN answers'[w] = {}
  BY <1>1, <1>2, <1>3, <1>5, <1>7 DEF WindowSound
<1> QED
  BY <1>5, <1>6, <1>8, <1>9, TouchKeeps

\* A signal or an answer is lost.
LEMMA LoseKeeps ==
    ASSUME DisplayInv, NEW w \in Windows,
           LoseSignal(w) \/ \E i \in DOMAIN answers[w] : LoseAnswer(w, i)
    PROVE  DisplayInv' /\ LinksMove
<1>1. window[w] \in Window /\ WindowSound(w) /\ Touched(w, window[w])
  BY Parts DEF Touched, WindowSound, InStepWindow
<1>2. ASSUME NEW i \in DOMAIN answers[w], LoseAnswer(w, i)
      PROVE  DisplayInv' /\ LinksMove
  <2>1. /\ answers' = [answers EXCEPT ![w] = RemoveAt(@, i)]
        /\ UNCHANGED <<database, window, stored, signals, reports>>
    BY <1>2 DEF LoseAnswer
  <2>2. /\ answers' \in [Windows -> Seq(Answer)]
        /\ \A k \in DOMAIN answers'[w] : \E j \in DOMAIN answers[w] :
              /\ answers'[w][k].slide = answers[w][j].slide
              /\ answers'[w][k].valid = answers[w][j].valid
              /\ answers'[w][k].read = answers[w][j].read
    BY <2>1, RemovedElements
  <2>3. window'[w] = window[w] /\ WindowsTyped' /\ Elsewhere(w)
    BY <2>1, <2>2, Parts DEF WindowsTyped, Elsewhere
  <2>4. /\ UNCHANGED <<database, stored>> /\ reports' = reports
        /\ signals'[w] # {} => window[w].subscribed
        /\ "closed" \in signals'[w] => "closed" \in signals[w]
    BY <1>1, <2>1 DEF WindowSound
  <2> QED
    BY <1>1, <2>2, <2>3, <2>4, TouchKeeps
<1>3. CASE LoseSignal(w)
  <2>1. /\ \E kind \in signals[w] : signals' = [signals EXCEPT ![w] = @ \ {kind}]
        /\ UNCHANGED <<database, window, stored, answers, reports>>
    BY <1>3 DEF LoseSignal
  <2>2. /\ signals' \in [Windows -> SUBSET {"changed", "disabled", "closed"}]
        /\ signals'[w] \subseteq signals[w] /\ \A x \in Windows \ {w} : signals'[x] = signals[x]
    BY <2>1, Parts
  <2>3. window'[w] = window[w] /\ WindowsTyped' /\ Elsewhere(w)
    BY <2>1, <2>2, Parts DEF WindowsTyped, Elsewhere
  <2>4. /\ UNCHANGED <<database, stored>> /\ reports' = reports /\ answers'[w] = answers[w]
        /\ signals'[w] # {} => window[w].subscribed
        /\ "closed" \in signals'[w] => "closed" \in signals[w]
    BY <1>1, <2>1, <2>2 DEF WindowSound
  <2> QED
    BY <1>1, <2>3, <2>4, TouchKeeps
<1> QED
  BY <1>2, <1>3

\* The window draws, joins its channel or loses it.
LEMMA ChannelKeeps ==
    ASSUME DisplayInv, NEW w \in Windows, Draw(w) \/ Subscribe(w) \/ Disconnect(w)
    PROVE  DisplayInv' /\ LinksMove
<1>1. PICK v \in Window : v = window[w]
  BY Parts
<1>2. WindowSound(w)
  BY Parts
<1>3. ASSUME NEW drawn \in BOOLEAN, NEW subscribed \in BOOLEAN, v.drawn => drawn,
             subscribed => v.phase = "live", v.subscribed => subscribed \/ signals'[w] = {},
             signals' \in [Windows -> SUBSET {"changed", "disabled", "closed"}],
             signals'[w] \subseteq signals[w], \A x \in Windows \ {w} : signals'[x] = signals[x],
             NEW m, m = [v EXCEPT !.drawn = drawn, !.subscribed = subscribed],
             NEW n, n = Reported(m), window' = [window EXCEPT ![w] = n],
             UNCHANGED <<database, stored, answers, reports>>
      PROVE  DisplayInv' /\ LinksMove
  <2>1. /\ m \in Window /\ m.shown = v.shown /\ m.drawn = drawn
        /\ m.link = v.link /\ m.url = v.url /\ m.phase = v.phase
        /\ m.generation = v.generation
        /\ m.subscribed = subscribed /\ m.ready = v.ready /\ m.beating = v.beating
        /\ m.pending = v.pending /\ m.sending = v.sending /\ m.closed = v.closed
    BY <1>3 DEF Window
  <2>2. /\ n \in Window /\ n.shown = v.shown /\ n.drawn = drawn
        /\ n.link = v.link /\ n.url = v.url /\ n.phase = v.phase
        /\ n.generation = v.generation
        /\ n.subscribed = subscribed /\ n.ready = v.ready /\ n.beating = v.beating
        /\ n.sending = v.sending /\ n.closed = v.closed
        /\ \/ n.pending = v.pending
           \/ v.phase = "live" /\ n.drawn /\ n.pending.stamp = n.shown.stamp
    <3>1. m \in Window /\ n = Reported(m)
      BY <1>3, <2>1
    <3>2. /\ n \in Window
          /\ n.link = m.link /\ n.url = m.url /\ n.phase = m.phase
          /\ n.generation = m.generation /\ n.shown = m.shown /\ n.drawn = m.drawn
          /\ n.subscribed = m.subscribed /\ n.ready = m.ready /\ n.beating = m.beating
          /\ n.sending = m.sending /\ n.closed = m.closed
          /\ \/ n.pending = m.pending
             \/ m.phase = "live" /\ m.drawn /\ n.pending.stamp = m.shown.stamp
      BY <3>1, ReportedFields
    <3> QED
      BY <2>1, <3>2
  <2>3. Touched(w, n)
    BY <1>1, <1>2, <1>3, <2>2 DEF Touched, WindowSound, InStepWindow
  <2>4. window'[w] = n /\ WindowsTyped' /\ Elsewhere(w)
    BY <1>3, <2>2, Parts DEF WindowsTyped, Elsewhere
  <2>5. /\ signals'[w] # {} => n.subscribed
        /\ "closed" \in signals'[w] => "closed" \in signals[w]
    BY <1>1, <1>2, <1>3, <2>2 DEF WindowSound
  <2>6. UNCHANGED <<database, stored>> /\ reports' = reports /\ answers'[w] = answers[w]
    BY <1>3
  <2> QED
    BY <2>2, <2>3, <2>4, <2>5, <2>6, TouchKeeps
<1>4. v.drawn \in BOOLEAN /\ v.subscribed \in BOOLEAN /\ (v.subscribed => v.phase = "live")
      /\ signals \in [Windows -> SUBSET {"changed", "disabled", "closed"}]
  BY <1>1, <1>2, Parts DEF Window, WindowSound
<1>5. CASE Draw(w)
  <2> DEFINE m == [v EXCEPT !.drawn = TRUE, !.subscribed = v.subscribed]
  <2>1. m = [v EXCEPT !.drawn = TRUE]
    BY DEF Window
  <2>2. window' = [window EXCEPT ![w] = Reported(m)] /\ signals' = signals
        /\ UNCHANGED <<database, stored, answers, reports>>
    BY <1>1, <1>5, <2>1 DEF Draw
  <2> HIDE DEF m
  <2> QED
    BY <1>3, <1>4, <2>2 DEF m
<1>6. CASE Subscribe(w)
  <2> DEFINE m == [v EXCEPT !.drawn = v.drawn, !.subscribed = TRUE]
  <2>1. m = [v EXCEPT !.subscribed = TRUE]
    BY DEF Window
  <2>2. window' = [window EXCEPT ![w] = Reported(m)] /\ signals' = signals /\ v.phase = "live"
        /\ UNCHANGED <<database, stored, answers, reports>>
    BY <1>1, <1>6, <2>1 DEF Subscribe
  <2> HIDE DEF m
  <2> QED
    BY <1>3, <1>4, <2>2 DEF m
<1>7. CASE Disconnect(w)
  <2> DEFINE m == [v EXCEPT !.drawn = v.drawn, !.subscribed = FALSE]
  <2>1. m = [v EXCEPT !.subscribed = FALSE] /\ ~m.subscribed
    BY DEF Window
  <2>2. Reported(m) = m
    <3>1. ~m.subscribed
      BY <2>1
    <3> HIDE DEF m
    <3> QED
      BY <3>1 DEF Reported
  <2>3. window' = [window EXCEPT ![w] = m] /\ signals' = [signals EXCEPT ![w] = {}]
        /\ UNCHANGED <<database, stored, answers, reports>>
    BY <1>1, <1>7, <2>1 DEF Disconnect
  <2>4. /\ signals' \in [Windows -> SUBSET {"changed", "disabled", "closed"}]
        /\ signals'[w] = {} /\ \A x \in Windows \ {w} : signals'[x] = signals[x]
    BY <1>4, <2>3
  <2> HIDE DEF m
  <2> QED
    BY <1>3, <1>4, <2>2, <2>3, <2>4 DEF m
<1> QED
  BY <1>5, <1>6, <1>7

\* The tab is hidden, or looked at again.
LEMMA HiddenKeeps ==
    ASSUME DisplayInv, NEW w \in Windows, Sleep(w) \/ Wake(w)
    PROVE  DisplayInv' /\ LinksMove
<1>1. PICK v \in Window : v = window[w]
  BY Parts
<1>2. WindowSound(w)
  BY Parts
<1>3. PICK awake \in BOOLEAN : /\ Sleep(w) => ~awake
                               /\ Wake(w) => awake
  <2>1. ~(Sleep(w) /\ Wake(w))
    BY DEF Sleep, Wake
  <2> QED
    BY <2>1
<1> DEFINE m == [v EXCEPT !.awake = awake]
<1>4. /\ m \in Window /\ m.shown = v.shown /\ m.drawn = v.drawn
      /\ m.link = v.link /\ m.url = v.url /\ m.phase = v.phase /\ m.generation = v.generation
      /\ m.subscribed = v.subscribed /\ m.ready = v.ready /\ m.beating = v.beating
      /\ m.pending = v.pending /\ m.sending = v.sending /\ m.closed = v.closed
      /\ m.awake = awake
  BY DEF Window
<1>5. PICK n : n = Reported(m)
  OBVIOUS
<1>6. /\ n \in Window /\ n.shown = v.shown /\ n.drawn = v.drawn
      /\ n.link = v.link /\ n.url = v.url /\ n.phase = v.phase /\ n.generation = v.generation
      /\ n.subscribed = v.subscribed /\ n.ready = v.ready /\ n.beating = v.beating
      /\ n.sending = v.sending /\ n.closed = v.closed
      /\ \/ n.pending = v.pending
         \/ v.phase = "live" /\ n.drawn /\ n.pending.stamp = n.shown.stamp
  <2> HIDE DEF m
  <2> QED
    BY <1>4, <1>5, ReportedFields
<1>7. window' = [window EXCEPT ![w] = n] /\ UNCHANGED <<database, stored, answers, signals, reports>>
  <2>1. CASE Sleep(w)
    <3>1. ~awake /\ window' = [window EXCEPT ![w] = m]
      BY <1>1, <1>3, <2>1, Parts DEF Sleep
    <3>2. n = m
      <4> HIDE DEF m
      <4> QED
        BY <1>4, <1>5, <3>1 DEF Reported
    <3> QED
      BY <2>1, <3>1, <3>2 DEF Sleep
  <2>2. CASE Wake(w)
    <3>1. awake = TRUE
      BY <1>3, <2>2
    <3>2. window' = [window EXCEPT ![w] = Reported(m)]
      BY <1>1, <2>2, <3>1 DEF Wake
    <3> HIDE DEF m
    <3> QED
      BY <1>5, <2>2, <3>2 DEF Wake
  <2> QED
    BY <2>1, <2>2
<1>8. Touched(w, n)
  BY <1>1, <1>2, <1>6 DEF Touched, WindowSound, InStepWindow
<1>9. window'[w] = n /\ WindowsTyped' /\ Elsewhere(w)
  BY <1>6, <1>7, Parts DEF WindowsTyped, Elsewhere
<1>10. /\ UNCHANGED <<database, stored>> /\ reports' = reports /\ answers'[w] = answers[w]
       /\ signals'[w] # {} => n.subscribed
       /\ "closed" \in signals'[w] => "closed" \in signals[w]
  BY <1>1, <1>2, <1>6, <1>7 DEF WindowSound
<1> QED
  BY <1>6, <1>8, <1>9, <1>10, TouchKeeps

\* The kill switch: the load goes on without its session.
LEMMA HearDisabledKeeps ==
    ASSUME DisplayInv, NEW w \in Windows, HearDisabled(w)
    PROVE  DisplayInv' /\ LinksMove
<1>1. PICK v \in Window : v = window[w]
  BY Parts
<1>2. WindowSound(w) /\ answers[w] \in Seq(Answer)
      /\ signals \in [Windows -> SUBSET {"changed", "disabled", "closed"}]
      /\ answers \in [Windows -> Seq(Answer)]
  BY Parts
<1> DEFINE n == [Shut EXCEPT !.phase = "fallback", !.link = v.link,
                             !.closed = v.closed, !.awake = v.awake,
                             !.shown = v.shown, !.drawn = v.drawn]
<1>3. /\ "disabled" \in signals[w]
      /\ window' = [window EXCEPT ![w] = n]
      /\ signals' = [signals EXCEPT ![w] = {}]
      /\ reports' = Abandoned(w, w)
      /\ UNCHANGED <<database, stored, answers>>
  BY <1>1 DEF HearDisabled
<1>4. /\ n \in Window /\ n.phase = "fallback" /\ n.link = v.link /\ n.url = None
      /\ n.shown = v.shown /\ n.drawn = v.drawn /\ n.closed = v.closed
      /\ ~n.subscribed /\ ~n.ready /\ ~n.beating
      /\ n.pending = NoReport /\ n.sending = NoReport
  BY ShutTyped DEF Window
<1> HIDE DEF n
<1>5. v.phase = "live"
  BY <1>1, <1>2, <1>3 DEF WindowSound
<1>6. DatabaseStep /\ live' = live /\ link' = link
  BY <1>3, UnchangedKeeps, Parts DEF database
<1>7. /\ reports' \subseteq Message
      /\ \A k \in reports' :
           \/ k \in reports /\ k.window # w
           \/ \E m \in reports : /\ m.window = w /\ k.window = w /\ ~k.awaited
                                 /\ k.link = m.link /\ k.user = m.user
                                 /\ k.action = m.action /\ k.stamp = m.stamp
  BY <1>3, AbandonedTyped
<1>8. window'[w] = n /\ signals'[w] = {} /\ answers'[w] = answers[w] /\ stored'[w] = stored[w]
      /\ Elsewhere(w) /\ WindowsTyped'
  BY <1>2, <1>3, <1>4, <1>7, Parts DEF WindowsTyped, Elsewhere
<1>9. Continues(w)
  <2>1. InStepWindow(w) => InStepWindow(w)'
    BY <1>1, <1>4, <1>6, <1>8 DEF InStepWindow
  <2>2. RenderSound(w, 0)' /\ NoReport.stamp = 0
    BY <1>6, <2>1, ReportStays
  <2>3. RenderSound(w, window[w].pending.stamp)' /\ RenderSound(w, window[w].sending.stamp)'
    <3>1. PICK p : p = n.pending.stamp
      OBVIOUS
    <3>2. PICK s : s = n.sending.stamp
      OBVIOUS
    <3>3. RenderSound(w, p)' /\ RenderSound(w, s)'
      BY <1>4, <2>2, <3>1, <3>2
    <3> QED
      BY <1>8, <3>1, <3>2, <3>3 DEF RenderSound, InStepWindow
  <2> QED
    BY <1>1, <1>4, <1>5, <1>8, <2>1, <2>3 DEF Continues
<1>10. SameLoad(w)
  BY <1>6, <1>8, <1>9, LoadStays DEF DatabaseStep
<1>11. ASSUME NEW k \in reports'
       PROVE  /\ k \in reports \/ MessageSound(k)'
              /\ ~(k.window = w /\ k.awaited)
  <2>1. CASE k \in reports /\ k.window # w
    BY <2>1
  <2>2. ASSUME NEW m \in reports, m.window = w, k.window = w, ~k.awaited,
               k.link = m.link, k.user = m.user, k.action = m.action, k.stamp = m.stamp
        PROVE  MessageSound(k)'
    <3>1. MessageSound(m) /\ k \in Message
      BY <1>7, Parts
    <3>2. MessageSound(k)
      BY <2>2, <3>1 DEF MessageSound
    <3> QED
      BY <1>6, <1>10, <2>2, <3>1, <3>2, MessageStays DEF DatabaseStep
  <2> QED
    BY <1>7, <2>1, <2>2
<1>12. DisplayInv'
  BY <1>6, <1>8, <1>9, <1>11, LoadKeeps
<1> QED
  BY <1>6, <1>12 DEF DatabaseStep

-----------------------------------------------------------------------------
(* Reports.                                                                   *)

\* A report of w that holds now holds after a step of w alone.
LEMMA ReportKept ==
    ASSUME DisplayInv, UNCHANGED database, NEW w \in Windows, NEW n \in Window,
           window'[w] = n, Touched(w, n), NEW m \in Message, MessageSound(m), m.window = w
    PROVE  MessageSound(m)'
<1>1. DatabaseStep /\ live' = live /\ link' = link
  BY UnchangedKeeps, Parts DEF database
<1>2. SameLoad(w)
  BY <1>1 DEF SameLoad, Touched, InStepWindow
<1>3. m.awaited => window'[m.window].phase = "live"
  BY DEF MessageSound, Touched
<1> QED
  BY <1>1, <1>2, <1>3, MessageStays DEF DatabaseStep

\* A live window sends a report of what it took up.
LEMMA SendKeeps ==
    ASSUME DisplayInv, NEW w \in Windows, window[w].phase = "live",
           NEW n \in Window, window' = [window EXCEPT ![w] = n], Touched(w, n),
           n.subscribed = window[w].subscribed,
           NEW r \in Rendered, NEW action \in {"rendered", "heartbeat"},
           action = "rendered" => RenderSound(w, r.stamp),
           reports' = reports \cup {Report(w, action, r)},
           UNCHANGED <<database, stored, answers, signals>>
    PROVE  DisplayInv' /\ LinksMove
<1>1. WindowSound(w) /\ window[w] \in Window
  BY Parts
<1>2. /\ window[w].link \in Links /\ window[w].link # None /\ Issued(window[w].link)
      /\ window[w].generation \in 1..MaxGeneration
  BY <1>1, Constants DEF WindowSound, Window
<1>3. PICK m : m = Report(w, action, r)
  OBVIOUS
<1>4. /\ m.window = w /\ m.link = window[w].link /\ m.user = Profile[w]
      /\ m.action = action /\ m.stamp = r.stamp /\ m \in Message
  BY <1>2, <1>3, Constants DEF Report, Message, Rendered
<1>5. MessageSound(m)
  <2>1. m.action = "rendered" => RenderSound(m.window, m.stamp)
    BY <1>4 DEF RenderSound, InStepWindow
  <2>2. Issued(m.link)
    BY <1>2, <1>4 DEF Issued
  <2>3. /\ m.window # None /\ window[m.window].phase = "live"
        /\ m.user = Profile[m.window] /\ window[m.window].link = m.link
    BY <1>4, Constants
  <2> QED
    BY <2>1, <2>2, <2>3 DEF MessageSound
<1>6. window'[w] = n /\ Elsewhere(w) /\ WindowsTyped'
  BY <1>3, <1>4, Parts DEF WindowsTyped, Elsewhere
<1>7. MessageSound(m)'
  BY <1>4, <1>5, <1>6, ReportKept
<1>8. \A k \in reports' : k \in reports \/ MessageSound(k)'
  BY <1>3, <1>7
<1>9. /\ \A i \in DOMAIN answers'[w] : \E j \in DOMAIN answers[w] :
           /\ answers'[w][i].slide = answers[w][j].slide
           /\ answers'[w][i].valid = answers[w][j].valid
           /\ answers'[w][i].read = answers[w][j].read
      /\ signals'[w] # {} => n.subscribed
      /\ "closed" \in signals'[w] => "closed" \in signals[w]
  BY <1>1 DEF WindowSound
<1> QED
  BY <1>6, <1>8, <1>9, TouchKeeps

\* FlushRender: what waits was drawn when it was taken up.
LEMMA FlushRenderKeeps ==
    ASSUME DisplayInv, NEW w \in Windows, FlushRender(w)
    PROVE  DisplayInv' /\ LinksMove
<1>1. PICK v \in Window : v = window[w]
  BY Parts
<1>2. WindowSound(w) /\ window \in [Windows -> Window] /\ NoReport \in Rendered
  BY Parts, Constants DEF NoReport, Rendered
<1> DEFINE n == [v EXCEPT !.sending = v.pending, !.pending = NoReport]
<1>3. /\ v.pending # NoReport
      /\ reports' = reports \cup {Report(w, "rendered", v.pending)}
      /\ UNCHANGED <<database, stored, answers, signals>>
  BY <1>1 DEF FlushRender, Send
<1>4. window' = [window EXCEPT ![w] = n]
  BY <1>1, <1>2 DEF FlushRender
<1>5. /\ n \in Window /\ n.sending = v.pending /\ n.pending = NoReport
      /\ n.link = v.link /\ n.url = v.url /\ n.phase = v.phase /\ n.generation = v.generation
      /\ n.shown = v.shown /\ n.drawn = v.drawn /\ n.subscribed = v.subscribed
      /\ n.ready = v.ready /\ n.beating = v.beating /\ n.closed = v.closed
  BY <1>2 DEF Window
<1> HIDE DEF n
<1>6. v.phase = "live" /\ RenderSound(w, v.pending.stamp) /\ v.pending \in Rendered
  BY <1>1, <1>2, <1>3 DEF WindowSound, Window
<1>7. Touched(w, n)
  BY <1>1, <1>2, <1>5, <1>6 DEF Touched, InStepWindow
<1> QED
  BY <1>1, <1>3, <1>4, <1>5, <1>6, <1>7, SendKeeps

\* Heartbeat: it claims nothing about what is drawn.
LEMMA HeartbeatKeeps ==
    ASSUME DisplayInv, NEW w \in Windows, Heartbeat(w)
    PROVE  DisplayInv' /\ LinksMove
<1>1. PICK v \in Window : v = window[w]
  BY Parts
<1>2. WindowSound(w) /\ window \in [Windows -> Window] /\ NoReport \in Rendered
  BY Parts, Constants DEF NoReport, Rendered
<1> DEFINE n == [v EXCEPT !.beating = TRUE]
<1>3. /\ v.ready
      /\ reports' = reports \cup {Report(w, "heartbeat", NoReport)}
      /\ UNCHANGED <<database, stored, answers, signals>>
  BY <1>1 DEF Heartbeat, Send
<1>4. window' = [window EXCEPT ![w] = n]
  BY <1>1, <1>2 DEF Heartbeat
<1>5. /\ n \in Window /\ n.sending = v.sending /\ n.pending = v.pending
      /\ n.link = v.link /\ n.url = v.url /\ n.phase = v.phase /\ n.generation = v.generation
      /\ n.shown = v.shown /\ n.drawn = v.drawn /\ n.subscribed = v.subscribed
      /\ n.closed = v.closed
  BY DEF Window
<1> HIDE DEF n
<1>6. v.phase = "live"
  BY <1>1, <1>2, <1>3 DEF WindowSound
<1>7. Touched(w, n)
  BY <1>1, <1>2, <1>5, <1>6 DEF Touched, InStepWindow
<1> QED
  BY <1>1, <1>2, <1>3, <1>4, <1>5, <1>6, <1>7, SendKeeps

\* What an answer, or none, makes of a live window.
LEMMA AnsweredTouches ==
    ASSUME DisplayInv, NEW w \in Windows, window[w].phase = "live",
           NEW action, NEW accepted \in BOOLEAN,
           NEW n, n = Answered(window[w], action, accepted)
    PROVE  n \in Window /\ Touched(w, n) /\ n.subscribed = window[w].subscribed
<1>1. PICK v \in Window : v = window[w]
  BY Parts
<1>2. NoReport \in Rendered
  BY Constants DEF NoReport, Rendered
<1>3. \/ n = [v EXCEPT !.beating = FALSE]
      \/ n = [v EXCEPT !.sending = NoReport, !.ready = TRUE]
      \/ n = Failed(v)
  BY <1>1 DEF Answered
<1>4. /\ n \in Window /\ n.link = v.link /\ n.url = v.url /\ n.phase = v.phase
      /\ n.generation = v.generation /\ n.shown = v.shown /\ n.drawn = v.drawn
      /\ n.subscribed = v.subscribed /\ n.closed = v.closed
      /\ n.pending \in {v.pending, v.sending} /\ n.sending \in {v.sending, NoReport}
  <2>1. CASE n = [v EXCEPT !.beating = FALSE]
    BY <2>1 DEF Window
  <2>2. CASE n = [v EXCEPT !.sending = NoReport, !.ready = TRUE]
    BY <1>2, <2>2 DEF Window
  <2>3. CASE n = Failed(v)
    <3>1. PICK p \in Rendered : p = (IF v.pending = NoReport THEN v.sending ELSE v.pending)
      BY DEF Window
    <3>2. n = [v EXCEPT !.pending = p, !.sending = NoReport]
      BY <2>3, <3>1 DEF Failed
    <3> QED
      BY <1>2, <3>1, <3>2 DEF Window
  <2> QED
    BY <1>3, <2>1, <2>2, <2>3
<1> QED
  BY <1>1, <1>4 DEF Touched, InStepWindow

\* The row of a link after a report was executed.
LEMMA RecordedRow ==
    ASSUME DisplayInv, NEW m \in reports, NEW row, row = Recorded(m)
    PROVE  /\ row \in Link
           /\ row.root = link[m.link].root /\ row.binding = link[m.link].binding
           /\ row.term = link[m.link].term /\ row.user = link[m.link].user
           /\ \/ row.by = link[m.link].by /\ row.version = link[m.link].version
              \/ /\ m.action = "rendered"
                 /\ row.by = m.window /\ row.version = live.version
<1>1. m \in Message /\ live \in Slide
  BY Parts
<1>2. m.link \in Links /\ m.window \in Windows \cup {None} /\ m.page \in 0..MaxPage
      /\ m.generation \in 0..MaxGeneration /\ m.action \in {"rendered", "heartbeat"}
      /\ live.version \in 0..MaxStamp
  BY <1>1, Constants DEF Message, Slide
<1>3. PICK old \in Link : old = link[m.link]
  BY <1>2, Parts
<1>4. CASE m.action = "heartbeat"
  <2>1. row = [old EXCEPT !.fresh = TRUE]
    BY <1>3, <1>4 DEF Recorded
  <2> QED
    BY <1>3, <2>1 DEF Link
<1>5. CASE m.action = "rendered"
  <2>1. PICK version \in 0..MaxStamp, page \in 0..MaxPage, generation \in 0..MaxGeneration,
             w \in Windows \cup {None} :
          /\ version = live.version /\ page = m.page
          /\ generation = m.generation /\ w = m.window
    BY <1>2
  <2>2. row = [old EXCEPT !.connected = TRUE, !.fresh = TRUE, !.version = version,
                          !.page = page, !.generation = generation, !.by = w]
    BY <1>3, <1>5, <2>1 DEF Recorded
  <2>3. /\ row \in Link /\ row.root = old.root /\ row.binding = old.binding
        /\ row.term = old.term /\ row.user = old.user
        /\ row.by = w /\ row.version = version
    <3>1. row \in Link
      BY <2>2 DEF Link
    <3>2. row.root = old.root /\ row.binding = old.binding /\ row.term = old.term
      BY <2>2 DEF Link
    <3>3. row.user = old.user /\ row.by = w /\ row.version = version
      BY <2>2 DEF Link
    <3> QED
      BY <3>1, <3>2, <3>3
  <2> QED
    BY <1>3, <1>5, <2>1, <2>3
<1> QED
  BY <1>2, <1>4, <1>5

\* A report that is executed: a load that is recorded as the one acknowledged last was sent
\* by a profile the link still serves, so it still shows that link and has drawn the row.
LEMMA RecordedKeeps ==
    ASSUME DisplayInv, NEW m \in reports,
           link' = IF Accepted(m) THEN [link EXCEPT ![m.link] = Recorded(m)] ELSE link,
           UNCHANGED <<gate, lectureOpen, live, latest>>,
           \A w \in Windows : /\ window'[w].link = window[w].link
                              /\ window'[w].phase = window[w].phase
                              /\ InStepWindow(w) => InStepWindow(w)'
    PROVE  /\ DatabaseStep
           /\ \A d \in Links : link'[d].user = link[d].user
           /\ \A d \in Links : \/ AcknowledgedSound(d)'
                               \/ link'[d].by = link[d].by /\ link'[d].version = link[d].version
<1>1. /\ DatabaseSound /\ link \in [Links -> Link] /\ live \in Slide
      /\ m \in Message /\ MessageSound(m)
  BY Parts
<1>2. m.link \in Links /\ m.window \in Windows \cup {None} /\ m.user # None
  BY <1>1, Constants DEF Message, Users
<1>3. CASE ~Accepted(m)
  <2>1. UNCHANGED database /\ link' = link
    BY <1>3 DEF database
  <2> QED
    BY <1>1, <2>1, UnchangedKeeps
<1>4. CASE Accepted(m)
  <2>1. PICK row : row = Recorded(m)
    OBVIOUS
  <2>2. link' = [link EXCEPT ![m.link] = row]
    BY <1>4, <2>1
  <2>3. /\ row \in Link
        /\ row.root = link[m.link].root /\ row.binding = link[m.link].binding
        /\ row.term = link[m.link].term /\ row.user = link[m.link].user
        /\ \/ row.by = link[m.link].by /\ row.version = link[m.link].version
           \/ /\ m.action = "rendered"
              /\ row.by = m.window /\ row.version = live.version
    BY <2>1, RecordedRow
  <2>4. /\ gate /\ lectureOpen /\ link[m.link].root = "open" /\ link[m.link].binding = "open"
        /\ link[m.link].term /\ link[m.link].user = m.user
        /\ m.action = "rendered" => m.stamp = live.stamp
    BY <1>4 DEF Accepted, Admitted, Running, InStep
  <2>5. link' \in [Links -> Link]
    BY <1>1, <2>2, <2>3
  <2>6. /\ link'[m.link] = row
        /\ \A d \in Links \ {m.link} : link'[d] = link[d]
    BY <1>1, <1>2, <2>2
  <2>7. \A d \in Links : /\ link'[d].root = link[d].root /\ link'[d].binding = link[d].binding
                         /\ link'[d].term = link[d].term /\ link'[d].user = link[d].user
                         /\ link[d].root = "unissued" => link'[d].by = link[d].by
    BY <2>3, <2>4, <2>6
  <2>8. DatabaseStep
    <3>1. gate' \in BOOLEAN /\ gate'
      BY <1>1, <2>4 DEF DatabaseSound
    <3>2. \A d \in Links : link[d].root = "unissued" => link[d].by = None
      BY <1>1 DEF DatabaseSound
    <3> QED
      BY <1>1, <2>5, <2>7, <3>1, <3>2, RowsKept
  <2>9. CASE m.action = "rendered" /\ row.by = m.window /\ row.version = live.version
    <3>1. AcknowledgedSound(m.link)'
      <4>1. CASE m.window = None
        BY <2>6, <2>9, <4>1 DEF AcknowledgedSound
      <4>2. CASE m.window # None
        <5>1. PICK w \in Windows : w = m.window
          BY <1>2, <4>2
        <5>2. ~Dead(m.link, m.user)
          BY <2>4 DEF Dead
        <5>3. /\ window[w].phase \in {"live", "fallback", "ended"} /\ m.user = Profile[w]
              /\ window[w].link = m.link /\ RenderSound(w, m.stamp)
          BY <1>1, <2>9, <4>2, <5>1, <5>2 DEF MessageSound
        <5>4. InStepWindow(w)
          BY <2>4, <2>9, <5>3 DEF RenderSound
        <5>5. /\ window'[w].phase \in {"live", "fallback", "ended"}
              /\ window'[w].link = m.link /\ InStepWindow(w)'
          BY <5>3, <5>4
        <5>6. /\ link'[m.link].by = w /\ link'[m.link].user = Profile[w]
              /\ link'[m.link].version <= live'.version
          BY <1>1, <2>3, <2>4, <2>6, <2>9, <5>1, <5>3, Constants DEF Slide
        <5> QED
          BY <5>5, <5>6 DEF AcknowledgedSound, InStepWindow
      <4> QED
        BY <4>1, <4>2
    <3> QED
      BY <2>6, <2>7, <2>8, <3>1
  <2>10. CASE row.by = link[m.link].by /\ row.version = link[m.link].version
    BY <2>6, <2>7, <2>8, <2>10
  <2> QED
    BY <2>3, <2>9, <2>10
<1> QED
  BY <1>3, <1>4

\* Execute, with or without a window that waits for the answer.
LEMMA ExecuteKeeps ==
    ASSUME DisplayInv, NEW m \in reports, Execute(m)
    PROVE  DisplayInv' /\ LinksMove
<1>1. /\ link' = IF Accepted(m) THEN [link EXCEPT ![m.link] = Recorded(m)] ELSE link
      /\ reports' = reports \ {m}
      /\ UNCHANGED <<gate, lectureOpen, live, latest, stored, answers, signals>>
  BY DEF Execute
<1>2. /\ MessageSound(m) /\ m \in Message /\ m.window \in Windows \cup {None}
      /\ window \in [Windows -> Window]
      /\ signals \in [Windows -> SUBSET {"changed", "disabled", "closed"}]
  BY Parts DEF Message
<1>3. CASE ~m.awaited
  <2>1. window' = window
    BY <1>3 DEF Execute
  <2>2. \A w \in Windows : /\ window'[w].link = window[w].link
                           /\ window'[w].phase = window[w].phase
                           /\ InStepWindow(w) => InStepWindow(w)'
    BY <1>1, <2>1 DEF InStepWindow
  <2>3. /\ DatabaseStep
        /\ \A d \in Links : \/ AcknowledgedSound(d)'
                            \/ link'[d].by = link[d].by /\ link'[d].version = link[d].version
    BY <1>1, <2>2, RecordedKeeps
  <2>4. \A w \in Windows :
          /\ signals'[w] # {} => window[w].subscribed
          /\ "closed" \in signals'[w] => Dead(window[w].link, Profile[w])'
    <3> TAKE w \in Windows
    <3>1. signals[w] # {} => window[w].subscribed
      BY Parts DEF WindowSound
    <3>2. "closed" \in signals[w] => Dead(window[w].link, Profile[w])'
      BY <2>1, <2>3, HeardClosed
    <3> QED
      BY <1>1, <3>1, <3>2
  <2>5. DisplayInv'
    BY <1>1, <1>2, <2>1, <2>3, <2>4, AdministrationKeeps
  <2> QED
    BY <2>3, <2>5 DEF DatabaseStep
<1>4. CASE m.awaited
  <2>1. PICK w \in Windows : w = m.window
    BY <1>2, <1>4 DEF MessageSound
  <2>2. window[w].phase = "live" /\ WindowSound(w)
    BY <1>2, <1>4, <2>1, Parts DEF MessageSound
  <2>3. PICK accepted \in BOOLEAN : accepted = Accepted(m)
    BY DEF Accepted, Admitted, InStep, Running
  <2>4. PICK n : n = Answered(window[w], m.action, accepted)
    OBVIOUS
  <2>5. window' = [window EXCEPT ![w] = n]
    BY <1>4, <2>1, <2>3, <2>4 DEF Execute
  <2>6. n \in Window /\ Touched(w, n) /\ n.subscribed = window[w].subscribed
    BY <2>2, <2>4, AnsweredTouches
  <2>7. window'[w] = n /\ Elsewhere(w) /\ WindowsTyped'
    BY <1>1, <1>2, <2>5, <2>6, Parts DEF WindowsTyped, Elsewhere
  <2>8. \A x \in Windows : /\ window'[x].link = window[x].link
                           /\ window'[x].phase = window[x].phase
                           /\ InStepWindow(x) => InStepWindow(x)'
    BY <1>1, <2>6, <2>7 DEF InStepWindow, Touched, Elsewhere
  <2>9. /\ DatabaseStep
        /\ \A d \in Links : link'[d].user = link[d].user
        /\ \A d \in Links : \/ AcknowledgedSound(d)'
                            \/ link'[d].by = link[d].by /\ link'[d].version = link[d].version
    BY <1>1, <2>8, RecordedKeeps
  <2>10. Continues(w)
    <3>1. /\ live' = live /\ stored'[w] = stored[w] /\ answers'[w] = answers[w]
          /\ signals'[w] = signals[w] /\ (signals'[w] # {} => n.subscribed)
      BY <1>1, <2>2, <2>6 DEF WindowSound
    <3> QED
      BY <2>6, <2>7, <2>9, <3>1, TouchContinues
  <2>11. WindowSound(w)' /\ SameLoad(w)
    BY <2>7, <2>9, <2>10, LoadStays DEF DatabaseStep
  <2>12. DisplayInv'
    BY <1>1, <2>2, <2>7, <2>8, <2>9, <2>11, OneWindow
  <2> QED
    BY <2>9, <2>12 DEF DatabaseStep
<1> QED
  BY <1>3, <1>4

\* Timeout: the report goes on without the window.
LEMMA TimeoutKeeps ==
    ASSUME DisplayInv, NEW m \in reports, Timeout(m)
    PROVE  DisplayInv' /\ LinksMove
<1>1. PICK k : k = [m EXCEPT !.awaited = FALSE]
  OBVIOUS
<1>2. /\ m.awaited /\ reports' = (reports \ {m}) \cup {k}
      /\ UNCHANGED <<database, stored, answers, signals>>
  BY <1>1 DEF Timeout
<1>3. m \in Message /\ MessageSound(m) /\ m.window \in Windows \cup {None}
  BY Parts DEF Message
<1>4. /\ k \in Message /\ k.window = m.window /\ ~k.awaited /\ k.link = m.link
      /\ k.user = m.user /\ k.action = m.action /\ k.stamp = m.stamp
  BY <1>1, <1>3 DEF Message
<1>5. PICK w \in Windows : w = m.window
  BY <1>2, <1>3 DEF MessageSound
<1>6. window[w].phase = "live" /\ WindowSound(w)
  BY <1>2, <1>3, <1>5, Parts DEF MessageSound
<1>7. PICK n : n = Answered(window[w], m.action, FALSE)
  OBVIOUS
<1>8. window' = [window EXCEPT ![w] = n]
  BY <1>5, <1>7 DEF Timeout
<1>9. n \in Window /\ Touched(w, n) /\ n.subscribed = window[w].subscribed
  BY <1>6, <1>7, AnsweredTouches
<1>10. window'[w] = n /\ Elsewhere(w) /\ WindowsTyped'
  BY <1>2, <1>4, <1>8, <1>9, Parts DEF WindowsTyped, Elsewhere
<1>11. MessageSound(k)
  BY <1>3, <1>4 DEF MessageSound
<1>12. MessageSound(k)'
  BY <1>2, <1>4, <1>5, <1>9, <1>10, <1>11, ReportKept
<1>13. \A x \in reports' : x \in reports \/ MessageSound(x)'
  BY <1>2, <1>12
<1>14. /\ \A i \in DOMAIN answers'[w] : \E j \in DOMAIN answers[w] :
            /\ answers'[w][i].slide = answers[w][j].slide
            /\ answers'[w][i].valid = answers[w][j].valid
            /\ answers'[w][i].read = answers[w][j].read
       /\ signals'[w] # {} => n.subscribed
       /\ "closed" \in signals'[w] => "closed" \in signals[w]
  BY <1>2, <1>6, <1>9 DEF WindowSound
<1> QED
  BY <1>2, <1>9, <1>10, <1>13, <1>14, TouchKeeps

\* LoseReport: nobody waits for it any more.
LEMMA LoseReportKeeps ==
    ASSUME DisplayInv, NEW m \in reports, LoseReport(m)
    PROVE  DisplayInv' /\ LinksMove
<1>1. /\ reports' = reports \ {m}
      /\ UNCHANGED <<database, window, stored, answers, signals>>
  BY DEF LoseReport
<1>2. DatabaseStep /\ link' = link
  BY <1>1, UnchangedKeeps, Parts DEF database
<1>3. \A w \in Windows :
        /\ signals'[w] # {} => window[w].subscribed
        /\ "closed" \in signals'[w] => Dead(window[w].link, Profile[w])'
  <2> TAKE w \in Windows
  <2>1. signals[w] # {} => window[w].subscribed
    BY Parts DEF WindowSound
  <2>2. "closed" \in signals[w] => Dead(window[w].link, Profile[w])'
    BY <1>1, <1>2, HeardClosed
  <2> QED
    BY <1>1, <2>1, <2>2
<1>4. DisplayInv'
  BY <1>1, <1>2, <1>3, Parts, AdministrationKeeps
<1> QED
  BY <1>2, <1>4 DEF DatabaseStep

-----------------------------------------------------------------------------
(* The specification.                                                         *)

\* The initial state satisfies the invariant.
LEMMA DisplayInitSound == DisplayInit => DisplayInv
<1> SUFFICES ASSUME DisplayInit PROVE DisplayInv
  OBVIOUS
<1>1. 0 \in 0..MaxGeneration /\ 0 \in 0..MaxStamp /\ 0 \in 0..MaxPage
      /\ 1 \in 0..MaxStamp /\ 1 \in 0..MaxPage
  BY Constants
<1>2. /\ Unissued \in Link /\ Unissued.root = "unissued" /\ Unissued.binding = "none"
      /\ Unissued.user = None /\ Unissued.by = None
  BY <1>1 DEF Unissued, Link
<1>3. \A d \in Links : link[d] = Unissued
  BY DEF DisplayInit
<1>4. DatabaseSound
  <2>1. live \in Slide /\ live.version \in 1..live.stamp
    BY <1>1 DEF DisplayInit, Slide
  <2>2. link \in [Links -> Link]
    BY <1>2 DEF DisplayInit
  <2>3. OneDisplay
    BY <1>2, <1>3 DEF OneDisplay
  <2> QED
    BY <1>2, <1>3, <2>1, <2>2, <2>3 DEF DatabaseSound, DisplayInit
<1>5. WindowsTyped
  <2>1. answers \in [Windows -> Seq(Answer)]
    BY DEF DisplayInit
  <2> QED
    BY <2>1, ShutTyped, NoLaunchTyped DEF WindowsTyped, DisplayInit
<1>6. ASSUME NEW w \in Windows PROVE WindowSound(w)
  <2>1. window[w] = Shut /\ stored[w] = NoLaunch /\ answers[w] = <<>> /\ signals[w] = {}
    BY DEF DisplayInit
  <2>2. SlideSound(window[w].shown)
    BY <1>4, <2>1, ShutTyped DEF SlideSound, NoSlide, DatabaseSound, Slide
  <2>3. RenderSound(w, window[w].pending.stamp) /\ RenderSound(w, window[w].sending.stamp)
    BY <1>4, <2>1, ShutTyped DEF RenderSound, NoReport, DatabaseSound, Slide
  <2> QED
    BY <2>1, <2>2, <2>3, ShutTyped, NoLaunchTyped DEF WindowSound, Issued
<1>7. \A m \in reports : MessageSound(m)
  BY DEF DisplayInit
<1>8. \A d \in Links : AcknowledgedSound(d)
  BY <1>2, <1>3 DEF AcknowledgedSound
<1> QED
  BY <1>4, <1>5, <1>6, <1>7, <1>8 DEF DisplayInv

\* Every step of a window keeps the invariant.
LEMMA DisplayKeeps ==
    ASSUME DisplayInv, NEW w \in Windows, Display(w)
    PROVE  DisplayInv' /\ LinksMove
<1>1. CASE \E d \in Links : OpenLink(w, d)
  BY <1>1, OpenLinkKeeps
<1>2. CASE Reload(w) \/ CloseTab(w) \/ Sleep(w) \/ Wake(w)
  BY <1>2, ReloadKeeps, CloseTabKeeps, HiddenKeeps
<1>3. CASE Claim(w) \/ ClaimFails(w) \/ ClaimUnavailable(w)
  BY <1>3, ClaimStepKeeps, ClaimFailsKeeps, ClaimUnavailableKeeps
<1>4. CASE Poll(w) \/ Refresh(w)
  BY <1>4, PollKeeps
<1>5. CASE Draw(w) \/ Subscribe(w) \/ Disconnect(w)
  BY <1>5, ChannelKeeps
<1>6. CASE \E i \in DOMAIN answers[w] : Read(w, i) \/ Receive(w, i) \/ ReceiveTerminal(w, i)
  BY <1>6, ReadKeeps, ReceiveKeeps, ReceiveTerminalKeeps
<1>7. CASE HearClosed(w) \/ Expire(w) \/ \E i \in DOMAIN answers[w] : ReceiveEnd(w, i)
  BY <1>7, EndingsKeep
<1>8. CASE LoseSignal(w) \/ \E i \in DOMAIN answers[w] : LoseAnswer(w, i)
  BY <1>8, LoseKeeps
<1>9. CASE HearDisabled(w)
  BY <1>9, HearDisabledKeeps
<1>10. CASE FlushRender(w) \/ Heartbeat(w)
  BY <1>10, FlushRenderKeeps, HeartbeatKeeps
<1> QED
  BY <1>1, <1>2, <1>3, <1>4, <1>5, <1>6, <1>7, <1>8, <1>9, <1>10 DEF Display

\* So does every step of the specification.
LEMMA DisplayStepKeeps ==
    ASSUME DisplayInv, [DisplayNext]_displayVars
    PROVE  DisplayInv' /\ LinksMove
<1>1. CASE Administration
  BY <1>1, Administrated
<1>2. ASSUME NEW w \in Windows, Display(w) PROVE DisplayInv' /\ LinksMove
  BY <1>2, DisplayKeeps
<1>3. ASSUME NEW m \in reports, Execute(m) \/ Timeout(m) \/ LoseReport(m)
      PROVE  DisplayInv' /\ LinksMove
  BY <1>3, ExecuteKeeps, TimeoutKeeps, LoseReportKeeps
<1>4. CASE UNCHANGED displayVars
  <2>1. UNCHANGED <<gate, lectureOpen, live, link, latest, window, stored, answers, signals, reports>>
    BY <1>4 DEF displayVars, database
  <2>2. DatabaseSound' /\ WindowsTyped'
    BY <2>1, Parts DEF DatabaseSound, WindowsTyped, OneDisplay
  <2>3. \A w \in Windows : WindowSound(w)'
    BY <2>1, Parts DEF WindowSound, Issued, Showing, SlideSound, AnswerSound, Dead, RenderSound,
                       InStepWindow, Terminal
  <2>4. \A m \in reports' : MessageSound(m)'
    BY <2>1, Parts DEF MessageSound, Issued, Dead, RenderSound, InStepWindow
  <2>5. \A d \in Links : AcknowledgedSound(d)'
    BY <2>1, Parts DEF AcknowledgedSound, Dead, InStepWindow
  <2> QED
    BY <2>1, <2>2, <2>3, <2>4, <2>5 DEF DisplayInv, LinksMove
<1> QED
  BY <1>1, <1>2, <1>3, <1>4 DEF DisplayNext, Delivery

\* The invariant, for every set of links, windows and profiles and every bound.
THEOREM DisplayGuaranteed == DisplaySpec => []DisplayInv
<1>1. DisplayInit => DisplayInv
  BY DisplayInitSound
<1>2. DisplayInv /\ [DisplayNext]_displayVars => DisplayInv'
  BY DisplayStepKeeps
<1> QED
  BY <1>1, <1>2, PTL DEF DisplaySpec

\* One display per lecture, and slides only in windows of the profile that claimed the link.
THEOREM DisplaysAreSound == DisplaySpec => []DisplaysSound
<1>1. DisplayInv => DisplaysSound
  <2>1. DisplayInv => OneDisplay /\ ShownToClaimant /\ ClosedIsClosed
    BY DEF DisplayInv, DatabaseSound, WindowSound, ShownToClaimant, ClosedIsClosed
  <2> QED
    BY <2>1, TypeFollows DEF DisplaysSound
<1> QED
  BY <1>1, DisplayGuaranteed, PTL

\* When the teacher's badge says "synced", the load that was acknowledged last has drawn the
\* present page at the present version, whatever was lost, late, repeated or reloaded.
THEOREM SyncedIsDrawn == DisplaySpec => []SyncedIsRendered
<1>1. DisplayInv => SyncedIsRendered
  <2> SUFFICES ASSUME DisplayInv, NEW w \in Windows, Badge = "synced", link[latest].by = w
               PROVE  InStepWindow(w)
    BY DEF SyncedIsRendered, InStepWindow
  <2>1. latest # None
    BY DEF Badge
  <2>2. PICK d \in Links : d = latest
    BY <2>1, Parts DEF DatabaseSound
  <2>3. /\ link[d].root = "open" /\ link[d].binding = "open" /\ link[d].term /\ lectureOpen
        /\ link[d].version = live.version
    <3>1. PICK l \in Link : l = link[d]
      BY Parts
    <3>2. CASE ~(l.root = "open" /\ l.binding = "open" /\ l.term /\ lectureOpen)
      <4>1. Badge \in {"none", "ended"}
        BY <2>1, <2>2, <3>1, <3>2, Parts DEF Badge, Link, DatabaseSound
      <4> QED
        BY <4>1
    <3>3. CASE /\ l.root = "open" /\ l.binding = "open" /\ l.term /\ lectureOpen
               /\ l.version # live.version
      <4>1. Badge \in {"waiting", "reconnecting", "connected"}
        BY <2>1, <2>2, <3>1, <3>3 DEF Badge, Link
      <4> QED
        BY <4>1
    <3> QED
      BY <3>1, <3>2, <3>3
  <2>4. AcknowledgedSound(d) /\ w # None
    BY Parts, Constants
  <2> QED
    BY <2>2, <2>3, <2>4 DEF AcknowledgedSound, Dead
<1> QED
  BY <1>1, DisplayGuaranteed, PTL

\* Nothing that ended comes back, and the user of a link never changes.
THEOREM LinksAreFinal == DisplaySpec => LinksFinal
<1>1. DisplayInv /\ [DisplayNext]_displayVars => [LinksMove]_displayVars
  BY DisplayStepKeeps
<1>2. [][LinksMove]_displayVars <=> LinksFinal
  BY PTL DEF LinksFinal, LinksMove
<1> QED
  BY <1>1, <1>2, DisplayGuaranteed, PTL DEF DisplaySpec
=============================================================================
