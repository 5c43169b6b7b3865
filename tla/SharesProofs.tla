--------------------------- MODULE SharesProofs ---------------------------
(***************************************************************************)
(* Proofs about Shares for every set of documents, links, tabs and         *)
(* visitors and every choice of limits.                                    *)
(***************************************************************************)
EXTENDS Shares, FiniteSetTheorems, TLAPS

-----------------------------------------------------------------------------
(***************************************************************************)
(* Type correctness, and the shape of the pages.                           *)
(***************************************************************************)
LEMMA TypeInit == Init => TypeOK /\ PagesHaveLinks
<1> USE LimitAssumption
<1> QED
  BY DEF Init, TypeOK, Documents!Init, Documents!TypeOK, Documents!Status,
         Expiry, Permission, PagesHaveLinks

LEMMA DocumentsStep ==
    ASSUME Documents!TypeOK, Documents!Next
    PROVE  /\ Documents!TypeOK'
           /\ \A d \in Doc : status[d] # "absent" => status'[d] # "absent"
<1> USE DEF Documents!TypeOK, Documents!Status, Documents!Become
<1>1. ASSUME NEW d \in Doc,
             Documents!Store(d) \/ Documents!Publish(d) \/ Documents!Drop(d)
      PROVE  /\ Documents!TypeOK'
             /\ \A e \in Doc : status[e] # "absent" => status'[e] # "absent"
  BY <1>1 DEF Documents!Store, Documents!Publish, Documents!Drop
<1>2. ASSUME NEW D \in SUBSET Doc,
             \/ Documents!Trash(D) \/ Documents!Restore(D) \/ Documents!Doom(D)
             \/ Documents!Spare(D) \/ Documents!Purge(D) \/ Documents!Release(D)
      PROVE  /\ Documents!TypeOK'
             /\ \A e \in Doc : status[e] # "absent" => status'[e] # "absent"
  BY <1>2 DEF Documents!Trash, Documents!Restore, Documents!Doom, Documents!Spare,
              Documents!Purge, Documents!Release
<1> QED
  BY <1>1, <1>2 DEF Documents!Next

LEMMA TypeStep ==
    ASSUME TypeOK, PagesHaveLinks, [Next]_vars
    PROVE  TypeOK' /\ PagesHaveLinks'
<1> USE LimitAssumption, NilAssumption
        DEF TypeOK, PagesHaveLinks, Live, Expiry, Permission
<1>1. CASE DocumentStep
  <2>1. /\ Documents!TypeOK'
        /\ \A d \in Doc : status[d] # "absent" => status'[d] # "absent"
    BY <1>1, DocumentsStep DEF DocumentStep
  <2> QED
    BY <1>1, <2>1 DEF DocumentStep, pageVars, historyVars
<1>2. ASSUME UNCHANGED documentVars
      PROVE  Documents!TypeOK'
  BY <1>2 DEF documentVars, Documents!TypeOK
<1>3. ASSUME NEW o \in Owner, NEW d \in Doc, CreateShareLink(o, d)
      PROVE  TypeOK' /\ PagesHaveLinks'
  BY <1>2, <1>3 DEF CreateShareLink, documentVars, linkVars, pageVars, historyVars
<1>4. ASSUME NEW o \in Owner, NEW s \in Share, NEW l \in Limit \cup {Nil},
             NEW e \in Expiry, NEW a \in Permission,
             InsertShareLink(o, s, l, e, a)
      PROVE  TypeOK' /\ PagesHaveLinks'
  BY <1>2, <1>4 DEF InsertShareLink, documentVars, pageVars, historyVars
<1>5. ASSUME NEW o \in Owner, InsertFails(o)
      PROVE  TypeOK' /\ PagesHaveLinks'
  BY <1>2, <1>5 DEF InsertFails, documentVars, linkVars, pageVars, historyVars
<1>6. ASSUME NEW s \in Share, RevokeShareLink(s)
      PROVE  TypeOK' /\ PagesHaveLinks'
  BY <1>2, <1>6 DEF RevokeShareLink, documentVars, pageVars, historyVars
<1>7. ASSUME NEW s \in Share, Expire(s)
      PROVE  TypeOK' /\ PagesHaveLinks'
  BY <1>2, <1>7 DEF Expire, documentVars, pageVars, historyVars
<1>8. ASSUME NEW v \in Visitor, NEW s \in Share, OpenPage(v, s)
      PROVE  TypeOK' /\ PagesHaveLinks'
  BY <1>2, <1>8 DEF OpenPage, documentVars, linkVars, historyVars
<1>9. ASSUME NEW v \in Visitor, DownloadSharedDocument(v)
      PROVE  TypeOK' /\ PagesHaveLinks'
  BY <1>2, <1>9 DEF DownloadSharedDocument, documentVars, linkVars, historyVars
<1>10. ASSUME NEW v \in Visitor, CountDownload(v)
       PROVE  TypeOK' /\ PagesHaveLinks'
  BY <1>2, <1>10 DEF CountDownload, documentVars, historyVars
<1>11. ASSUME NEW v \in Visitor, GetObject(v)
       PROVE  TypeOK' /\ PagesHaveLinks'
  BY <1>2, <1>11 DEF GetObject, documentVars, linkVars
<1>12. ASSUME NEW v \in Visitor, GetObjectFails(v)
       PROVE  TypeOK' /\ PagesHaveLinks'
  BY <1>2, <1>12 DEF GetObjectFails, documentVars, linkVars
<1>13. ASSUME NEW v \in Visitor, BackToStart(v)
       PROVE  TypeOK' /\ PagesHaveLinks'
  BY <1>2, <1>13 DEF BackToStart, documentVars, linkVars, historyVars
<1>14. ASSUME NEW v \in Visitor, ClosePage(v)
       PROVE  TypeOK' /\ PagesHaveLinks'
  BY <1>2, <1>14 DEF ClosePage, documentVars, linkVars
<1>15. CASE UNCHANGED vars
  BY <1>2, <1>15 DEF vars, documentVars
<1> HIDE DEF TypeOK, PagesHaveLinks, Live, Expiry, Permission
<1> QED
  BY <1>1, <1>3, <1>4, <1>5, <1>6, <1>7, <1>8, <1>9, <1>10, <1>11, <1>12,
     <1>13, <1>14, <1>15
     DEF Next, OwnerStep, VisitorStep, Serve

\* Every reachable state of the share links and their pages is well typed.
THEOREM TypeCorrect == Spec => []TypeOK
<1> DEFINE T == TypeOK /\ PagesHaveLinks
<1>1. Init => T
  BY TypeInit
<1>2. T /\ [Next]_vars => T'
  BY TypeStep
<1>3. Spec => []T
  BY <1>1, <1>2, PTL DEF Spec
<1>4. T => TypeOK
  OBVIOUS
<1> QED
  BY <1>3, <1>4, PTL

-----------------------------------------------------------------------------
(***************************************************************************)
(* A link that exists is the link of an existing document.                 *)
(***************************************************************************)
LEMMA LinksStep ==
    ASSUME TypeOK, PagesHaveLinks, LinksHaveDocuments,
           [Next]_vars
    PROVE  LinksHaveDocuments'
<1> USE NilAssumption DEF LinksHaveDocuments, Live
<1>1. CASE DocumentStep
  <2>1. \A d \in Doc : status[d] # "absent" => status'[d] # "absent"
    BY <1>1, DocumentsStep DEF DocumentStep, TypeOK
  <2>2. status' \in [Doc -> Documents!Status]
    BY <1>1, DocumentsStep DEF DocumentStep, TypeOK, Documents!TypeOK
  <2> QED
    BY <1>1, <2>1, <2>2 DEF DocumentStep, TypeOK, Documents!Status
<1>2. ASSUME NEW o \in Owner, NEW s \in Share, NEW l \in Limit \cup {Nil},
             NEW e \in Expiry, NEW a \in Permission,
             InsertShareLink(o, s, l, e, a)
      PROVE  LinksHaveDocuments'
  BY <1>2 DEF InsertShareLink, documentVars, TypeOK, PagesHaveLinks,
              Documents!TypeOK, Documents!Status
<1>3. ASSUME NEW s \in Share, RevokeShareLink(s)
      PROVE  LinksHaveDocuments'
  BY <1>3 DEF RevokeShareLink, documentVars, TypeOK
<1>4. ASSUME UNCHANGED <<status, share_links, document_id>>
      PROVE  LinksHaveDocuments'
  BY <1>4
<1> QED
  BY <1>1, <1>2, <1>3, <1>4
     DEF Next, vars, OwnerStep, VisitorStep, Serve, CreateShareLink, InsertFails,
         Expire, OpenPage, DownloadSharedDocument, CountDownload, GetObject,
         GetObjectFails, BackToStart, ClosePage, documentVars, linkVars

\* For every number of documents, links and tabs, an existing link has an
\* existing document: create_share_link may race with a purge, and the foreign
\* key and its cascade settle it.
THEOREM LinksHaveDocumentsCorrect == Spec => []LinksHaveDocuments
<1> DEFINE T == /\ TypeOK /\ PagesHaveLinks
                /\ LinksHaveDocuments
<1>1. Init => T
  BY TypeInit DEF Init, LinksHaveDocuments, Live
<1>2. T /\ [Next]_vars => T'
  BY TypeStep, LinksStep
<1>3. Spec => []T
  BY <1>1, <1>2, PTL DEF Spec
<1>4. T => LinksHaveDocuments
  OBVIOUS
<1> QED
  BY <1>3, <1>4, PTL

-----------------------------------------------------------------------------
(***************************************************************************)
(* The books of a link: what was counted, sent, lost, and is under way.    *)
(***************************************************************************)
LEMMA VisitorSets ==
    ASSUME NEW S \in SUBSET Visitor
    PROVE  /\ Cardinality(S) \in Nat
           /\ Cardinality(Visitor) \in Nat \ {0}
           /\ \A v \in Visitor \ S :
                /\ Cardinality(S \cup {v}) = Cardinality(S) + 1
                /\ Cardinality(S) + 1 <= Cardinality(Visitor)
           /\ \A v \in S : Cardinality(S \ {v}) = Cardinality(S) - 1
<1>1. IsFiniteSet(Visitor) /\ IsFiniteSet(S)
  BY VisitorAssumption, FS_Subset
<1>2. /\ Cardinality(S) \in Nat
      /\ Cardinality(Visitor) \in Nat
      /\ Cardinality(Visitor) # 0
  BY <1>1, VisitorAssumption, FS_CardinalityType, FS_EmptySet
<1>3. ASSUME NEW v \in Visitor \ S
      PROVE  /\ Cardinality(S \cup {v}) = Cardinality(S) + 1
             /\ Cardinality(S) + 1 <= Cardinality(Visitor)
  <2>1. Cardinality(S \cup {v}) = Cardinality(S) + 1
    BY <1>1, FS_AddElement
  <2>2. Cardinality(S \cup {v}) <= Cardinality(Visitor)
    BY <1>1, FS_Subset
  <2> QED
    BY <2>1, <2>2
<1>4. ASSUME NEW v \in S
      PROVE  Cardinality(S \ {v}) = Cardinality(S) - 1
  BY <1>1, FS_RemoveElement
<1> QED
  BY <1>2, <1>3, <1>4

LEMMA Numbers ==
    ASSUME TypeOK, NEW s \in Share
    PROVE  /\ downloads_count[s] \in Nat /\ served[s] \in Nat /\ lost[s] \in Nat
           /\ download_limit[s] # Nil => download_limit[s] \in Nat
<1>1. downloads_count[s] \in 0 .. MaxInt /\ served[s] \in Nat /\ lost[s] \in Nat
  BY DEF TypeOK
<1>2. download_limit[s] \in Limit \cup {Nil}
  BY DEF TypeOK
<1>3. download_limit[s] # Nil => download_limit[s] \in 0 .. MaxInt
  BY <1>2, LimitAssumption
<1> QED
  BY <1>1, <1>3, LimitAssumption

\* The books of one link, as LedgerBalanced and ChecksBounded keep them.
Balanced(s) ==
    Live(s) => downloads_count[s]
                 = served[s] + lost[s] + Cardinality(Fetching(s))
Bounded(s) ==
    download_limit[s] # Nil =>
        /\ Live(s) => downloads_count[s] + Cardinality(Pending(s)) + 1
                        <= download_limit[s] + Cardinality(Visitor)
        /\ served[s] + Cardinality(Fetching(s)) + Cardinality(Pending(s)) + 1
             <= download_limit[s] + Cardinality(Visitor)

\* A step that moves no download leaves the books alone; a link may go.
LEMMA BooksKept ==
    ASSUME NEW s \in Share, Balanced(s), Bounded(s), Live(s)' => Live(s),
           Pending(s)' = Pending(s), Fetching(s)' = Fetching(s),
           UNCHANGED <<downloads_count, download_limit, served, lost>>
    PROVE  Balanced(s)' /\ Bounded(s)'
BY DEF Balanced, Bounded

LEMMA BooksStep ==
    ASSUME TypeOK, PagesHaveLinks, LinksHaveDocuments,
           [Next]_vars, NEW s \in Share, Balanced(s), Bounded(s)
    PROVE  Balanced(s)' /\ Bounded(s)'
<1> DEFINE p == Cardinality(Pending(s))
           f == Cardinality(Fetching(s))
           N == Cardinality(Visitor)
<1>0. /\ Pending(s) \in SUBSET Visitor /\ Fetching(s) \in SUBSET Visitor
      /\ p \in Nat /\ f \in Nat /\ N \in Nat \ {0}
      /\ downloads_count[s] \in Nat /\ served[s] \in Nat /\ lost[s] \in Nat
      /\ download_limit[s] # Nil => download_limit[s] \in Nat
  <2>1. Pending(s) \in SUBSET Visitor /\ Fetching(s) \in SUBSET Visitor
    BY DEF Pending, Fetching
  <2>2. p \in Nat /\ f \in Nat /\ N \in Nat \ {0}
    BY <2>1, VisitorSets
  <2> QED
    BY <2>1, <2>2, Numbers
<1>1. CASE UNCHANGED <<pageVars, historyVars, downloads_count, download_limit>>
           /\ (Live(s)' => Live(s))
  <2>1. Pending(s)' = Pending(s) /\ Fetching(s)' = Fetching(s)
    BY <1>1 DEF Pending, Fetching, pageVars
  <2> QED
    BY <1>1, <2>1, BooksKept DEF historyVars
<1>2. ASSUME NEW o \in Owner, NEW q \in Share, NEW l \in Limit \cup {Nil},
             NEW e \in Expiry, NEW a \in Permission,
             InsertShareLink(o, q, l, e, a)
      PROVE  Balanced(s)' /\ Bounded(s)'
  <2>1. Pending(s)' = Pending(s) /\ Fetching(s)' = Fetching(s)
    BY <1>2 DEF InsertShareLink, pageVars, Pending, Fetching
  <2>2. CASE s # q
    BY <1>2, <2>1, <2>2, BooksKept
       DEF InsertShareLink, historyVars, Live, TypeOK, Balanced, Bounded
  <2>3. CASE s = q
    <3>1. Pending(s) = {} /\ Fetching(s) = {}
      BY <1>2, <2>3 DEF InsertShareLink, PagesHaveLinks, Pending, Fetching
    <3>2. p = 0 /\ f = 0
      BY <3>1, FS_EmptySet
    <3>3. downloads_count[s] = 0 /\ served[s] = 0 /\ lost[s] = 0
      BY <1>2, <2>3 DEF InsertShareLink, PagesHaveLinks
    <3>4. download_limit'[s] # Nil => download_limit'[s] \in Nat
      BY <1>2, <2>3, LimitAssumption DEF InsertShareLink, TypeOK
    <3>5. UNCHANGED <<downloads_count, served, lost>>
      BY <1>2 DEF InsertShareLink, historyVars
    <3>6. Cardinality(Pending(s)') = 0 /\ Cardinality(Fetching(s)') = 0
      BY <2>1, <3>2
    <3> HIDE DEF N
    <3> QED
      BY <1>0, <3>3, <3>4, <3>5, <3>6 DEF Balanced, Bounded, N
  <2> QED
    BY <2>2, <2>3
<1>3. ASSUME NEW v \in Visitor, NEW q \in Share, OpenPage(v, q)
      PROVE  Balanced(s)' /\ Bounded(s)'
  <2>1. Pending(s)' = Pending(s) /\ Fetching(s)' = Fetching(s)
    BY <1>3 DEF OpenPage, Pending, Fetching, TypeOK
  <2> QED
    BY <1>3, <2>1, BooksKept DEF OpenPage, linkVars, historyVars, Live
<1>4. ASSUME NEW v \in Visitor, BackToStart(v)
      PROVE  Balanced(s)' /\ Bounded(s)'
  <2>1. Pending(s)' = Pending(s) /\ Fetching(s)' = Fetching(s)
    BY <1>4 DEF BackToStart, Pending, Fetching, TypeOK
  <2> QED
    BY <1>4, <2>1, BooksKept DEF BackToStart, linkVars, historyVars, Live
<1>5. ASSUME NEW v \in Visitor, DownloadSharedDocument(v)
      PROVE  Balanced(s)' /\ Bounded(s)'
  <2>1. Fetching(s)' = Fetching(s)
    BY <1>5 DEF DownloadSharedDocument, Fetching, TypeOK
  <2>2. CASE page'[v] = "counting" /\ at[v] = s
    <3>1. v \in Visitor \ Pending(s) /\ Pending(s)' = Pending(s) \cup {v}
      BY <1>5, <2>2 DEF DownloadSharedDocument, Pending, TypeOK
    <3>2. Cardinality(Pending(s)') = p + 1 /\ p + 1 <= N
      BY <1>0, <3>1, VisitorSets
    <3>3. Available(s)
      BY <1>5, <2>2 DEF DownloadSharedDocument, TypeOK
    <3>4. /\ Live(s)
          /\ download_limit[s] # Nil => downloads_count[s] + 1 <= download_limit[s]
      BY <1>0, <3>3 DEF Available
    <3>5. downloads_count[s] = served[s] + lost[s] + f
      BY <3>4 DEF Balanced
    <3>6. UNCHANGED <<Live(s), downloads_count, download_limit, served, lost>>
      BY <1>5 DEF DownloadSharedDocument, linkVars, historyVars, Live
    <3> HIDE DEF p, f, N
    <3>7. /\ Live(s)' /\ Cardinality(Fetching(s)') = f
          /\ Cardinality(Pending(s)') = p + 1
      BY <2>1, <3>2, <3>4, <3>6 DEF f
    <3> QED
      BY <1>0, <3>2, <3>4, <3>5, <3>6, <3>7 DEF Balanced, Bounded, N
  <2>3. CASE ~(page'[v] = "counting" /\ at[v] = s)
    <3>1. Pending(s)' = Pending(s)
      BY <1>5, <2>3 DEF DownloadSharedDocument, Pending, TypeOK
    <3> QED
      BY <1>5, <2>1, <3>1, BooksKept
         DEF DownloadSharedDocument, linkVars, historyVars, Live
  <2> QED
    BY <2>2, <2>3
<1>6. ASSUME NEW v \in Visitor, CountDownload(v)
      PROVE  Balanced(s)' /\ Bounded(s)'
  <2>1. CASE at[v] # s
    <3>1. Pending(s)' = Pending(s) /\ Fetching(s)' = Fetching(s)
      BY <1>6, <2>1 DEF CountDownload, Pending, Fetching, TypeOK
    <3>2. UNCHANGED <<Live(s), downloads_count[s], download_limit, served, lost>>
      BY <1>6, <2>1 DEF CountDownload, historyVars, Live, TypeOK
    <3> QED
      BY <3>1, <3>2 DEF Balanced, Bounded
  <2>2. CASE at[v] = s
    <3>1. v \in Pending(s) /\ Pending(s)' = Pending(s) \ {v}
      BY <1>6, <2>2 DEF CountDownload, Pending, TypeOK
    <3>2. Cardinality(Pending(s)') = p - 1
      BY <1>0, <3>1, VisitorSets
    <3>3. UNCHANGED <<Live(s), download_limit, served, lost>>
      BY <1>6 DEF CountDownload, historyVars, Live
    <3>4. v \notin Fetching(s)
      BY <1>6 DEF CountDownload, Fetching
    <3>5. CASE Live(s) /\ downloads_count[s] = MaxInt
      <4>1. Fetching(s)' = Fetching(s) /\ downloads_count'[s] = downloads_count[s]
        BY <1>6, <2>2, <3>5 DEF CountDownload, Fetching, TypeOK
      <4>2. Cardinality(Fetching(s)') = f
        BY <4>1
      <4> HIDE DEF p, f, N
      <4> QED
        BY <1>0, <3>2, <3>3, <4>1, <4>2 DEF Balanced, Bounded, p, f, N
    <3>6. CASE ~(Live(s) /\ downloads_count[s] = MaxInt)
      <4>1. Fetching(s)' = Fetching(s) \cup {v}
        BY <1>6, <2>2, <3>6 DEF CountDownload, Fetching, TypeOK
      <4>2. Cardinality(Fetching(s)') = f + 1
        BY <1>0, <3>4, <4>1, VisitorSets
      <4>3. Live(s) => downloads_count'[s] = downloads_count[s] + 1
        BY <1>6, <2>2, <3>6 DEF CountDownload, TypeOK
      <4> HIDE DEF p, f, N
      <4> QED
        BY <1>0, <3>2, <3>3, <4>2, <4>3 DEF Balanced, Bounded, p, f, N
    <3> QED
      BY <3>5, <3>6
  <2> QED
    BY <2>1, <2>2
<1>7. ASSUME NEW v \in Visitor, page[v] = "fetching", at[v] = s,
             page'[v] # "fetching" \/ at'[v] # s,
             \A u \in Visitor \ {v} : page'[u] = page[u] /\ at'[u] = at[u],
             page'[v] # "counting",
             UNCHANGED <<linkVars, downloads_count>>,
             \/ served'[s] = served[s] + 1 /\ lost'[s] = lost[s]
             \/ served'[s] = served[s] /\ lost'[s] = lost[s] + 1
      PROVE  Balanced(s)' /\ Bounded(s)'
  <2>1. /\ v \in Fetching(s) /\ Fetching(s)' = Fetching(s) \ {v}
        /\ Pending(s)' = Pending(s)
    BY <1>7 DEF Fetching, Pending
  <2>2. Cardinality(Fetching(s)') = f - 1 /\ Cardinality(Pending(s)') = p
    BY <1>0, <2>1, VisitorSets
  <2>3. UNCHANGED <<Live(s), downloads_count, download_limit>>
    BY <1>7 DEF linkVars, Live
  <2>4. \/ served'[s] = served[s] + 1 /\ lost'[s] = lost[s]
        \/ served'[s] = served[s] /\ lost'[s] = lost[s] + 1
    BY <1>7
  <2>5. Balanced(s)'
    <3> HIDE DEF p, f, N
    <3> QED
      BY <1>0, <2>2, <2>3, <2>4 DEF Balanced, p, f
  <2>6. Bounded(s)'
    <3> HIDE DEF p, f, N
    <3> QED
      BY <1>0, <2>2, <2>3, <2>4 DEF Bounded, p, f, N
  <2> QED
    BY <2>5, <2>6
<1>8. ASSUME NEW v \in Visitor,
             page[v] # "fetching" \/ at[v] # s, page'[v] # "fetching" \/ at'[v] # s,
             page[v] # "counting" \/ at[v] # s, page'[v] # "counting",
             \A u \in Visitor \ {v} : page'[u] = page[u] /\ at'[u] = at[u],
             UNCHANGED <<linkVars, downloads_count>>,
             served'[s] = served[s], lost'[s] = lost[s]
      PROVE  Balanced(s)' /\ Bounded(s)'
  <2>1. Pending(s)' = Pending(s) /\ Fetching(s)' = Fetching(s)
    BY <1>8 DEF Pending, Fetching
  <2> QED
    BY <1>8, <2>1 DEF linkVars, Live, Balanced, Bounded
<1>9. ASSUME NEW v \in Visitor, GetObject(v)
      PROVE  Balanced(s)' /\ Bounded(s)'
  <2>1. CASE at[v] = s
    BY <1>7, <1>9, <2>1 DEF GetObject, linkVars, TypeOK
  <2>2. CASE at[v] # s
    BY <1>8, <1>9, <2>2 DEF GetObject, linkVars, TypeOK
  <2> QED
    BY <2>1, <2>2
<1>10. ASSUME NEW v \in Visitor, GetObjectFails(v)
       PROVE  Balanced(s)' /\ Bounded(s)'
  <2>1. CASE at[v] = s
    BY <1>7, <1>10, <2>1 DEF GetObjectFails, linkVars, TypeOK
  <2>2. CASE at[v] # s
    BY <1>8, <1>10, <2>2 DEF GetObjectFails, linkVars, TypeOK
  <2> QED
    BY <2>1, <2>2
<1>11. ASSUME NEW v \in Visitor, ClosePage(v)
       PROVE  Balanced(s)' /\ Bounded(s)'
  <2>1. CASE page[v] = "fetching" /\ at[v] = s
    BY <1>7, <1>11, <2>1 DEF ClosePage, linkVars, TypeOK
  <2>2. CASE page[v] = "counting" /\ at[v] = s
    <3>1. /\ v \in Pending(s) /\ Pending(s)' = Pending(s) \ {v}
          /\ Fetching(s)' = Fetching(s)
      BY <1>11, <2>2 DEF ClosePage, Pending, Fetching, TypeOK
    <3>2. Cardinality(Pending(s)') = p - 1 /\ Cardinality(Fetching(s)') = f
      BY <1>0, <3>1, VisitorSets
    <3>3. UNCHANGED <<Live(s), downloads_count, download_limit, served, lost>>
      BY <1>11, <2>2 DEF ClosePage, linkVars, Live
    <3> HIDE DEF p, f, N
    <3> QED
      BY <1>0, <3>2, <3>3 DEF Balanced, Bounded, p, f, N
  <2>3. CASE ~(page[v] \in {"counting", "fetching"} /\ at[v] = s)
    <3>1. lost'[s] = lost[s]
      BY <1>11, <2>3 DEF ClosePage, TypeOK
    <3> QED
      BY <1>8, <1>11, <2>3, <3>1 DEF ClosePage, linkVars, TypeOK
  <2> QED
    BY <2>1, <2>2, <2>3
<1>12. CASE DocumentStep
  BY <1>1, <1>12 DEF DocumentStep, Live, TypeOK
<1>13. ASSUME NEW o \in Owner, NEW d \in Doc, CreateShareLink(o, d)
       PROVE  Balanced(s)' /\ Bounded(s)'
  BY <1>1, <1>13 DEF CreateShareLink, linkVars, Live
<1>14. ASSUME NEW o \in Owner, InsertFails(o)
       PROVE  Balanced(s)' /\ Bounded(s)'
  BY <1>1, <1>14 DEF InsertFails, linkVars, Live
<1>15. ASSUME NEW q \in Share, RevokeShareLink(q) \/ Expire(q)
       PROVE  Balanced(s)' /\ Bounded(s)'
  BY <1>1, <1>15 DEF RevokeShareLink, Expire, Live, TypeOK
<1>16. CASE UNCHANGED vars
  BY <1>1, <1>16 DEF vars, pageVars, historyVars, Live
<1> HIDE DEF p, f, N
<1> QED
  BY <1>2, <1>3, <1>4, <1>5, <1>6, <1>9, <1>10, <1>11, <1>12, <1>13, <1>14,
     <1>15, <1>16 DEF Next, OwnerStep, VisitorStep, Serve

LEMMA SharesInvStep == SharesInv /\ [Next]_vars => SharesInv'
<1> SUFFICES ASSUME SharesInv, [Next]_vars PROVE SharesInv'
  OBVIOUS
<1>1. TypeOK' /\ PagesHaveLinks' /\ LinksHaveDocuments'
  BY TypeStep, LinksStep DEF SharesInv
<1>2. ASSUME NEW s \in Share PROVE Balanced(s)' /\ Bounded(s)'
  BY BooksStep DEF SharesInv, LedgerBalanced, ChecksBounded, Balanced, Bounded
<1>3. LedgerBalanced' /\ ChecksBounded'
  BY <1>2 DEF LedgerBalanced, ChecksBounded, Balanced, Bounded
<1> QED
  BY <1>1, <1>3 DEF SharesInv

LEMMA SharesInvInit == Init => SharesInv
<1> SUFFICES ASSUME Init PROVE SharesInv
  OBVIOUS
<1>1. \A s \in Share : Pending(s) = {} /\ Fetching(s) = {}
  BY DEF Init, Pending, Fetching
<1>2. LinksHaveDocuments /\ LedgerBalanced /\ ChecksBounded
  BY <1>1 DEF Init, LinksHaveDocuments, LedgerBalanced, ChecksBounded, Live
<1> QED
  BY <1>2, TypeInit DEF SharesInv

LEMMA SharesInvariant == Spec => []SharesInv
BY SharesInvInit, SharesInvStep, PTL DEF Spec

\* For every number of links and visitors, each download that was counted on
\* an existing link was sent, is under way, or was lost to S3, a purge or
\* its visitor.
THEOREM LedgerBalancedCorrect == Spec => []LedgerBalanced
<1>1. SharesInv => LedgerBalanced
  BY DEF SharesInv
<1> QED
  BY <1>1, SharesInvariant, PTL

\* With N visitors at one time a link is used at most N - 1 times more than
\* its limit says, so never more often when downloads do not overlap.
THEOREM OvershootBoundedCorrect == Spec => []OvershootBounded
<1>1. SharesInv => OvershootBounded
  <2> SUFFICES ASSUME SharesInv, NEW s \in Share, download_limit[s] # Nil
               PROVE  served[s] + 1 <= download_limit[s] + Cardinality(Visitor)
    BY DEF OvershootBounded
  <2>1. Pending(s) \in SUBSET Visitor /\ Fetching(s) \in SUBSET Visitor
    BY DEF Pending, Fetching
  <2>2. /\ Cardinality(Pending(s)) \in Nat /\ Cardinality(Fetching(s)) \in Nat
        /\ Cardinality(Visitor) \in Nat
    BY <2>1, VisitorSets
  <2>3. served[s] \in Nat /\ download_limit[s] \in Nat
    BY Numbers DEF SharesInv
  <2>4. served[s] + Cardinality(Fetching(s)) + Cardinality(Pending(s)) + 1
          <= download_limit[s] + Cardinality(Visitor)
    BY DEF SharesInv, ChecksBounded
  <2> QED
    BY <2>2, <2>3, <2>4
<1> QED
  BY <1>1, SharesInvariant, PTL

=============================================================================
