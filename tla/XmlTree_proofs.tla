--------------------------- MODULE XmlTree_proofs ---------------------------
(***************************************************************************)
(* For every set of names, tags and texts, and documents of any length: no *)
(* assertion of TreeBuilder fails, no two namespaces share a prefix, what  *)
(* is built is a tree, write raises only if a comment follows the root,    *)
(* and a parser reads from the written texts what they were.               *)
(***************************************************************************)
EXTENDS XmlTree, SequenceTheorems, FiniteSetTheorems, WellFoundedInduction, TLAPS

Attribs == {tag[2] : tag \in StartTag} \cup {<<>>}

(* What flushing and handle_comment make the text or the tail of an element. *)
Contents == {None} \cup CommentText \cup {FlattenSeq(d) : d \in Seq(Text)}

Elements == [tag : Name \cup {Comment}, attrib : Attribs, text : Contents,
             tail : Contents, kids : Seq(Nat)]

Token ==
    [kind : {"start"}, name : Name, attrib : Attribs]
      \cup [kind : {"end", "pi", "doctype", "entity"}]
      \cup [kind : {"data", "comment"}, text : Text \cup CommentText]

Types ==
    /\ doc \in Seq(Token) /\ open \in Seq(Name)
    /\ elems \in Seq(Elements) /\ stack \in Seq(Nat)
    /\ last \in Nat /\ last <= Len(elems)
    /\ tail \in BOOLEAN /\ data \in Seq(Text)

(* The stack has the elements that expat has open, each once, and none of  *)
(* them has a tail yet.                                                    *)
OnStack ==
    /\ Len(stack) = Len(open)
    /\ \A i \in 1..Len(stack) :
         /\ stack[i] \in 1..Len(elems)
         /\ elems[stack[i]].tag = open[i]
         /\ elems[stack[i]].tail = None
    /\ \A i, j \in 1..Len(stack) : stack[i] = stack[j] => i = j

(* What the next flush sets has not been set; a tail is that of an element *)
(* that has ended.                                                         *)
Fresh ==
    last # 0 => IF tail THEN /\ elems[last].tail = None
                             /\ \A i \in 1..Len(stack) : stack[i] # last
                        ELSE elems[last].text = None

Builder == Types /\ OnStack /\ Fresh /\ (RootSeen => last # 0)

IInv == Builder /\ phase # "assertion"

----------------------------------------------------------------------------
(* A flush sets nothing twice.                                             *)
LEMMA FlushSucceeds == Fresh => FlushAsserts
BY DEF Fresh, FlushAsserts, Flushes

(* A flush leaves all elements, their tags, and the elements on the stack  *)
(* without a tail.                                                         *)
LEMMA FlushedElements ==
    ASSUME Builder
    PROVE  /\ Flushed \in Seq(Elements)
           /\ Len(Flushed) = Len(elems)
           /\ \A e \in 1..Len(elems) : /\ Flushed[e].tag = elems[e].tag
                                       /\ Flushed[e].kids = elems[e].kids
           /\ \A i \in 1..Len(stack) : Flushed[stack[i]].tail = None
<1> USE DEF Builder, Types
<1>1. CASE ~Flushes
  BY <1>1 DEF Flushed, OnStack
<1>2. CASE Flushes
  <2> DEFINE text == FlattenSeq(data)
             new == IF tail THEN [elems[last] EXCEPT !.tail = text]
                            ELSE [elems[last] EXCEPT !.text = text]
  <2>1. last \in 1..Len(elems) /\ elems[last] \in Elements
    BY <1>2 DEF Flushes
  <2>2. text \in Contents
    BY DEF Contents
  <2> HIDE DEF text
  <2>3. /\ new \in Elements
        /\ new.tag = elems[last].tag
        /\ new.kids = elems[last].kids
        /\ ~tail => new.tail = elems[last].tail
    BY <2>1, <2>2 DEF Elements
  <2>4. Flushed = [elems EXCEPT ![last] = new]
    BY <1>2 DEF Flushed, text
  <2> HIDE DEF new
  <2>5. /\ Flushed \in Seq(Elements)
        /\ Len(Flushed) = Len(elems)
        /\ \A e \in 1..Len(elems) : Flushed[e] = IF e = last THEN new ELSE elems[e]
    BY <2>1, <2>3, <2>4, ExceptSeq
  <2>6. ASSUME NEW i \in 1..Len(stack) PROVE Flushed[stack[i]].tail = None
    <3>1. stack[i] \in 1..Len(elems) /\ elems[stack[i]].tail = None
      BY DEF OnStack
    <3>2. stack[i] = last => ~tail
      BY <2>1 DEF Fresh
    <3> QED BY <2>3, <2>5, <3>1, <3>2
  <2> QED BY <2>3, <2>5, <2>6
<1> QED BY <1>1, <1>2

(* A new element is the last one; it has neither text nor tail.            *)
LEMMA StartedElements ==
    ASSUME Builder, NEW tag \in Name \cup {Comment}, NEW attrib \in Attribs
    PROVE  /\ Started(tag, attrib) \in Seq(Elements)
           /\ Len(Started(tag, attrib)) = Len(elems) + 1
           /\ \A i \in 1..Len(stack) :
                /\ Started(tag, attrib)[stack[i]].tag = elems[stack[i]].tag
                /\ Started(tag, attrib)[stack[i]].tail = None
           /\ \A e \in 1..Len(elems) :
                /\ Started(tag, attrib)[e].tag = elems[e].tag
                /\ Started(tag, attrib)[e].text = Flushed[e].text
                /\ Started(tag, attrib)[e].kids \in {elems[e].kids, Append(elems[e].kids, Len(elems) + 1)}
           /\ stack # <<>> => /\ Last(stack) \in 1..Len(elems)
                              /\ Started(tag, attrib)[Last(stack)].kids
                                    = Append(elems[Last(stack)].kids, Len(elems) + 1)
           /\ Started(tag, attrib)[Len(elems) + 1] = Element(tag, attrib)
<1> USE DEF Builder, Types
<1> DEFINE old == IF stack = <<>> THEN Flushed
                  ELSE [Flushed EXCEPT ![Last(stack)].kids = Append(@, Len(elems) + 1)]
<1>1. /\ Flushed \in Seq(Elements)
      /\ Len(Flushed) = Len(elems)
      /\ \A e \in 1..Len(elems) : /\ Flushed[e].tag = elems[e].tag
                                  /\ Flushed[e].kids = elems[e].kids
      /\ \A i \in 1..Len(stack) : Flushed[stack[i]].tail = None
  BY FlushedElements
<1>2. /\ old \in Seq(Elements)
      /\ Len(old) = Len(elems)
      /\ \A i \in 1..Len(stack) : /\ old[stack[i]].tag = elems[stack[i]].tag
                                  /\ old[stack[i]].tail = None
      /\ \A e \in 1..Len(elems) :
           /\ old[e].tag = elems[e].tag /\ old[e].text = Flushed[e].text
           /\ old[e].kids \in {elems[e].kids, Append(elems[e].kids, Len(elems) + 1)}
      /\ stack # <<>> => /\ Last(stack) \in 1..Len(elems)
                         /\ old[Last(stack)].kids = Append(elems[Last(stack)].kids, Len(elems) + 1)
  <2>1. CASE stack = <<>>
    BY <1>1, <2>1 DEF OnStack
  <2>2. CASE stack # <<>>
    <3> DEFINE e == Last(stack)
               new == [Flushed[e] EXCEPT !.kids = Append(@, Len(elems) + 1)]
    <3>1. e \in 1..Len(elems)
      BY <2>2, EmptySeq DEF Last, OnStack
    <3>2. Flushed[e] \in Elements
      BY <1>1, <3>1
    <3>3. /\ new \in Elements
          /\ new.tag = Flushed[e].tag /\ new.tail = Flushed[e].tail /\ new.text = Flushed[e].text
          /\ new.kids = Append(Flushed[e].kids, Len(elems) + 1)
      <4> DEFINE kids == Append(Flushed[e].kids, Len(elems) + 1)
      <4>1. Flushed[e].kids \in Seq(Nat) /\ Len(elems) + 1 \in Nat
        BY <3>2 DEF Elements
      <4>2. kids \in Seq(Nat)
        BY <4>1, AppendProperties
      <4>3. new = [Flushed[e] EXCEPT !.kids = kids]
        OBVIOUS
      <4>4. kids = Append(Flushed[e].kids, Len(elems) + 1)
        OBVIOUS
      <4> HIDE DEF kids, new, e
      <4> QED BY <3>2, <4>2, <4>3, <4>4 DEF Elements
    <3>4. old = [Flushed EXCEPT ![e] = new]
      BY <2>2
    <3> HIDE DEF new, e, old
    <3>5. /\ old \in Seq(Elements)
          /\ Len(old) = Len(elems)
          /\ \A k \in 1..Len(elems) : old[k] = IF k = e THEN new ELSE Flushed[k]
      BY <1>1, <3>1, <3>3, <3>4, ExceptSeq
    <3>6. \A k \in 1..Len(elems) :
             /\ old[k].tag = elems[k].tag /\ old[k].text = Flushed[k].text
             /\ old[k].kids \in {elems[k].kids, Append(elems[k].kids, Len(elems) + 1)}
      BY <1>1, <3>3, <3>5
    <3>7. e \in 1..Len(elems) /\ old[e].kids = Append(elems[e].kids, Len(elems) + 1)
      BY <1>1, <3>1, <3>3, <3>5
    <3>8. \A i \in 1..Len(stack) : old[stack[i]].tail = None
      BY <1>1, <3>3, <3>5 DEF OnStack
    <3>9. \A i \in 1..Len(stack) : stack[i] \in 1..Len(elems)
      BY DEF OnStack
    <3> QED BY <3>5, <3>6, <3>7, <3>8, <3>9, Zenon DEF e
  <2> QED BY <2>1, <2>2
<1> HIDE DEF old
<1>3. Element(tag, attrib) \in Elements
  BY DEF Element, Elements, Contents
<1>4. Started(tag, attrib) = Append(old, Element(tag, attrib))
  BY DEF Started, old
<1>5. \A i \in 1..Len(stack) : stack[i] \in 1..Len(elems)
  BY DEF OnStack
<1> DEFINE new == Element(tag, attrib)
<1>6. new \in Elements
  BY <1>3
<1> HIDE DEF new
<1>7. /\ Append(old, new) \in Seq(Elements)
      /\ Len(Append(old, new)) = Len(elems) + 1
      /\ \A k \in 1..Len(elems) : Append(old, new)[k] = old[k]
      /\ Append(old, new)[Len(elems) + 1] = new
  <2>1. /\ Append(old, new) \in Seq(Elements)
        /\ Len(Append(old, new)) = Len(old) + 1
        /\ \A k \in 1..Len(old) : Append(old, new)[k] = old[k]
        /\ Append(old, new)[Len(old) + 1] = new
    <3>1. old \in Seq(Elements) /\ new \in Elements
      BY <1>2, <1>6
    <3> HIDE DEF Builder
    <3> QED BY <3>1, AppendProperties
  <2> QED BY <1>2, <2>1, Zenon
<1> DEFINE all == Append(old, new)
<1>8. Started(tag, attrib) = all
  BY <1>4 DEF new
<1>9. /\ all \in Seq(Elements) /\ Len(all) = Len(elems) + 1 /\ all[Len(elems) + 1] = new
      /\ \A k \in 1..Len(elems) : all[k] = old[k]
  BY <1>7
<1> HIDE DEF all, Builder, Types
<1>10. \A i \in 1..Len(stack) : /\ all[stack[i]].tag = elems[stack[i]].tag
                                /\ all[stack[i]].tail = None
  BY <1>2, <1>5, <1>9, Zenon
<1>11. \A e \in 1..Len(elems) :
         /\ all[e].tag = elems[e].tag /\ all[e].text = Flushed[e].text
         /\ all[e].kids \in {elems[e].kids, Append(elems[e].kids, Len(elems) + 1)}
  BY <1>2, <1>9, Zenon
<1>12. stack # <<>> => /\ Last(stack) \in 1..Len(elems)
                       /\ all[Last(stack)].kids = Append(elems[Last(stack)].kids, Len(elems) + 1)
  BY <1>2, <1>9, Zenon
<1> QED BY <1>8, <1>9, <1>10, <1>11, <1>12, Zenon DEF new

(* A document that grows by a token other than a start tag.                *)
LEMMA NoNewRoot ==
    ASSUME doc \in Seq(Token), NEW token \in Token, token.kind # "start",
           doc' = Append(doc, token)
    PROVE  doc' \in Seq(Token) /\ (RootSeen' => RootSeen)
<1>1. /\ doc' \in Seq(Token)
      /\ Len(doc') = Len(doc) + 1
      /\ \A i \in 1..Len(doc) : doc'[i] = doc[i]
      /\ doc'[Len(doc) + 1] = token
  BY AppendProperties
<1> QED BY <1>1 DEF RootSeen

(* A step that neither reads nor builds.                                   *)
LEMMA BuilderUnchanged ==
    Builder /\ UNCHANGED <<doc, open, builder>> => Builder'
BY DEF Builder, Types, OnStack, Fresh, RootSeen, builder

----------------------------------------------------------------------------
(* One lemma per call of expat.                                            *)

LEMMA StartElementKeeps ==
    ASSUME IInv, NEW tag \in StartTag, StartElement(tag[1], tag[2])
    PROVE  IInv'
<1> USE DEF IInv, Builder
<1> DEFINE name == tag[1]
           attrib == tag[2]
           new == Len(elems) + 1
<1>1. name \in Name /\ attrib \in Attribs
  BY XmlTreeAssumption DEF Attribs
<1>2. /\ doc' = Append(doc, [kind |-> "start", name |-> name, attrib |-> attrib])
      /\ open' = Append(open, name)
      /\ elems' = Started(name, attrib)
      /\ last' = new /\ stack' = Append(stack, new)
      /\ tail' = FALSE /\ data' = <<>>
      /\ phase' = phase
  BY FlushSucceeds DEF StartElement, Reads
<1>3. /\ elems' \in Seq(Elements)
      /\ Len(elems') = new
      /\ \A i \in 1..Len(stack) : /\ elems'[stack[i]].tag = elems[stack[i]].tag
                                  /\ elems'[stack[i]].tail = None
      /\ elems'[new] = Element(name, attrib)
  BY <1>1, <1>2, StartedElements
<1>4. /\ elems'[new].tag = name
      /\ elems'[new].text = None
      /\ elems'[new].tail = None
  BY <1>3 DEF Element
<1>5. new \in Nat \ {0} /\ \A i \in 1..Len(stack) : stack[i] < new
  BY DEF Types, OnStack
<1> HIDE DEF name, attrib, new
<1>6. doc' \in Seq(Token)
  BY <1>1, <1>2, AppendProperties DEF Types, Token
<1>7. /\ open' \in Seq(Name) /\ Len(open') = Len(open) + 1
      /\ \A i \in 1..Len(open) : open'[i] = open[i]
      /\ open'[Len(open) + 1] = name
  BY <1>1, <1>2, AppendProperties DEF Types
<1>8. /\ stack' \in Seq(Nat) /\ Len(stack') = Len(stack) + 1
      /\ \A i \in 1..Len(stack) : stack'[i] = stack[i]
      /\ stack'[Len(stack) + 1] = new
  BY <1>2, <1>5, AppendProperties DEF Types
<1>9. Types'
  <2>1. last' \in Nat /\ last' <= Len(elems')
    BY <1>2, <1>3, <1>5
  <2>2. tail' \in BOOLEAN /\ data' \in Seq(Text)
    BY <1>2, EmptySeq
  <2> QED BY <1>3, <1>6, <1>7, <1>8, <2>1, <2>2 DEF Types
<1>10. OnStack'
  <2>1. Len(stack) \in Nat /\ Len(stack) = Len(open)
    BY DEF Types, OnStack
  <2>2. \A i \in 1..Len(stack') : /\ stack'[i] \in 1..Len(elems')
                                 /\ elems'[stack'[i]].tag = open'[i]
                                 /\ elems'[stack'[i]].tail = None
    <3> TAKE i \in 1..Len(stack')
    <3>1. CASE i \in 1..Len(stack)
      <4>1. stack[i] \in 1..Len(elems) /\ elems[stack[i]].tag = open[i]
        BY <3>1 DEF OnStack
      <4>2. stack[i] \in 1..new
        BY <1>5, <3>1, <4>1 DEF Types
      <4>3. stack'[i] = stack[i] /\ open'[i] = open[i]
        BY <1>7, <1>8, <2>1, <3>1
      <4>4. elems'[stack[i]].tag = open[i] /\ elems'[stack[i]].tail = None
        BY <1>3, <3>1, <4>1
      <4> QED BY <1>3, <4>2, <4>3, <4>4
    <3>2. CASE i = Len(stack) + 1
      <4>1. stack'[i] = new /\ open'[i] = name
        BY <1>7, <1>8, <2>1, <3>2
      <4>2. new \in 1..Len(elems')
        BY <1>3, <1>5 DEF Types
      <4> QED BY <1>4, <4>1, <4>2
    <3> QED BY <1>8, <2>1, <3>1, <3>2
  <2>3. \A i, j \in 1..Len(stack') : stack'[i] = stack'[j] => i = j
    <3> TAKE i, j \in 1..Len(stack')
    <3> HAVE stack'[i] = stack'[j]
    <3>1. CASE i \in 1..Len(stack) /\ j \in 1..Len(stack)
      <4>1. stack[i] = stack[j]
        BY <1>8, <3>1
      <4> QED BY <3>1, <4>1 DEF OnStack
    <3>2. \A k \in 1..Len(stack) : stack'[k] # new
      <4> TAKE k \in 1..Len(stack)
      <4>1. stack'[k] = stack[k] /\ stack[k] < new /\ stack[k] \in Nat
        BY <1>5, <1>8 DEF OnStack
      <4> QED BY <1>5, <4>1
    <3>3. \A k \in 1..Len(stack') : k \in 1..Len(stack) \/ k = Len(stack) + 1
      BY <1>8, <2>1
    <3> QED BY <1>8, <3>1, <3>2, <3>3
  <2> QED BY <1>7, <1>8, <2>1, <2>2, <2>3 DEF OnStack
<1>11. Fresh'
  BY <1>2, <1>4 DEF Fresh
<1> QED BY <1>2, <1>5, <1>9, <1>10, <1>11 DEF Types

(* A nonempty sequence without its last element.                           *)
LEMMA FrontElements ==
    ASSUME NEW S, NEW seq \in Seq(S), Len(seq) \in 1..Len(seq)
    PROVE  /\ Front(seq) \in Seq(S)
           /\ Len(Front(seq)) = Len(seq) - 1
           /\ \A i \in 1..Len(seq) - 1 : Front(seq)[i] = seq[i]
<1> DEFINE n == Len(seq) - 1
<1>1. 1 \in Int /\ n \in Nat /\ \A i \in 1..n : seq[i] \in S
  OBVIOUS
<1>2. Front(seq) = SubSeq(seq, 1, n)
  BY DEF Front
<1> HIDE DEF n
<1>3. n \in Int
  BY <1>1
<1>4. /\ SubSeq(seq, 1, n) \in Seq(S)
      /\ Len(SubSeq(seq, 1, n)) = (IF 1 <= n THEN n - 1 + 1 ELSE 0)
      /\ \A i \in 1..n - 1 + 1 : SubSeq(seq, 1, n)[i] = seq[1 + i - 1]
  BY <1>1, <1>3, SubSeqProperties
<1>5. n - 1 + 1 = n /\ (IF 1 <= n THEN n ELSE 0) = n /\ \A i \in 1..n : 1 + i - 1 = i
  BY <1>1
<1>6. \A i \in 1..n : SubSeq(seq, 1, n)[i] = seq[i]
  BY <1>4, <1>5, Zenon
<1>7. Len(SubSeq(seq, 1, n)) = n
  BY <1>4, <1>5, Zenon
<1> QED BY <1>2, <1>4, <1>6, <1>7, Zenon DEF n

LEMMA EndElementKeeps ==
    ASSUME IInv, EndElement
    PROVE  IInv'
<1> USE DEF IInv, Builder
<1>1. Len(open) \in 1..Len(open) /\ Len(stack) = Len(open)
  BY EmptySeq DEF EndElement, Ends, InRoot, Types, OnStack
<1>2. EndAsserts(Last(open))
  BY <1>1, FlushSucceeds DEF EndAsserts, Types, OnStack, Last
<1>3. /\ doc' = Append(doc, [kind |-> "end"])
      /\ open' = Front(open)
      /\ elems' = Flushed
      /\ data' = <<>> /\ tail' = TRUE
      /\ last' = stack[Len(stack)] /\ stack' = Front(stack)
      /\ phase' = phase
  BY <1>2 DEF EndElement, Ends, Last
<1>4. doc' \in Seq(Token) /\ (RootSeen' => RootSeen)
  BY <1>3, NoNewRoot DEF Types, Token
<1>5. /\ elems' \in Seq(Elements)
      /\ Len(elems') = Len(elems)
      /\ \A e \in 1..Len(elems) : elems'[e].tag = elems[e].tag
      /\ \A i \in 1..Len(stack) : elems'[stack[i]].tail = None
  BY <1>3, FlushedElements
<1>6. /\ open' \in Seq(Name) /\ Len(open') = Len(open) - 1
      /\ \A i \in 1..Len(open) - 1 : open'[i] = open[i]
  BY <1>1, <1>3, FrontElements DEF Types
<1>7. /\ stack' \in Seq(Nat) /\ Len(stack') = Len(stack) - 1
      /\ \A i \in 1..Len(stack) - 1 : stack'[i] = stack[i]
  BY <1>1, <1>3, FrontElements DEF Types
<1>8. last' \in 1..Len(elems)
  BY <1>1, <1>3 DEF OnStack
<1>9. Types'
  BY <1>3, <1>4, <1>5, <1>6, <1>7, <1>8, EmptySeq DEF Types
<1>10. OnStack'
  <2>1. Len(stack') = Len(open')
    BY <1>1, <1>6, <1>7
  <2>2. \A i \in 1..Len(stack') : /\ i \in 1..Len(stack)
                                 /\ stack'[i] = stack[i]
                                 /\ open'[i] = open[i]
    BY <1>1, <1>6, <1>7
  <2>3. \A i \in 1..Len(stack) : /\ stack[i] \in 1..Len(elems')
                                /\ elems'[stack[i]].tag = open[i]
                                /\ elems'[stack[i]].tail = None
    BY <1>5 DEF OnStack
  <2>4. \A i, j \in 1..Len(stack) : stack[i] = stack[j] => i = j
    BY DEF OnStack
  <2>5. \A i \in 1..Len(stack') : /\ stack'[i] \in 1..Len(elems')
                                 /\ elems'[stack'[i]].tag = open'[i]
                                 /\ elems'[stack'[i]].tail = None
    BY <2>2, <2>3, Zenon
  <2>6. \A i, j \in 1..Len(stack') : stack'[i] = stack'[j] => i = j
    BY <2>2, <2>4
  <2> QED BY <2>1, <2>5, <2>6 DEF OnStack
<1>11. Fresh'
  <2>1. elems'[last'].tail = None
    BY <1>1, <1>3, <1>5
  <2>2. \A i \in 1..Len(stack') : stack'[i] # last'
    <3> TAKE i \in 1..Len(stack')
    <3>1. /\ i \in 1..Len(stack) /\ Len(stack) \in 1..Len(stack)
          /\ i # Len(stack) /\ stack'[i] = stack[i]
      BY <1>1, <1>7
    <3>2. stack[i] # stack[Len(stack)]
      BY <3>1 DEF OnStack
    <3> QED BY <1>3, <3>1, <3>2
  <2> QED BY <1>3, <2>1, <2>2 DEF Fresh
<1> QED BY <1>3, <1>8, <1>9, <1>10, <1>11

LEMMA CharacterDataKeeps ==
    ASSUME IInv, NEW text \in Text, CharacterData(text)
    PROVE  IInv'
<1> USE DEF IInv, Builder
<1>1. /\ doc' = Append(doc, [kind |-> "data", text |-> text])
      /\ data' = Append(data, text)
      /\ UNCHANGED <<open, phase, elems, stack, last, tail>>
  BY DEF CharacterData, Reads
<1>2. doc' \in Seq(Token) /\ (RootSeen' => RootSeen)
  BY <1>1, NoNewRoot DEF Types, Token
<1>3. data' \in Seq(Text)
  BY <1>1, AppendProperties DEF Types
<1> QED BY <1>1, <1>2, <1>3 DEF Types, OnStack, Fresh

LEMMA HandleCommentKeeps ==
    ASSUME IInv, NEW text \in CommentText, HandleComment(text)
    PROVE  IInv'
<1> USE DEF IInv, Builder
<1> DEFINE new == Len(elems) + 1
           started == Started(Comment, <<>>)
           commented == [started[new] EXCEPT !.text = text]
<1>1. /\ doc' = Append(doc, [kind |-> "comment", text |-> text])
      /\ elems' = [started EXCEPT ![new].text = text]
      /\ last' = new /\ tail' = TRUE /\ data' = <<>>
      /\ UNCHANGED <<open, stack, phase>>
  BY FlushSucceeds DEF HandleComment, Reads
<1>2. doc' \in Seq(Token) /\ (RootSeen' => RootSeen)
  BY <1>1, NoNewRoot DEF Types, Token
<1>3. /\ started \in Seq(Elements)
      /\ Len(started) = new
      /\ \A i \in 1..Len(stack) : /\ started[stack[i]].tag = elems[stack[i]].tag
                                  /\ started[stack[i]].tail = None
      /\ started[new] = Element(Comment, <<>>)
  <2>1. <<>> \in Attribs /\ Comment \in Name \cup {Comment}
    BY DEF Attribs
  <2> HIDE DEF Builder
  <2>2. started \in Seq(Elements) /\ Len(started) = Len(elems) + 1
    BY <2>1, StartedElements
  <2>3. started[Len(elems) + 1] = Element(Comment, <<>>)
    BY <2>1, StartedElements
  <2>4. \A i \in 1..Len(stack) : /\ started[stack[i]].tag = elems[stack[i]].tag
                                 /\ started[stack[i]].tail = None
    BY <2>1, StartedElements
  <2> HIDE DEF started
  <2> QED BY <2>2, <2>3, <2>4
<1>4. new \in 1..new /\ \A i \in 1..Len(stack) : stack[i] \in 1..new /\ stack[i] # new
  BY DEF Types, OnStack
<1>5. text \in Contents /\ started[new] \in Elements /\ started[new].tail = None
  BY <1>3, <1>4 DEF Contents, Element
<1>6. elems' = [started EXCEPT ![new] = commented]
  BY <1>1
<1> HIDE DEF started
<1>7. commented \in Elements /\ commented.tail = None
  BY <1>5 DEF Elements
<1> HIDE DEF commented
<1>8. /\ elems' \in Seq(Elements)
      /\ Len(elems') = new
      /\ \A e \in 1..new : elems'[e] = IF e = new THEN commented ELSE started[e]
  BY <1>3, <1>4, <1>6, <1>7, ExceptSeq
<1>9. Types'
  BY <1>1, <1>2, <1>4, <1>8, EmptySeq DEF Types
<1>10. OnStack'
  BY <1>1, <1>3, <1>4, <1>8 DEF OnStack
<1>11. Fresh'
  BY <1>1, <1>4, <1>7, <1>8 DEF Fresh
<1> QED BY <1>1, <1>9, <1>10, <1>11 DEF Types

(* What TreeBuilder is not told of.                                        *)
LEMMA SkippedKeeps ==
    ASSUME IInv, ProcessingInstruction \/ Doctype \/ UndefinedEntity
    PROVE  IInv'
<1> USE DEF IInv, Builder
<1>1. PICK token \in [kind : {"pi", "doctype", "entity"}] : doc' = Append(doc, token)
  BY DEF ProcessingInstruction, Doctype, UndefinedEntity, Reads
<1>2. doc' \in Seq(Token) /\ (RootSeen' => RootSeen)
  BY <1>1, NoNewRoot DEF Types, Token
<1>3. UNCHANGED <<open, elems, stack, last, tail, data>> /\ phase' # "assertion"
  BY DEF ProcessingInstruction, Doctype, UndefinedEntity, Fail, builder, Reads
<1> QED BY <1>2, <1>3 DEF Types, OnStack, Fresh

(* close finds the stack empty and an element to return.                   *)
LEMMA EndDocumentKeeps ==
    ASSUME IInv, EndDocument
    PROVE  IInv'
<1>1. CloseAsserts
  BY EmptySeq DEF IInv, Builder, Types, OnStack, EndDocument, InRoot, CloseAsserts
<1>2. UNCHANGED <<doc, open, builder>> /\ phase' = "tree"
  BY <1>1 DEF EndDocument
<1> QED BY <1>2, BuilderUnchanged DEF IInv

LEMMA WriteKeeps ==
    ASSUME IInv, Write
    PROVE  IInv'
<1>1. UNCHANGED <<doc, open, builder>>
  BY DEF Write, WriteBegin, WriteComment, WriteCommentsDone, NextElement, AddName, NamesDone,
         SerializeComment, SerializeStart, SerializeEnd, WriteDone, Writes
<1>2. phase' # "assertion"
  BY DEF Write, WriteBegin, WriteComment, WriteCommentsDone, NextElement, AddName, NamesDone,
         SerializeComment, SerializeStart, SerializeEnd, WriteDone
<1> QED BY <1>1, <1>2, BuilderUnchanged DEF IInv

----------------------------------------------------------------------------
LEMMA BuilderInvariant == Spec => []IInv
<1>1. Init => IInv
  <2> SUFFICES ASSUME Init PROVE IInv
    OBVIOUS
  <2>1. /\ doc = <<>> /\ open = <<>> /\ elems = <<>> /\ stack = <<>> /\ data = <<>>
        /\ last = 0 /\ tail = FALSE /\ phase = "parse"
    BY DEF Init
  <2>2. Len(<<>>) = 0 /\ 1..Len(<<>>) = {}
    BY EmptySeq
  <2>3. Types
    <3>1. \A S : <<>> \in Seq(S)
      BY EmptySeq
    <3>2. /\ doc \in Seq(Token) /\ open \in Seq(Name)
          /\ elems \in Seq(Elements) /\ stack \in Seq(Nat) /\ data \in Seq(Text)
      BY <2>1, <3>1, Zenon
    <3>3. Len(elems) = 0
      BY <2>1, <2>2, Zenon
    <3>4. last \in Nat /\ last <= Len(elems)
      BY <2>1, <3>3
    <3>5. tail \in BOOLEAN
      BY <2>1
    <3> QED BY <3>2, <3>4, <3>5 DEF Types
  <2>4. OnStack
    BY <2>1, <2>2 DEF OnStack
  <2>5. Fresh
    BY <2>1 DEF Fresh
  <2>6. ~RootSeen
    BY <2>1 DEF RootSeen
  <2> QED BY <2>1, <2>3, <2>4, <2>5, <2>6 DEF IInv, Builder
<1>2. IInv /\ [Next]_vars => IInv'
  <2> SUFFICES ASSUME IInv, [Next]_vars PROVE IInv'
    OBVIOUS
  <2>1. ASSUME NEW tag \in StartTag, StartElement(tag[1], tag[2]) PROVE IInv'
    BY <2>1, StartElementKeeps
  <2>2. CASE EndElement
    BY <2>2, EndElementKeeps
  <2>3. ASSUME NEW text \in Text, CharacterData(text) PROVE IInv'
    BY <2>3, CharacterDataKeeps
  <2>4. ASSUME NEW text \in CommentText, HandleComment(text) PROVE IInv'
    BY <2>4, HandleCommentKeeps
  <2>5. CASE ProcessingInstruction \/ Doctype \/ UndefinedEntity
    BY <2>5, SkippedKeeps
  <2>6. CASE RaiseError
    BY <2>6, BuilderUnchanged DEF RaiseError, Fail, IInv
  <2>7. CASE EndDocument
    BY <2>7, EndDocumentKeeps
  <2>8. CASE Write
    BY <2>8, WriteKeeps
  <2>9. CASE Stopped \/ UNCHANGED vars
    BY <2>9, BuilderUnchanged DEF Stopped, vars, IInv, builder
  <2> QED BY <2>1, <2>2, <2>3, <2>4, <2>5, <2>6, <2>7, <2>8, <2>9
           DEF Next, Parse, Callback
<1> QED BY <1>1, <1>2, PTL DEF Spec

(* The assertions of TreeBuilder and of its close hold for every document  *)
(* that expat hands on, of any length.                                     *)
THEOREM NoAssertionEverFails == Spec => []NoAssertionFails
<1>1. IInv => NoAssertionFails
  BY DEF IInv, NoAssertionFails
<1> QED BY <1>1, BuilderInvariant, PTL

----------------------------------------------------------------------------
(* The prefixes of _namespaces: a well-known namespace has its own prefix, *)
(* any other one a number below that of the namespaces recorded so far.    *)
PrefixInv ==
    /\ IsFiniteSet(DOMAIN prefixes)
    /\ \A u \in DOMAIN prefixes :
         IF u \in DOMAIN WellKnown THEN prefixes[u] = WellKnown[u]
         ELSE \E n \in Nat : n < Cardinality(DOMAIN prefixes) /\ prefixes[u] = Numbered(n)

(* Such prefixes differ from each other.                                   *)
LEMMA NoneNumberedYet ==
    ASSUME PrefixInv, NEW u \in DOMAIN prefixes
    PROVE  prefixes[u] # Numbered(Cardinality(DOMAIN prefixes))
<1>1. CASE u \in DOMAIN WellKnown
  <2>1. Len(prefixes[u]) = 1
    BY <1>1, XmlTreeAssumption DEF PrefixInv
  <2>2. Len(Numbered(Cardinality(DOMAIN prefixes))) = 2
    BY DEF Numbered
  <2> QED BY <2>1, <2>2
<1>2. CASE u \notin DOMAIN WellKnown
  <2>1. PICK n \in Nat : n < Cardinality(DOMAIN prefixes) /\ prefixes[u] = Numbered(n)
    BY <1>2 DEF PrefixInv
  <2>2. n # Cardinality(DOMAIN prefixes)
    BY <2>1
  <2> QED BY <2>1, <2>2 DEF Numbered
<1> QED BY <1>1, <1>2

LEMMA AddNameKeeps ==
    ASSUME PrefixInv, PrefixesUnique, AddName
    PROVE  PrefixInv' /\ PrefixesUnique'
<1> DEFINE known == DOMAIN prefixes
           uri == Head(names)[1]
           prefix == IF uri \in DOMAIN WellKnown THEN WellKnown[uri] ELSE Numbered(Cardinality(known))
<1>1. CASE uri \in {NoUri, XmlUri} \cup known
  <2>1. prefixes' = prefixes
    BY <1>1 DEF AddName, add_qname
  <2> QED BY <2>1 DEF PrefixInv, PrefixesUnique
<1>2. CASE uri \notin {NoUri, XmlUri} \cup known
  <2>1. prefixes' = Prefixed(prefixes, uri, prefix)
    BY <1>2 DEF AddName, add_qname
  <2> HIDE DEF uri, prefix
  <2>2. /\ DOMAIN prefixes' = known \cup {uri}
        /\ prefixes'[uri] = prefix
        /\ \A u \in known : prefixes'[u] = prefixes[u]
    BY <1>2, <2>1 DEF Prefixed
  <2>3. /\ IsFiniteSet(known) /\ Cardinality(known) \in Nat
        /\ IsFiniteSet(known \cup {uri})
        /\ Cardinality(known \cup {uri}) = Cardinality(known) + 1
    BY <1>2, FS_AddElement, FS_CardinalityType DEF PrefixInv
  <2>4. ASSUME NEW u \in known \cup {uri}
        PROVE  IF u \in DOMAIN WellKnown THEN prefixes'[u] = WellKnown[u]
               ELSE \E n \in Nat : n < Cardinality(known) + 1 /\ prefixes'[u] = Numbered(n)
    <3>1. CASE u = uri
      BY <2>2, <2>3, <3>1 DEF prefix
    <3>2. CASE u \in known /\ u \in DOMAIN WellKnown
      BY <2>2, <3>2 DEF PrefixInv
    <3>3. CASE u \in known /\ u \notin DOMAIN WellKnown
      <4>1. PICK n \in Nat : n < Cardinality(known) /\ prefixes[u] = Numbered(n)
        BY <3>3 DEF PrefixInv
      <4>2. n < Cardinality(known) + 1
        BY <2>3, <4>1
      <4> QED BY <2>2, <3>3, <4>1, <4>2
    <3> QED BY <2>4, <3>1, <3>2, <3>3
  <2>5. PrefixInv'
    BY <2>2, <2>3, <2>4 DEF PrefixInv
  <2>6. ASSUME NEW u \in known PROVE prefixes[u] # prefix
    <3>1. CASE uri \in DOMAIN WellKnown /\ u \in DOMAIN WellKnown
      <4>1. WellKnown[u] # WellKnown[uri]
        BY <1>2, <2>6, <3>1, XmlTreeAssumption
      <4> QED BY <2>6, <3>1, <4>1 DEF PrefixInv, prefix
    <3>2. CASE uri \in DOMAIN WellKnown /\ u \notin DOMAIN WellKnown
      <4>1. PICK n \in Nat : prefixes[u] = Numbered(n)
        BY <2>6, <3>2 DEF PrefixInv
      <4>2. Len(Numbered(n)) = 2 /\ Len(prefix) = 1
        BY <3>2, XmlTreeAssumption DEF Numbered, prefix
      <4> QED BY <4>1, <4>2
    <3>3. CASE uri \notin DOMAIN WellKnown
      BY <2>6, <3>3, NoneNumberedYet DEF prefix
    <3> QED BY <3>1, <3>2, <3>3
  <2>7. PrefixesUnique'
    BY <2>2, <2>6 DEF PrefixesUnique
  <2> QED BY <2>5, <2>7
<1> QED BY <1>1, <1>2

(* Two namespaces never get one prefix, however many names there are and   *)
(* in whatever order they are met.                                         *)
THEOREM PrefixesAlwaysUnique == Spec => []PrefixesUnique
<1> DEFINE Inv == PrefixInv /\ PrefixesUnique
<1>1. prefixes = <<>> => Inv
  <2>1. DOMAIN <<>> = {}
    BY EmptySeq
  <2> QED BY <2>1, FS_EmptySet DEF PrefixInv, PrefixesUnique
<1>2. (prefixes = <<>> => Inv)'
  <2>1. DOMAIN <<>> = {}
    BY EmptySeq
  <2> QED BY <2>1, FS_EmptySet DEF PrefixInv, PrefixesUnique
<1>3. Inv /\ [Next]_vars => Inv'
  <2> SUFFICES ASSUME Inv, [Next]_vars PROVE Inv'
    OBVIOUS
  <2>1. \/ prefixes' = prefixes \/ prefixes' = <<>>
        \/ AddName
    BY DEF Next, Parse, Callback, StartElement, EndElement, CharacterData, HandleComment,
           ProcessingInstruction, Doctype, UndefinedEntity, RaiseError, EndDocument, Write,
           WriteBegin, WriteComment, WriteCommentsDone, NextElement, NamesDone,
           SerializeComment, SerializeStart, SerializeEnd, WriteDone, Stopped, vars, writer,
           Fail, Ends, Reads
  <2>2. CASE prefixes' = prefixes
    BY <2>2 DEF PrefixInv, PrefixesUnique
  <2> QED BY <1>2, <2>1, <2>2, AddNameKeeps
<1>4. Init => Inv
  BY <1>1 DEF Init
<1> QED BY <1>3, <1>4, PTL DEF Spec
----------------------------------------------------------------------------
(* Induction, and functions that are defined by recursion on a rank: a     *)
(* step that computes each value from those of a lower rank has a fixed    *)
(* point.                                                                  *)
LEMMA Induction ==
    ASSUME NEW P, 0 \in P, \A n \in Nat : n \in P => n + 1 \in P
    PROVE  Nat \subseteq P
<1> DEFINE B == {n \in Nat : n \notin P}
           R == OpToRel(<, Nat)
<1> SUFFICES ASSUME B # {} PROVE FALSE
  OBVIOUS
<1>1. IsWellFoundedOn(R, Nat)
  BY NatLessThanWellFounded
<1>2. \A i, j \in Nat : j < i => <<j, i>> \in R
  BY DEF OpToRel
<1> HIDE DEF R
<1>3. PICK n \in B : \A m \in B : <<m, n>> \notin R
  BY <1>1, WFMin
<1>4. n # 0 /\ n - 1 \in Nat
  BY <1>3
<1>5. <<n - 1, n>> \in R
  <2>1. n \in Nat /\ n - 1 < n
    BY <1>3, <1>4
  <2> QED BY <1>2, <1>4, <2>1
<1>6. n - 1 \notin B
  BY <1>3, <1>5
<1>7. n - 1 \in P /\ n - 1 + 1 = n
  BY <1>4, <1>6
<1> QED BY <1>3, <1>4, <1>7

Causal(step, rank, D, A) ==
    /\ step \in [[D -> A] -> [D -> A]]
    /\ \A f, g \in [D -> A] : \A d \in D :
         (\A e \in D : rank[e] < rank[d] => f[e] = g[e]) => step[f][d] = step[g][d]

LEMMA RecursionExists ==
    ASSUME NEW D, NEW A, NEW a \in A, NEW N \in Nat, NEW rank \in [D -> 0..N],
           NEW step, Causal(step, rank, D, A)
    PROVE  \E f \in [D -> A] : f = step[f]
<1> USE DEF Causal
<1> DEFINE P == {n \in Nat : \E f \in [D -> A] : \A d \in D : rank[d] < n => step[f][d] = f[d]}
<1>1. 0 \in P
  <2> DEFINE f == [d \in D |-> a]
  <2>1. f \in [D -> A]
    OBVIOUS
  <2>2. \A d \in D : ~(rank[d] < 0)
    OBVIOUS
  <2> HIDE DEF f
  <2>3. \A d \in D : rank[d] < 0 => step[f][d] = f[d]
    BY <2>2
  <2> QED BY <2>1, <2>3
<1>2. ASSUME NEW n \in Nat, n \in P PROVE n + 1 \in P
  <2>1. PICK f \in [D -> A] : \A d \in D : rank[d] < n => step[f][d] = f[d]
    BY <1>2
  <2>2. step[f] \in [D -> A]
    OBVIOUS
  <2>3. ASSUME NEW d \in D, rank[d] < n + 1 PROVE step[step[f]][d] = step[f][d]
    <3>1. \A e \in D : rank[e] < rank[d] => step[f][e] = f[e]
      BY <2>1, <2>3
    <3> QED BY <2>2, <3>1
  <2> QED BY <2>2, <2>3
<1>3. N + 1 \in P
  <2> HIDE DEF P
  <2> QED BY <1>1, <1>2, Induction
<1>4. PICK f \in [D -> A] : \A d \in D : rank[d] < N + 1 => step[f][d] = f[d]
  BY <1>3
<1>5. \A d \in D : step[f][d] = f[d]
  BY <1>4
<1> QED BY <1>4, <1>5

(* Outside takes elements of the list that are not inside, and no others.  *)
LEMMA OutsideListed ==
    ASSUME NEW S, listed \in Seq(S), NEW inside
    PROVE  Outside(inside) \in Seq(Range(listed) \ inside)
<1> DEFINE n == Len(listed)
           D == 0..n
           A == Seq(Range(listed) \ inside)
           part(i) == IF listed[i] \in inside THEN <<>> ELSE <<listed[i]>>
           step == [f \in [D -> A] |-> [i \in D |-> IF i = 0 THEN <<>> ELSE f[i - 1] \o part(i)]]
           upto == CHOOSE u : u = [i \in D |-> IF i = 0 THEN <<>> ELSE u[i - 1] \o part(i)]
<1>1. n \in Nat /\ \A i \in 1..n : listed[i] \in Range(listed)
  BY RangeEquality
<1>2. <<>> \in A
  BY EmptySeq
<1>3. \A i \in 1..n : part(i) \in A
  <2>1. \A x \in Range(listed) \ inside : <<x>> \in A
    OBVIOUS
  <2> HIDE DEF A
  <2> QED BY <1>1, <1>2, <2>1, Zenon
<1> HIDE DEF part, A
<1>4. ASSUME NEW s \in A, NEW i \in 1..n PROVE s \o part(i) \in A
  BY <1>3, ConcatProperties DEF A
<1>5. \A f \in [D -> A] : \A i \in D :
        (IF i = 0 THEN <<>> ELSE f[i - 1] \o part(i)) \in A
  BY <1>1, <1>2, <1>4
<1>6. step \in [[D -> A] -> [D -> A]]
  BY <1>5
<1>7. \E u \in [D -> A] : u = step[u]
  <2> DEFINE rank == [i \in D |-> i]
  <2>1. rank \in [D -> 0..n]
    BY <1>1
  <2>2. \A f, g \in [D -> A] : \A d \in D :
          (\A e \in D : rank[e] < rank[d] => f[e] = g[e]) => step[f][d] = step[g][d]
    BY <1>1
  <2>3. n \in Nat
    BY <1>1
  <2> HIDE DEF n, D, step, rank
  <2>4. Causal(step, rank, D, A)
    BY <1>6, <2>2 DEF Causal
  <2> QED BY <1>2, <2>1, <2>3, <2>4, RecursionExists
<1>8. upto = [i \in D |-> IF i = 0 THEN <<>> ELSE upto[i - 1] \o part(i)]
  BY <1>7
<1>9. Outside(inside) = upto[n]
  BY DEF Outside, part
<1> HIDE DEF upto
<1> DEFINE P == {i \in Nat : i <= n => upto[i] \in A}
<1>10. 0 \in P
  BY <1>1, <1>2, <1>8
<1>11. ASSUME NEW i \in Nat, i \in P PROVE i + 1 \in P
  <2> SUFFICES ASSUME i + 1 <= n PROVE upto[i + 1] \in A
    OBVIOUS
  <2> HIDE DEF P
  <2>1. i + 1 \in 1..n /\ i + 1 \in D /\ i + 1 # 0 /\ i + 1 - 1 = i /\ i <= n
    BY <1>1
  <2>2. \A j \in D : upto[j] = IF j = 0 THEN <<>> ELSE upto[j - 1] \o part(j)
    BY <1>8
  <2> DEFINE j == i + 1
  <2>5. j \in D /\ j # 0 /\ j - 1 = i
    BY <2>1
  <2> HIDE DEF D, j
  <2>6. upto[j] = upto[j - 1] \o part(j)
    BY <2>2, <2>5
  <2>4. upto[i + 1] = upto[i] \o part(i + 1)
    BY <2>5, <2>6 DEF j
  <2>3. upto[i] \in A
    BY <1>11, <2>1 DEF P
  <2> QED BY <1>4, <2>1, <2>4, <2>3
<1>12. n \in P
  <2> HIDE DEF P
  <2> QED BY <1>1, <1>10, <1>11, Induction
<1> QED BY <1>1, <1>9, <1>12 DEF A

----------------------------------------------------------------------------
(* Type correctness.  Children are created after their parent and the      *)
(* elements that have ended are listed; what is read is not written yet,   *)
(* and _namespaces is handed elements of the tree and names.               *)
Nodes ==
    /\ \A e \in 1..Len(elems) : elems[e].kids \in Seq(e + 1 .. Len(elems))
    /\ listed \in Seq(1..Len(elems))

Writing ==
    /\ phase \in Phases
    /\ root \in 0..Len(elems)
    /\ phase = "parse" => root = 0 /\ prior = <<>>
    /\ phase \in {"tree", "prolog", "names"} => root # 0
    /\ prior \in Seq(Range(listed))
    /\ names \in Seq(Name)
    /\ phase = "names" => work \in Seq(1..Len(elems))
    /\ DOMAIN prefixes \subseteq Uri

TInv == IInv /\ Nodes /\ Writing

(* Children and listed elements stay such when elements are added.         *)
LEMMA NodesGrow ==
    ASSUME Builder, Nodes, NEW new, new = Len(elems) + 1,
           elems' \in Seq(Elements), Len(elems') = new,
           \A e \in 1..Len(elems) : elems'[e].kids \in {elems[e].kids, Append(elems[e].kids, new)},
           elems'[new].kids = <<>>,
           listed' \in {listed, Append(listed, new)}
    PROVE  Nodes'
<1>1. Len(elems) \in Nat
  BY DEF Builder, Types
<1>2. ASSUME NEW e \in 1..new PROVE elems'[e].kids \in Seq(e + 1 .. new)
  <2>1. CASE e = new
    BY <2>1, EmptySeq
  <2>2. CASE e \in 1..Len(elems)
    <3>1. elems[e].kids \in Seq(e + 1 .. Len(elems))
      BY <2>2 DEF Nodes
    <3>2. e + 1 .. Len(elems) \subseteq e + 1 .. new /\ new \in e + 1 .. new
      BY <1>1, <2>2
    <3>3. elems[e].kids \in Seq(e + 1 .. new)
      BY <3>1, <3>2, SeqMonotonic
    <3>4. Append(elems[e].kids, new) \in Seq(e + 1 .. new)
      BY <3>2, <3>3, AppendProperties
    <3> QED BY <2>2, <3>3, <3>4
  <2> QED BY <1>1, <2>1, <2>2
<1>3. listed' \in Seq(1..new)
  <2>1. 1..Len(elems) \subseteq 1..new /\ new \in 1..new
    BY <1>1
  <2>2. listed \in Seq(1..Len(elems))
    BY DEF Nodes
  <2>3. listed \in Seq(1..new)
    BY <2>1, <2>2, SeqMonotonic
  <2>4. Append(listed, new) \in Seq(1..new)
    BY <2>1, <2>3, AppendProperties
  <2> QED BY <2>3, <2>4
<1> QED BY <1>2, <1>3 DEF Nodes

(* What a callback does to the two lists of elements.                      *)
LEMMA CallbackNodes ==
    ASSUME TInv, Callback
    PROVE  Nodes'
<1> USE DEF TInv, IInv, Builder
<1>1. ASSUME NEW tag \in StartTag, StartElement(tag[1], tag[2])
      PROVE  Nodes'
  <2> DEFINE new == Len(elems) + 1
  <2>1. tag[1] \in Name /\ tag[2] \in Attribs
    BY XmlTreeAssumption DEF Attribs
  <2>2. elems' = Started(tag[1], tag[2]) /\ listed' = listed
    BY <1>1, FlushSucceeds DEF StartElement
  <2>3. /\ elems' \in Seq(Elements) /\ Len(elems') = new
        /\ \A e \in 1..Len(elems) :
             elems'[e].kids \in {elems[e].kids, Append(elems[e].kids, new)}
        /\ elems'[new] = Element(tag[1], tag[2])
    BY <2>1, <2>2, StartedElements
  <2>4. elems'[new].kids = <<>>
    BY <2>3 DEF Element
  <2> QED BY <2>2, <2>3, <2>4, NodesGrow
<1>2. ASSUME NEW text \in CommentText, HandleComment(text)
      PROVE  Nodes'
  <2> DEFINE new == Len(elems) + 1
             started == Started(Comment, <<>>)
             commented == [started[new] EXCEPT !.text = text]
  <2>1. elems' = [started EXCEPT ![new].text = text] /\ listed' = Append(listed, new)
    BY <1>2, FlushSucceeds DEF HandleComment
  <2>2. /\ started \in Seq(Elements) /\ Len(started) = new
        /\ \A e \in 1..Len(elems) :
             started[e].kids \in {elems[e].kids, Append(elems[e].kids, new)}
        /\ started[new] = Element(Comment, <<>>)
    BY StartedElements DEF Attribs
  <2>3. elems' = [started EXCEPT ![new] = commented]
    BY <2>1
  <2>4. Len(elems) \in Nat
    BY DEF Types
  <2> HIDE DEF started
  <2>5. started[new] \in Elements /\ text \in Contents
    BY <2>2, <2>4 DEF Contents
  <2>6. commented \in Elements /\ commented.kids = started[new].kids
    BY <2>5 DEF Elements
  <2> HIDE DEF commented
  <2>7. new \in 1..Len(started) /\ \A e \in 1..Len(elems) : e \in 1..Len(started) /\ e # new
    BY <2>2, <2>4
  <2>8. /\ elems' \in Seq(Elements) /\ Len(elems') = new
        /\ \A e \in 1..Len(started) : elems'[e] = IF e = new THEN commented ELSE started[e]
    BY <2>2, <2>3, <2>6, <2>7, ExceptSeq
  <2>9. elems'[new].kids = <<>>
    BY <2>2, <2>6, <2>7, <2>8 DEF Element
  <2>10. \A e \in 1..Len(elems) : elems'[e].kids \in {elems[e].kids, Append(elems[e].kids, new)}
    BY <2>2, <2>7, <2>8
  <2> QED BY <2>1, <2>8, <2>9, <2>10, NodesGrow
<1>3. CASE EndElement
  <2>1. Len(open) \in 1..Len(open) /\ Len(stack) = Len(open)
    BY <1>3, EmptySeq DEF EndElement, Ends, InRoot, Types, OnStack
  <2>2. EndAsserts(Last(open))
    BY <2>1, FlushSucceeds DEF EndAsserts, Types, OnStack, Last
  <2>3. elems' = Flushed /\ listed' = Append(listed, stack[Len(stack)])
    BY <1>3, <2>2 DEF EndElement, Last
  <2>4. /\ Len(elems') = Len(elems)
        /\ \A e \in 1..Len(elems) : elems'[e].kids = elems[e].kids
    BY <2>3, FlushedElements
  <2>5. stack[Len(stack)] \in 1..Len(elems)
    BY <2>1 DEF OnStack
  <2>6. listed' \in Seq(1..Len(elems))
    BY <2>3, <2>5, AppendProperties DEF Nodes
  <2> QED BY <2>4, <2>6 DEF Nodes
<1>4. CASE \/ \E text \in Text : CharacterData(text)
           \/ ProcessingInstruction \/ Doctype \/ UndefinedEntity
  <2>1. UNCHANGED <<elems, listed>>
    BY <1>4 DEF CharacterData, ProcessingInstruction, Doctype, UndefinedEntity, Fail, builder
  <2> QED BY <2>1 DEF Nodes
<1> QED BY <1>1, <1>2, <1>3, <1>4 DEF Callback

(* Steps that leave the tree alone.                                        *)
LEMMA SameNodes == Nodes /\ UNCHANGED <<elems, listed>> => Nodes'
BY DEF Nodes

(* Nothing is written before the end of the document.                      *)
LEMMA ParseWriting ==
    ASSUME TInv, IInv', Parse
    PROVE  Nodes' /\ Writing'
<1> USE DEF TInv
<1>1. CASE Callback
  <2>1. Nodes'
    BY <1>1, CallbackNodes
  <2>2. /\ phase = "parse" /\ phase' \in {"parse", "parse error", "assertion"}
        /\ UNCHANGED <<root, prior, names, work, prefixes>>
    BY <1>1 DEF Callback, StartElement, EndElement, CharacterData, HandleComment,
                ProcessingInstruction, Doctype, UndefinedEntity, Fail, Reads, Ends, writer
  <2>3. root' \in 0..Len(elems')
    <3>1. elems' \in Seq(Elements)
      BY DEF IInv, Builder, Types
    <3>2. Len(elems') \in Nat
      BY <3>1, LenProperties
    <3>3. root = 0 /\ root' = root
      BY <2>2 DEF Writing
    <3> QED BY <3>2, <3>3
  <2>4. prior' \in Seq(Range(listed'))
    BY <2>2, EmptySeq DEF Writing
  <2> QED BY <2>1, <2>2, <2>3, <2>4 DEF Writing, Phases
<1>2. CASE RaiseError
  <2>1. phase' = "parse error" /\ UNCHANGED <<elems, listed, root, prior, names, work, prefixes>>
    BY <1>2 DEF RaiseError, Fail, builder, writer
  <2> QED BY <2>1, SameNodes DEF Writing, Phases
<1>3. CASE EndDocument
  <2>1. CloseAsserts
    BY <1>3, EmptySeq DEF IInv, Builder, Types, OnStack, EndDocument, InRoot, CloseAsserts
  <2>2. /\ phase' = "tree" /\ root' = last
        /\ UNCHANGED <<elems, listed, names, work, prefixes>>
    BY <1>3, <2>1 DEF EndDocument, builder
  <2>3. PICK below : prior' = Outside(below)
    BY <1>3, <2>1 DEF EndDocument
  <2>4. prior' \in Seq(Range(listed'))
    <3>1. prior' \in Seq(Range(listed) \ below)
      BY <2>3, OutsideListed DEF Nodes
    <3>2. prior' \in Seq(Range(listed))
      BY <3>1, SeqMonotonic
    <3> QED BY <2>2, <3>2
  <2>5. root' \in 0..Len(elems') /\ root' # 0
    BY <2>1, <2>2 DEF CloseAsserts, IInv, Builder, Types
  <2>6. Nodes'
    BY <2>2, SameNodes
  <2> QED BY <2>2, <2>4, <2>5, <2>6 DEF Writing, Phases
<1> QED BY <1>1, <1>2, <1>3 DEF Parse

(* An element's name and those of its attributes, in whatever order.       *)
LEMMA NextElementKeeps ==
    ASSUME TInv, NextElement
    PROVE  names' \in Seq(Name) /\ work' \in Seq(1..Len(elems))
<1> USE DEF TInv
<1> DEFINE h == Head(work)
           e == elems[h]
<1>1. /\ work \in Seq(1..Len(elems)) /\ work # <<>>
      /\ elems \in Seq(Elements) /\ Len(elems) \in Nat
  BY DEF NextElement, Writing, IInv, Builder, Types
<1>2. h \in 1..Len(elems) /\ Tail(work) \in Seq(1..Len(elems))
  BY <1>1, HeadTailProperties
<1>3. e \in Elements
  BY <1>1, <1>2
<1>4. e.kids \in Seq(h + 1 .. Len(elems))
  BY <1>2 DEF Nodes
<1>5. /\ work' = e.kids \o Tail(work)
      /\ \/ e.tag = Comment /\ names' = names
         \/ e.tag # Comment /\ \E keys \in SetToSeqs(DOMAIN e.attrib) : names' = <<e.tag>> \o keys
  BY DEF NextElement
<1> HIDE DEF e, h
<1>6. work' \in Seq(1..Len(elems))
  <2>1. h + 1 .. Len(elems) \subseteq 1..Len(elems)
    BY <1>2
  <2>2. e.kids \in Seq(1..Len(elems))
    BY <1>4, <2>1, SeqMonotonic
  <2> QED BY <1>2, <1>5, <2>2, ConcatProperties
<1>7. CASE e.tag = Comment
  BY <1>5, <1>6, <1>7 DEF Writing
<1>8. CASE e.tag # Comment
  <2> DEFINE D == DOMAIN e.attrib
  <2>1. PICK keys \in SetToSeqs(D) : names' = <<e.tag>> \o keys
    BY <1>5, <1>8
  <2>2. D \subseteq Name /\ IsFiniteSet(D)
    <3>1. e.attrib \in Attribs
      BY <1>3 DEF Elements
    <3>2. CASE \E tag \in StartTag : e.attrib = tag[2]
      BY <3>2, XmlTreeAssumption
    <3>3. CASE e.attrib = <<>>
      <4>1. D = {}
        BY <3>3
      <4> QED BY <4>1, FS_EmptySet
    <3> QED BY <3>1, <3>2, <3>3 DEF Attribs
  <2> HIDE DEF D
  <2>3. Cardinality(D) \in Nat
    BY <2>2, FS_CardinalityType
  <2>4. keys \in [1..Cardinality(D) -> D]
    BY <2>1 DEF SetToSeqs
  <2>5. keys \in Seq(Name)
    BY <2>2, <2>3, <2>4
  <2>6. <<e.tag>> \in Seq(Name)
    BY <1>3, <1>8 DEF Elements
  <2> QED BY <1>6, <2>1, <2>5, <2>6, ConcatProperties
<1> QED BY <1>7, <1>8

LEMMA WriteWriting ==
    ASSUME TInv, Write
    PROVE  Nodes' /\ Writing'
<1> USE DEF TInv
<1>1. UNCHANGED <<elems, listed, root, prior>>
  BY DEF Write, WriteBegin, WriteComment, WriteCommentsDone, NextElement, AddName, NamesDone,
         SerializeComment, SerializeStart, SerializeEnd, WriteDone, Writes, builder
<1>2. Nodes'
  BY <1>1, SameNodes
<1>3. CASE WriteBegin \/ WriteComment
  <2>1. /\ phase \in {"tree", "prolog"} /\ phase' \in {"prolog", "type error"}
        /\ UNCHANGED <<names, prefixes>>
    BY <1>3 DEF WriteBegin, WriteComment
  <2> QED BY <1>1, <1>2, <2>1 DEF Writing, Phases
<1>4. CASE WriteCommentsDone
  <2>1. /\ phase = "prolog" /\ phase' = "names"
        /\ work' = <<root>> /\ prefixes' = <<>> /\ names' = names
    BY <1>4 DEF WriteCommentsDone
  <2>2. root \in 1..Len(elems)
    BY <2>1 DEF Writing, IInv, Builder, Types
  <2>3. work' \in Seq(1..Len(elems'))
    BY <1>1, <2>1, <2>2
  <2>4. DOMAIN prefixes' \subseteq Uri
    BY <2>1
  <2> QED BY <1>1, <1>2, <2>1, <2>3, <2>4 DEF Writing, Phases
<1>5. CASE NextElement
  <2>1. phase = "names" /\ phase' = "names" /\ prefixes' = prefixes
    BY <1>5 DEF NextElement
  <2> QED BY <1>1, <1>2, <1>5, <2>1, NextElementKeeps DEF Writing
<1>6. CASE AddName
  <2>1. /\ phase' = phase /\ work' = work
        /\ names # <<>> /\ names' = Tail(names)
        /\ prefixes' = add_qname(prefixes, Head(names))
    BY <1>6 DEF AddName
  <2>2. Head(names) \in Name /\ names' \in Seq(Name)
    BY <2>1, HeadTailProperties DEF Writing
  <2>3. DOMAIN prefixes' \subseteq Uri
    BY <2>1, <2>2 DEF add_qname, Prefixed, Uri, Writing
  <2> QED BY <1>1, <1>2, <2>1, <2>2, <2>3 DEF Writing
<1>7. CASE NamesDone \/ SerializeComment \/ SerializeStart \/ SerializeEnd \/ WriteDone
  <2>1. phase' \in {"serialize", "done"} /\ UNCHANGED <<names, prefixes>>
    BY <1>7 DEF NamesDone, SerializeComment, SerializeStart, SerializeEnd, WriteDone
  <2> QED BY <1>1, <1>2, <2>1 DEF Writing, Phases
<1> QED BY <1>3, <1>4, <1>5, <1>6, <1>7 DEF Write

(* What write reads is written after the elements are built.               *)
LEMMA TreeInvariant == Spec => [](IInv /\ Nodes /\ Writing)
<1>1. Init => Nodes /\ Writing
  <2> SUFFICES ASSUME Init PROVE Nodes /\ Writing
    OBVIOUS
  <2>1. /\ elems = <<>> /\ listed = <<>> /\ root = 0 /\ prior = <<>> /\ phase = "parse"
        /\ names = <<>> /\ prefixes = <<>>
    BY DEF Init
  <2>2. Len(elems) = 0 /\ \A S : <<>> \in Seq(S)
    BY <2>1, EmptySeq
  <2>3. Nodes
    BY <2>1, <2>2 DEF Nodes
  <2>4. DOMAIN prefixes \subseteq Uri
    BY <2>1
  <2> QED BY <2>1, <2>2, <2>3, <2>4 DEF Writing, Phases
<1>2. TInv /\ IInv' /\ [Next]_vars => (Nodes /\ Writing)'
  <2> SUFFICES ASSUME TInv, IInv', [Next]_vars PROVE Nodes' /\ Writing'
    OBVIOUS
  <2>1. CASE Parse
    BY <2>1, ParseWriting
  <2>2. CASE Write
    BY <2>2, WriteWriting
  <2>3. CASE Stopped \/ UNCHANGED vars
    BY <2>3 DEF TInv, Nodes, Writing, Stopped, vars
  <2> QED BY <2>1, <2>2, <2>3 DEF Next
<1>3. (Nodes /\ Writing) /\ IInv /\ IInv' /\ [Next]_vars => (Nodes /\ Writing)'
  BY <1>2 DEF TInv
<1> QED BY <1>1, <1>3, BuilderInvariant, PTL DEF Spec

(* The tree, the builder's stack and the tables of the writer keep their   *)
(* types: for all names, tags and texts and documents of any length.       *)
THEOREM TypeCorrect == Spec => []TypeOK
<1>1. IInv /\ Nodes /\ Writing => TypeOK
  <2> SUFFICES ASSUME TInv PROVE TypeOK
    BY DEF TInv
  <2> USE DEF TInv, IInv, Builder
  <2>1. /\ elems \in Seq(Elements) /\ DOMAIN elems = 1..Len(elems) /\ Len(elems) \in Nat
        /\ DOMAIN stack = 1..Len(stack)
    BY DEF Types
  <2>2. ASSUME NEW e \in DOMAIN elems
        PROVE  /\ elems[e].tag \in Name \cup {Comment}
               /\ DOMAIN elems[e].attrib \subseteq Name
               /\ Range(elems[e].kids) \subseteq e + 1 .. Len(elems)
    <3>1. elems[e] \in Elements
      BY <2>1
    <3>2. elems[e].tag \in Name \cup {Comment} /\ elems[e].attrib \in Attribs
      BY <3>1 DEF Elements
    <3>3. DOMAIN elems[e].attrib \subseteq Name
      <4>1. CASE \E tag \in StartTag : elems[e].attrib = tag[2]
        BY <4>1, XmlTreeAssumption
      <4>2. CASE elems[e].attrib = <<>>
        BY <4>2
      <4> QED BY <3>2, <4>1, <4>2 DEF Attribs
    <3>4. elems[e].kids \in Seq(e + 1 .. Len(elems))
      BY <2>1 DEF Nodes
    <3>5. Range(elems[e].kids) \subseteq e + 1 .. Len(elems)
      BY <3>4, RangeOfSeq
    <3> QED BY <3>2, <3>3, <3>5
  <2>3. last \in 0..Len(elems) /\ root \in 0..Len(elems)
    BY <2>1 DEF Types, Writing
  <2>4. /\ Len(stack) = Len(open)
        /\ \A i \in DOMAIN stack : stack[i] \in DOMAIN elems /\ elems[stack[i]].tag = open[i]
    BY <2>1 DEF OnStack
  <2>5. Range(listed) \subseteq DOMAIN elems
    BY <2>1, RangeOfSeq DEF Nodes
  <2>6. Range(prior) \subseteq Range(listed)
    BY RangeOfSeq DEF Writing
  <2> QED BY <2>2, <2>3, <2>4, <2>5, <2>6 DEF TypeOK, Writing
<1> QED BY <1>1, TreeInvariant, PTL

----------------------------------------------------------------------------
(* What stops write.  Comments have a text, all other elements are below   *)
(* the first of them, and that one is the last element again when the      *)
(* document has ended, unless a comment follows it.                        *)
Worded == \A e \in 1..Len(elems) : elems[e].tag = Comment => elems[e].text # None

Parented(r) ==
    \A e \in 1..Len(elems) : elems[e].tag # Comment /\ e # r =>
        \E p \in 1..Len(elems) : elems[p].tag # Comment /\ e \in Range(elems[p].kids)

RootIs(r) ==
    /\ Parented(r)
    /\ ~RootSeen => \A e \in 1..Len(elems) : elems[e].tag = Comment
    /\ stack # <<>> => stack[1] = r
    /\ open = <<>> /\ RootSeen /\ ~TrailingComment => last = r

(* What was kept aside, then.                                              *)
CommentsAside ==
    /\ phase \in {"tree", "prolog"} /\ ~TrailingComment =>
         \A e \in Range(prior) : elems[e].tag = Comment
    /\ phase = "prolog" => work \in Seq(Range(prior))

RInv ==
    /\ Worded /\ CommentsAside /\ RaisesForTrailing
    /\ phase = "parse" => \E r \in Nat : RootIs(r)

(* Nothing that has a text is flushed into; a new element is a child of    *)
(* the last one on the stack.                                              *)
LEMMA FlushedTexts ==
    ASSUME Builder, Worded, NEW e \in 1..Len(elems), elems[e].tag = Comment
    PROVE  Flushed[e].text = elems[e].text
<1> USE DEF Builder, Types
<1>1. CASE ~Flushes
  BY <1>1 DEF Flushed
<1>2. CASE Flushes /\ tail
  BY <1>2 DEF Flushed
<1>3. CASE Flushes /\ ~tail
  <2>1. elems[last].text = None
    BY <1>3 DEF Flushes, Fresh
  <2>2. e # last
    BY <2>1 DEF Worded
  <2> QED BY <1>3, <2>2 DEF Flushed
<1> QED BY <1>1, <1>2, <1>3

LEMMA StartedTree ==
    ASSUME Builder, Worded, NEW tag \in Name \cup {Comment}, NEW attrib \in Attribs
    PROVE  /\ \A e \in 1..Len(elems) :
                /\ Started(tag, attrib)[e].tag = elems[e].tag
                /\ elems[e].tag = Comment => Started(tag, attrib)[e].text = elems[e].text
                /\ Range(elems[e].kids) \subseteq Range(Started(tag, attrib)[e].kids)
           /\ stack # <<>> =>
                /\ Last(stack) \in 1..Len(elems) /\ elems[Last(stack)].tag # Comment
                /\ Len(elems) + 1 \in Range(Started(tag, attrib)[Last(stack)].kids)
<1> USE DEF Builder, Types
<1> DEFINE new == Len(elems) + 1
           p == Last(stack)
           started == Started(tag, attrib)
<1>1. /\ \A e \in 1..Len(elems) :
           /\ started[e].tag = elems[e].tag /\ started[e].text = Flushed[e].text
           /\ started[e].kids \in {elems[e].kids, Append(elems[e].kids, new)}
      /\ stack # <<>> => p \in 1..Len(elems) /\ started[p].kids = Append(elems[p].kids, new)
  BY StartedElements
<1>2. \A e \in 1..Len(elems) : elems[e].tag = Comment => Flushed[e].text = elems[e].text
  BY FlushedTexts
<1>3. stack # <<>> => elems[p].tag # Comment
  <2> SUFFICES ASSUME stack # <<>> PROVE elems[p].tag # Comment
    OBVIOUS
  <2>1. Len(stack) \in 1..Len(stack) /\ p = stack[Len(stack)]
    BY EmptySeq DEF Last
  <2>2. elems[p].tag = open[Len(stack)] /\ Len(stack) \in 1..Len(open)
    BY <2>1 DEF OnStack
  <2>3. open[Len(stack)] \in Name
    BY <2>2
  <2> QED BY <2>2, <2>3, XmlTreeAssumption
<1>4. ASSUME NEW k \in Seq(Nat)
      PROVE  new \in Range(Append(k, new)) /\ Range(k) \subseteq Range(Append(k, new))
  <2>1. /\ DOMAIN k = 1..Len(k) /\ DOMAIN Append(k, new) = 1..Len(k) + 1
        /\ \A i \in 1..Len(k) : Append(k, new)[i] = k[i]
        /\ Append(k, new)[Len(k) + 1] = new
        /\ Len(k) \in Nat
    OBVIOUS
  <2>2. 1..Len(k) \subseteq 1..Len(k) + 1 /\ Len(k) + 1 \in 1..Len(k) + 1
    BY <2>1
  <2> QED BY <2>1, <2>2, Zenon DEF Range
<1>5. \A e \in 1..Len(elems) : elems[e].kids \in Seq(Nat)
  <2>1. \A e \in 1..Len(elems) : elems[e] \in Elements
    OBVIOUS
  <2>2. \A k \in Elements : k.kids \in Seq(Nat)
    BY DEF Elements
  <2> QED BY <2>1, <2>2, Zenon
<1> HIDE DEF started, p, new
<1>6. \A e \in 1..Len(elems) : Range(elems[e].kids) \subseteq Range(started[e].kids)
  <2> TAKE e \in 1..Len(elems)
  <2> DEFINE k == elems[e].kids
  <2>1. k \in Seq(Nat) /\ started[e].kids \in {k, Append(k, new)}
    BY <1>1, <1>5
  <2> HIDE DEF k
  <2> QED BY <1>4, <2>1 DEF k
<1>7. stack # <<>> => new \in Range(started[p].kids)
  <2> SUFFICES ASSUME stack # <<>> PROVE new \in Range(started[p].kids)
    OBVIOUS
  <2> DEFINE k == elems[p].kids
  <2>1. k \in Seq(Nat) /\ started[p].kids = Append(k, new)
    BY <1>1, <1>5
  <2> HIDE DEF k
  <2> QED BY <1>4, <2>1
<1> QED BY <1>1, <1>2, <1>3, <1>6, <1>7 DEF started, p, new

(* One lemma per call of expat again.                                      *)
LEMMA RootSeenGrows ==
    ASSUME doc \in Seq(Token), NEW token \in Token, doc' = Append(doc, token)
    PROVE  /\ RootSeen => RootSeen'
           /\ token.kind \in {"comment", "pi"} => (TrailingComment => TrailingComment')
           /\ token.kind = "comment" => TrailingComment'
<1>1. /\ Len(doc') = Len(doc) + 1 /\ Len(doc) \in Nat
      /\ DOMAIN doc = 1..Len(doc) /\ DOMAIN doc' = 1..Len(doc) + 1
      /\ \A i \in 1..Len(doc) : doc'[i] = doc[i]
      /\ doc'[Len(doc) + 1] = token
  <2>1. doc' \in Seq(Token)
    OBVIOUS
  <2> QED BY <2>1
<1>2. RootSeen => RootSeen'
  BY <1>1 DEF RootSeen
<1>3. ASSUME token.kind \in {"comment", "pi"}, TrailingComment PROVE TrailingComment'
  <2>1. PICK i \in DOMAIN doc : /\ doc[i].kind = "comment"
                               /\ \A j \in i + 1 .. Len(doc) : doc[j].kind \in {"comment", "pi"}
    BY <1>3 DEF TrailingComment
  <2>2. i \in DOMAIN doc' /\ doc'[i].kind = "comment"
    BY <1>1, <2>1
  <2>3. ASSUME NEW j \in i + 1 .. Len(doc') PROVE doc'[j].kind \in {"comment", "pi"}
    <3>1. (j \in i + 1 .. Len(doc) /\ j \in 1..Len(doc)) \/ j = Len(doc) + 1
      BY <1>1, <2>1
    <3> QED BY <1>1, <1>3, <2>1, <3>1
  <2> QED BY <2>2, <2>3 DEF TrailingComment
<1>4. ASSUME token.kind = "comment" PROVE TrailingComment'
  <2>1. \A j \in Len(doc) + 2 .. Len(doc) + 1 : FALSE
    BY <1>1
  <2>2. Len(doc) + 1 \in DOMAIN doc' /\ (Len(doc) + 1) + 1 = Len(doc) + 2
    BY <1>1
  <2> QED BY <1>1, <1>4, <2>1, <2>2 DEF TrailingComment
<1> QED BY <1>2, <1>3, <1>4

LEMMA StartElementRoot ==
    ASSUME IInv, Worded, NEW r \in Nat, RootIs(r), NEW tag \in StartTag, StartElement(tag[1], tag[2])
    PROVE  Worded' /\ \E q \in Nat : RootIs(q)'
<1> USE DEF IInv, Builder
<1> DEFINE name == tag[1]
           new == Len(elems) + 1
           token == [kind |-> "start", name |-> name, attrib |-> tag[2]]
<1>1. name \in Name /\ tag[2] \in Attribs /\ name # Comment
  BY XmlTreeAssumption DEF Attribs
<1>2. /\ InRoot \/ ~RootSeen
      /\ doc' = Append(doc, token) /\ open' = Append(open, name)
      /\ elems' = Started(name, tag[2]) /\ stack' = Append(stack, new)
  BY FlushSucceeds DEF StartElement, Reads
<1>3. /\ Len(elems') = new /\ Len(elems) \in Nat
      /\ elems'[new] = Element(name, tag[2])
  BY <1>1, <1>2, StartedElements DEF Types
<1>4. /\ \A e \in 1..Len(elems) :
           /\ elems'[e].tag = elems[e].tag
           /\ elems[e].tag = Comment => elems'[e].text = elems[e].text
           /\ Range(elems[e].kids) \subseteq Range(elems'[e].kids)
      /\ stack # <<>> => /\ Last(stack) \in 1..Len(elems) /\ elems[Last(stack)].tag # Comment
                         /\ new \in Range(elems'[Last(stack)].kids)
  BY <1>1, <1>2, StartedTree
<1>5. elems'[new].tag = name
  BY <1>3 DEF Element
<1>6. /\ \A e \in 1..new : e \in 1..Len(elems) \/ e = new
      /\ 1..Len(elems) \subseteq 1..new /\ new \in 1..new /\ new \in Nat
  BY <1>3
<1>12. open \in Seq(Name) /\ doc \in Seq(Token) /\ stack \in Seq(Nat)
  BY DEF Types
<1>13. token.kind = "start"
  OBVIOUS
<1> HIDE DEF name, new, token, IInv, Builder
<1>7. Worded'
  BY <1>1, <1>3, <1>4, <1>5, <1>6, Zenon DEF Worded
<1>8. open' # <<>> /\ RootSeen'
  <2>1. open' # <<>>
    <3>1. Append(open, name) # <<>>
      BY <1>1, <1>12, AppendProperties
    <3> QED BY <1>2, <3>1
  <2>2. doc'[Len(doc) + 1] = token /\ Len(doc) + 1 \in DOMAIN doc'
    <3>1. /\ Len(Append(doc, token)) = Len(doc) + 1 /\ Append(doc, token)[Len(doc) + 1] = token
          /\ Len(doc) + 1 \in DOMAIN Append(doc, token)
      BY <1>12
    <3> QED BY <1>2, <3>1
  <2> QED BY <1>13, <2>1, <2>2 DEF RootSeen
<1>9. stack = <<>> <=> open = <<>>
  <2>1. Len(stack) = Len(open)
    BY DEF IInv, Builder, OnStack
  <2> QED BY <1>12, <2>1, EmptySeq
<1>10. CASE stack # <<>>
  <2>1. Parented(r)'
    <3> SUFFICES ASSUME NEW e \in 1..new, elems'[e].tag # Comment, e # r
                 PROVE  \E p \in 1..new : elems'[p].tag # Comment /\ e \in Range(elems'[p].kids)
      BY <1>3 DEF Parented
    <3>1. CASE e = new
      <4>1. Last(stack) \in 1..new /\ elems'[Last(stack)].tag # Comment
        BY <1>4, <1>6, <1>10, Zenon
      <4> QED BY <1>4, <1>10, <3>1, <4>1, Zenon
    <3>2. CASE e \in 1..Len(elems)
      <4>1. elems[e].tag # Comment
        BY <1>4, <3>2, Zenon
      <4>2. PICK p \in 1..Len(elems) : elems[p].tag # Comment /\ e \in Range(elems[p].kids)
        BY <3>2, <4>1 DEF RootIs, Parented
      <4>3. p \in 1..new /\ elems'[p].tag = elems[p].tag
        BY <1>4, <1>6, Zenon
      <4> QED BY <1>4, <4>2, <4>3, Zenon
    <3> QED BY <1>6, <3>1, <3>2
  <2>2. stack[1] = r /\ stack'[1] = stack[1]
    <3>1. 1 \in 1..Len(stack)
      BY <1>10, <1>12
    <3>2. Append(stack, new)[1] = stack[1]
      BY <1>6, <1>12, <3>1
    <3> QED BY <1>2, <1>10, <3>2 DEF RootIs
  <2> QED BY <1>7, <1>8, <2>1, <2>2 DEF RootIs
<1>11. CASE stack = <<>>
  <2>1. \A e \in 1..Len(elems) : elems[e].tag = Comment
    BY <1>2, <1>9, <1>11 DEF InRoot, RootIs
  <2>4. PICK q \in Nat : q = new
    BY <1>6
  <2>2. Parented(q)'
    BY <1>3, <1>4, <1>6, <2>1, <2>4, Zenon DEF Parented
  <2>3. stack'[1] = q
    BY <1>2, <1>11, <2>4
  <2>5. RootIs(q)'
    BY <1>8, <2>2, <2>3, Zenon DEF RootIs
  <2> QED BY <1>7, <2>5
<1> QED BY <1>10, <1>11

LEMMA HandleCommentRoot ==
    ASSUME IInv, Worded, NEW r \in Nat, RootIs(r), NEW text \in CommentText, HandleComment(text)
    PROVE  Worded' /\ RootIs(r)'
<1> DEFINE new == Len(elems) + 1
           started == Started(Comment, <<>>)
           token == [kind |-> "comment", text |-> text]
<1>1. Builder /\ doc \in Seq(Token) /\ Len(elems) \in Nat
  BY DEF IInv, Builder, Types
<1>2. /\ doc' = Append(doc, token) /\ elems' = [started EXCEPT ![new].text = text]
      /\ UNCHANGED <<open, stack>>
  BY <1>1, FlushSucceeds DEF HandleComment, Reads, Builder
<1>3. <<>> \in Attribs /\ Comment \in Name \cup {Comment}
  BY DEF Attribs
<1>4. /\ started \in Seq(Elements) /\ Len(started) = new /\ started[new] = Element(Comment, <<>>)
  BY <1>1, <1>3, StartedElements
<1>5. \A e \in 1..Len(elems) :
        /\ started[e].tag = elems[e].tag
        /\ elems[e].tag = Comment => started[e].text = elems[e].text
        /\ Range(elems[e].kids) \subseteq Range(started[e].kids)
  BY <1>1, <1>3, StartedTree
<1> HIDE DEF started
<1>6. /\ Len(elems') = new
      /\ \A e \in 1..Len(elems) : elems'[e] = started[e]
      /\ elems'[new].text = text /\ elems'[new].tag = Comment
  <2> DEFINE commented == [started[new] EXCEPT !.text = text]
  <2>1. elems' = [started EXCEPT ![new] = commented]
    BY <1>2
  <2>2. started[new] = [tag |-> Comment, attrib |-> <<>>, text |-> None, tail |-> None, kids |-> <<>>]
    BY <1>4 DEF Element
  <2>3. commented.text = text /\ commented.tag = Comment
    BY <2>2
  <2> HIDE DEF commented
  <2>4. new \in 1..Len(started) /\ \A e \in 1..Len(elems) : e \in 1..Len(started) /\ e # new
    BY <1>1, <1>4
  <2>5. DOMAIN started = 1..Len(started) /\ started = [e \in 1..Len(started) |-> started[e]]
    BY <1>4
  <2>6. elems' = [e \in 1..new |-> IF e = new THEN commented ELSE started[e]]
    BY <1>4, <2>1, <2>5
  <2>7. new \in Nat
    BY <1>1
  <2> HIDE DEF new
  <2>8. Len(elems') = new
    BY <2>6, <2>7
  <2> QED BY <1>4, <2>3, <2>4, <2>6, <2>8
<1>7. /\ \A e \in 1..new : e \in 1..Len(elems) \/ e = new
      /\ 1..Len(elems) \subseteq 1..new
  BY <1>1
<1>8. text # None
  BY XmlTreeAssumption
<1>9. token \in Token /\ token.kind = "comment"
  BY DEF Token
<1> HIDE DEF new, token
<1>10. Worded'
  BY <1>5, <1>6, <1>7, <1>8, Zenon DEF Worded
<1>11. (RootSeen => RootSeen') /\ TrailingComment'
  BY <1>1, <1>2, <1>9, RootSeenGrows
<1>12. Parented(r)'
  <2> SUFFICES ASSUME NEW e \in 1..new, elems'[e].tag # Comment, e # r
               PROVE  \E p \in 1..new : elems'[p].tag # Comment /\ e \in Range(elems'[p].kids)
    BY <1>6 DEF Parented
  <2>1. e \in 1..Len(elems) /\ elems[e].tag # Comment
    BY <1>5, <1>6, <1>7, Zenon
  <2>2. PICK p \in 1..Len(elems) : elems[p].tag # Comment /\ e \in Range(elems[p].kids)
    BY <2>1 DEF RootIs, Parented
  <2>3. elems'[p].tag # Comment /\ e \in Range(elems'[p].kids)
    BY <1>5, <1>6, <2>2, Zenon
  <2> QED BY <1>7, <2>3, Zenon
<1>13. ~RootSeen' => \A e \in 1..new : elems'[e].tag = Comment
  BY <1>5, <1>6, <1>7, <1>11, Zenon DEF RootIs
<1>14. stack' # <<>> => stack'[1] = r
  BY <1>2 DEF RootIs
<1> QED BY <1>6, <1>10, <1>11, <1>12, <1>13, <1>14, Zenon DEF RootIs

LEMMA EndElementRoot ==
    ASSUME IInv, Worded, NEW r \in Nat, RootIs(r), EndElement
    PROVE  Worded' /\ RootIs(r)'
<1>1. /\ Builder /\ Len(elems) \in Nat /\ doc \in Seq(Token)
      /\ stack \in Seq(Nat) /\ open \in Seq(Name) /\ Len(stack) = Len(open)
  BY DEF IInv, Builder, Types, OnStack
<1>2. Len(open) \in 1..Len(open) /\ open # <<>>
  BY <1>1, EmptySeq DEF EndElement, Ends, InRoot
<1>3. EndAsserts(Last(open))
  BY <1>1, <1>2, FlushSucceeds DEF EndAsserts, Builder, Types, OnStack, Last
<1>4. /\ doc' = Append(doc, [kind |-> "end"]) /\ open' = Front(open)
      /\ elems' = Flushed
      /\ last' = stack[Len(stack)] /\ stack' = Front(stack)
  BY <1>3 DEF EndElement, Ends, Last
<1>5. /\ Len(elems') = Len(elems)
      /\ \A e \in 1..Len(elems) : elems'[e].tag = elems[e].tag /\ elems'[e].kids = elems[e].kids
  BY <1>1, <1>4, FlushedElements
<1>6. \A e \in 1..Len(elems) : elems[e].tag = Comment => elems'[e].text = elems[e].text
  BY <1>1, <1>4, FlushedTexts
<1>7. Worded'
  BY <1>5, <1>6, Zenon DEF Worded
<1>8. RootSeen => RootSeen'
  <2>1. [kind |-> "end"] \in Token
    BY DEF Token
  <2> QED BY <1>1, <1>4, <2>1, RootSeenGrows
<1>9. Parented(r)' /\ (~RootSeen' => \A e \in 1..Len(elems') : elems'[e].tag = Comment)
  BY <1>5, <1>8, Zenon DEF RootIs, Parented
<1>10. /\ Len(open') = Len(open) - 1 /\ open' \in Seq(Name)
       /\ Len(stack') = Len(stack) - 1 /\ stack' \in Seq(Nat)
       /\ \A i \in 1..Len(stack) - 1 : stack'[i] = stack[i]
  BY <1>1, <1>2, <1>4, FrontElements
<1>11. stack[1] = r
  <2>1. stack # <<>>
    BY <1>1, <1>2
  <2> QED BY <2>1 DEF RootIs
<1>12. stack' # <<>> => stack'[1] = r
  <2>1. stack' # <<>> => Len(stack') # 0
    BY <1>10, EmptySeq
  <2>2. stack' # <<>> => 1 \in 1..Len(stack) - 1
    BY <1>1, <1>2, <1>10, <2>1
  <2> QED BY <1>10, <1>11, <2>2
<1>13. open' = <<>> => last' = r
  <2>1. open' = <<>> => Len(open') = 0
    BY EmptySeq
  <2>2. open' = <<>> => Len(stack) = 1
    BY <1>1, <1>2, <1>10, <2>1
  <2> QED BY <1>4, <1>11, <2>2
<1> QED BY <1>7, <1>9, <1>12, <1>13, Zenon DEF RootIs

LEMMA SkippedRoot ==
    ASSUME IInv, Worded, NEW r \in Nat, RootIs(r),
           (\E text \in Text : CharacterData(text)) \/ ProcessingInstruction \/ Doctype
    PROVE  Worded' /\ RootIs(r)'
<1>1. UNCHANGED <<open, elems, stack, last>>
  BY DEF CharacterData, ProcessingInstruction, Doctype, builder
<1>2. PICK token \in Token :
        /\ doc' = Append(doc, token)
        /\ token.kind \in {"comment", "pi"} \/ open # <<>> \/ (~RootSeen /\ token.kind # "start")
  <2>1. ASSUME NEW text \in Text, CharacterData(text)
        PROVE  \E token \in Token : doc' = Append(doc, token) /\ open # <<>>
    <3>1. [kind |-> "data", text |-> text] \in Token
      BY DEF Token
    <3> QED BY <2>1, <3>1 DEF CharacterData, Reads, InRoot
  <2>2. ASSUME ProcessingInstruction
        PROVE  \E token \in Token : doc' = Append(doc, token) /\ token.kind = "pi"
    <3>1. [kind |-> "pi"] \in Token
      BY DEF Token
    <3> QED BY <2>2, <3>1 DEF ProcessingInstruction, Reads
  <2>3. ASSUME Doctype
        PROVE  \E token \in Token : doc' = Append(doc, token) /\ ~RootSeen /\ token.kind # "start"
    <3>1. [kind |-> "doctype"] \in Token
      BY DEF Token
    <3> QED BY <2>3, <3>1 DEF Doctype, Reads
  <2> QED BY <2>1, <2>2, <2>3
<1>3. doc \in Seq(Token)
  BY DEF IInv, Builder, Types
<1>4. /\ RootSeen => RootSeen'
      /\ token.kind \in {"comment", "pi"} => (TrailingComment => TrailingComment')
  BY <1>2, <1>3, RootSeenGrows
<1>5. token.kind # "start" => (RootSeen' => RootSeen)
  BY <1>2, <1>3, NoNewRoot
<1>6. /\ Worded' /\ Parented(r)'
      /\ ~RootSeen' => \A e \in 1..Len(elems') : elems'[e].tag = Comment
      /\ stack' # <<>> => stack'[1] = r
  BY <1>1, <1>4 DEF RootIs, Worded, Parented
<1>7. open' = <<>> /\ RootSeen' /\ ~TrailingComment' => last' = r
  BY <1>1, <1>2, <1>4, <1>5 DEF RootIs
<1> QED BY <1>6, <1>7 DEF RootIs

(* Iter has all elements below its argument, however deep.                 *)
Child(e, k) == k \in Range(elems[e].kids)

LEMMA IterIs ==
    ASSUME Builder, Nodes
    PROVE  \A e \in 1..Len(elems) :
             Iter[e] = {e} \cup UNION {Iter[k] : k \in Range(elems[e].kids)}
<1> DEFINE n == Len(elems)
           D == 1..n
           A == SUBSET D
           step == [f \in [D -> A] |->
                      [e \in D |-> {e} \cup UNION {f[k] : k \in Range(elems[e].kids)}]]
           from == CHOOSE f : f = [e \in DOMAIN elems |->
                                     {e} \cup UNION {f[k] : k \in Range(elems[e].kids)}]
<1>1. n \in Nat /\ DOMAIN elems = D
  BY DEF Builder, Types
<1>2. ASSUME NEW e \in D, NEW k \in Range(elems[e].kids) PROVE k \in D /\ k > e
  <2>1. elems[e].kids \in Seq(e + 1 .. n)
    BY DEF Nodes
  <2>2. Range(elems[e].kids) \subseteq e + 1 .. n
    BY <2>1, RangeOfSeq
  <2> QED BY <1>1, <1>2, <2>2
<1>3. \A f \in [D -> A] : \A e \in D : ({e} \cup UNION {f[k] : k \in Range(elems[e].kids)}) \in A
  BY <1>2
<1>4. \E f \in [D -> A] : f = step[f]
  <2> DEFINE rank == [e \in D |-> n - e]
  <2>1. rank \in [D -> 0..n] /\ \A e, k \in D : k > e => rank[k] < rank[e]
    BY <1>1
  <2>2. \A f, g \in [D -> A] : \A d \in D :
          (\A e \in D : rank[e] < rank[d] => f[e] = g[e]) => step[f][d] = step[g][d]
    <3> TAKE f, g \in [D -> A]
    <3> TAKE d \in D
    <3> HAVE \A e \in D : rank[e] < rank[d] => f[e] = g[e]
    <3> HIDE DEF D, A, rank
    <3>1. \A k \in Range(elems[d].kids) : f[k] = g[k]
      BY <1>2, <2>1
    <3> QED BY <3>1
  <2>3. step \in [[D -> A] -> [D -> A]]
    BY <1>3
  <2>4. {} \in A /\ n \in Nat
    BY <1>1
  <2> HIDE DEF n, D, A, step, rank
  <2>5. Causal(step, rank, D, A)
    BY <2>2, <2>3 DEF Causal
  <2> QED BY <2>1, <2>4, <2>5, RecursionExists
<1>5. from = [e \in D |-> {e} \cup UNION {from[k] : k \in Range(elems[e].kids)}]
  <2>1. PICK f \in [D -> A] : f = step[f]
    BY <1>4
  <2>2. step[f] = [e \in D |-> {e} \cup UNION {f[k] : k \in Range(elems[e].kids)}]
    <3> HIDE DEF D, A
    <3> QED BY <2>1
  <2>3. f = [e \in DOMAIN elems |-> {e} \cup UNION {f[k] : k \in Range(elems[e].kids)}]
    <3> HIDE DEF D, A, step
    <3> QED BY <1>1, <2>1, <2>2, Zenon
  <2>4. from = [e \in DOMAIN elems |-> {e} \cup UNION {from[k] : k \in Range(elems[e].kids)}]
    <3> HIDE DEF D, A, step
    <3> QED BY <2>3, Zenon
  <2> HIDE DEF from, D
  <2> QED BY <1>1, <2>4, Zenon
<1>6. Iter = from
  BY DEF Iter
<1> HIDE DEF from
<1>7. \A e \in D : from[e] = {e} \cup UNION {from[k] : k \in Range(elems[e].kids)}
  <2> HIDE DEF D
  <2> QED BY <1>5
<1> QED BY <1>6, <1>7

LEMMA IterClosed ==
    ASSUME Builder, Nodes, NEW e \in 1..Len(elems), NEW k, Child(e, k)
    PROVE  \A r \in 1..Len(elems) : e \in Iter[r] => k \in Iter[r]
<1> DEFINE n == Len(elems)
           Closed(r) == r \in 1..n => (e \in Iter[r] => k \in Iter[r])
           P == {m \in Nat : \A r \in Nat : n - r <= m => Closed(r)}
<1>1. n \in Nat
  BY DEF Builder, Types
<1>2. ASSUME NEW r \in 1..n, NEW c, Child(r, c) PROVE c \in 1..n /\ c > r
  <2>1. elems[r].kids \in Seq(r + 1 .. n)
    BY DEF Nodes
  <2>2. Range(elems[r].kids) \subseteq r + 1 .. n
    BY <2>1, RangeOfSeq
  <2> QED BY <1>1, <1>2, <2>2 DEF Child
<1>3. \A r \in 1..n : /\ r \in Iter[r]
                      /\ \A c : Child(r, c) => Iter[c] \subseteq Iter[r]
                      /\ \A x \in Iter[r] : x = r \/ \E c : Child(r, c) /\ x \in Iter[c]
  <2>1. \A r \in 1..n : Iter[r] = {r} \cup UNION {Iter[c] : c \in Range(elems[r].kids)}
    BY IterIs
  <2> QED BY <2>1 DEF Child
<1>4. ASSUME NEW r \in 1..n, \A c \in 1..n : c > r => Closed(c) PROVE Closed(r)
  <2> SUFFICES ASSUME e \in Iter[r] PROVE k \in Iter[r]
    OBVIOUS
  <2>1. CASE e = r
    <3>1. k \in 1..n
      BY <1>2
    <3> QED BY <1>3, <2>1, <3>1
  <2>2. CASE \E c : Child(r, c) /\ e \in Iter[c]
    <3>1. PICK c : Child(r, c) /\ e \in Iter[c]
      BY <2>2
    <3>2. c \in 1..n /\ c > r
      BY <1>2, <3>1
    <3>3. k \in Iter[c]
      BY <1>4, <3>1, <3>2
    <3> QED BY <1>3, <3>1, <3>3
  <2> QED BY <1>3, <2>1, <2>2
<1> HIDE DEF Closed
<1>5. 0 \in P
  <2>1. ASSUME NEW r \in Nat, n - r <= 0 PROVE Closed(r)
    <3>1. CASE r \in 1..n
      <4>1. \A c \in 1..n : ~(c > r)
        BY <1>1, <2>1, <3>1
      <4> QED BY <1>4, <3>1, <4>1
    <3> QED BY <3>1 DEF Closed
  <2> QED BY <2>1
<1>6. ASSUME NEW m \in Nat, m \in P PROVE m + 1 \in P
  <2>1. ASSUME NEW r \in Nat, n - r <= m + 1 PROVE Closed(r)
    <3>1. CASE r \in 1..n
      <4>1. \A c \in 1..n : c > r => c \in Nat /\ n - c <= m
        BY <1>1, <2>1, <3>1
      <4> QED BY <1>4, <1>6, <3>1, <4>1
    <3> QED BY <3>1 DEF Closed
  <2> QED BY <2>1
<1>7. Nat \subseteq P
  <2> HIDE DEF P
  <2> QED BY <1>5, <1>6, Induction
<1>8. \A r \in 1..n : Closed(r)
  <2>1. \A r \in 1..n : r \in Nat /\ n - r \in Nat /\ n - r <= n - r
    BY <1>1
  <2> QED BY <1>7, <2>1
<1> QED BY <1>8 DEF Closed

LEMMA IterHasAll ==
    ASSUME Builder, Nodes, NEW r \in 1..Len(elems), Parented(r)
    PROVE  \A e \in 1..Len(elems) : elems[e].tag # Comment => e \in Iter[r]
<1> DEFINE n == Len(elems)
           Has(e) == e \in 1..n /\ elems[e].tag # Comment => e \in Iter[r]
           P == {m \in Nat : \A e \in 1..m : Has(e)}
<1>1. n \in Nat
  BY DEF Builder, Types
<1>2. ASSUME NEW e \in 1..n, \A p \in 1..n : p < e => Has(p) PROVE Has(e)
  <2> SUFFICES ASSUME elems[e].tag # Comment PROVE e \in Iter[r]
    OBVIOUS
  <2>1. CASE e = r
    BY <2>1, IterIs
  <2>2. CASE e # r
    <3>1. PICK p \in 1..n : elems[p].tag # Comment /\ e \in Range(elems[p].kids)
      BY <2>2 DEF Parented
    <3>2. p < e
      <4>1. elems[p].kids \in Seq(p + 1 .. n)
        BY DEF Nodes
      <4>2. Range(elems[p].kids) \subseteq p + 1 .. n
        BY <4>1, RangeOfSeq
      <4> QED BY <1>1, <3>1, <4>2
    <3>3. p \in Iter[r]
      BY <1>2, <3>1, <3>2
    <3> QED BY <3>1, <3>3, IterClosed DEF Child
  <2> QED BY <2>1, <2>2
<1> HIDE DEF Has
<1>3. 0 \in P
  OBVIOUS
<1>4. ASSUME NEW m \in Nat, m \in P PROVE m + 1 \in P
  <2>1. Has(m + 1)
    <3>1. CASE m + 1 \in 1..n
      <4>1. \A p \in 1..n : p < m + 1 => p \in 1..m
        OBVIOUS
      <4> QED BY <1>2, <1>4, <3>1, <4>1
    <3> QED BY <3>1 DEF Has
  <2>2. \A e \in 1..m + 1 : e \in 1..m \/ e = m + 1
    OBVIOUS
  <2> QED BY <1>4, <2>1, <2>2
<1>5. Nat \subseteq P
  <2> HIDE DEF P
  <2> QED BY <1>3, <1>4, Induction
<1>6. n \in P
  <2> HIDE DEF P
  <2> QED BY <1>1, <1>5
<1> QED BY <1>6 DEF Has

(* At the end of the document, what is not below the root is a comment.    *)
LEMMA EndDocumentAside ==
    ASSUME TInv, RInv, EndDocument
    PROVE  RInv'
<1> USE DEF TInv, IInv
<1>1. CloseAsserts
  BY EmptySeq DEF Builder, Types, OnStack, EndDocument, InRoot, CloseAsserts
<1>2. /\ phase = "parse" /\ open = <<>> /\ RootSeen
      /\ phase' = "tree" /\ prior' = Outside(Iter[last])
      /\ UNCHANGED <<doc, elems>>
  BY <1>1 DEF EndDocument, InRoot, builder
<1>3. Worded' /\ (TrailingComment' <=> TrailingComment)
  BY <1>2 DEF RInv, Worded, TrailingComment
<1>4. ASSUME ~TrailingComment, NEW e \in Range(prior') PROVE elems[e].tag = Comment
  <2>1. PICK r \in Nat : RootIs(r)
    BY <1>2 DEF RInv
  <2>2. last = r /\ Parented(last)
    BY <1>2, <1>4, <2>1 DEF RootIs
  <2>3. last \in 1..Len(elems)
    BY <1>1 DEF CloseAsserts, Builder, Types
  <2>4. prior' \in Seq(Range(listed) \ Iter[last]) /\ Range(listed) \subseteq 1..Len(elems)
    <3>1. listed \in Seq(1..Len(elems))
      BY DEF Nodes
    <3> QED BY <1>2, <3>1, OutsideListed, RangeOfSeq
  <2>5. e \in 1..Len(elems) /\ e \notin Iter[last]
    <3>1. Range(prior') \subseteq Range(listed) \ Iter[last]
      BY <2>4, RangeOfSeq
    <3> QED BY <1>4, <2>4, <3>1
  <2> QED BY <2>2, <2>3, <2>5, IterHasAll
<1>5. CommentsAside'
  BY <1>2, <1>3, <1>4 DEF CommentsAside
<1> QED BY <1>2, <1>3, <1>5 DEF RInv, RaisesForTrailing

(* The loop that writes the comments kept aside gets to the end of them,   *)
(* unless a comment follows the root element.                              *)
LEMMA WriteRoot ==
    ASSUME TInv, RInv, Write
    PROVE  RInv'
<1>1. UNCHANGED <<doc, elems, prior>>
  BY DEF Write, WriteBegin, WriteComment, WriteCommentsDone, NextElement, AddName, NamesDone,
         SerializeComment, SerializeStart, SerializeEnd, WriteDone, Writes, builder
<1>2. Worded' /\ (TrailingComment' <=> TrailingComment)
  BY <1>1 DEF RInv, Worded, TrailingComment
<1>3. CASE WriteBegin
  <2>1. phase = "tree" /\ phase' = "prolog" /\ work' = prior
    BY <1>3 DEF WriteBegin
  <2>2. prior \in Seq(Range(prior))
    <3>1. prior \in Seq(Range(listed))
      BY DEF TInv, Writing
    <3>2. \A i \in 1..Len(prior) : prior[i] \in Range(prior)
      BY <3>1 DEF Range
    <3> QED BY <3>1, <3>2
  <2> QED BY <1>1, <1>2, <2>1, <2>2 DEF RInv, CommentsAside, RaisesForTrailing
<1>4. CASE WriteComment
  <2>1. phase = "prolog" /\ work # <<>> /\ work \in Seq(Range(prior))
    BY <1>4 DEF WriteComment, RInv, CommentsAside
  <2>2. Head(work) \in Range(prior) /\ Tail(work) \in Seq(Range(prior))
    BY <2>1
  <2>3. Range(prior) \subseteq 1..Len(elems)
    <3>1. Range(prior) \subseteq Range(listed) /\ Range(listed) \subseteq 1..Len(elems)
      BY RangeOfSeq DEF TInv, Nodes, Writing
    <3> QED BY <3>1
  <2>4. CASE elems[Head(work)].text = None
    <3>1. elems[Head(work)].tag # Comment
      BY <2>2, <2>3, <2>4 DEF RInv, Worded
    <3>2. TrailingComment
      BY <2>1, <2>2, <3>1 DEF RInv, CommentsAside
    <3>3. phase' = "type error"
      BY <1>4, <2>4 DEF WriteComment, Encodable
    <3> QED BY <1>2, <3>2, <3>3 DEF RInv, CommentsAside, RaisesForTrailing
  <2>5. CASE elems[Head(work)].text # None
    <3>1. phase' = phase /\ work' = Tail(work)
      BY <1>4, <2>5 DEF WriteComment, Encodable
    <3> QED BY <1>1, <1>2, <2>1, <2>2, <3>1 DEF RInv, CommentsAside, RaisesForTrailing
  <2> QED BY <2>4, <2>5
<1>5. CASE ~WriteBegin /\ ~WriteComment
  <2>1. phase' \in {"names", "serialize", "done"}
    BY <1>5 DEF Write, WriteCommentsDone, NextElement, AddName, NamesDone,
                SerializeComment, SerializeStart, SerializeEnd, WriteDone
  <2> QED BY <1>2, <2>1 DEF RInv, CommentsAside, RaisesForTrailing
<1> QED BY <1>3, <1>4, <1>5

(* A write raises, and leaves the file it has emptied behind, only if a    *)
(* comment follows the root element, so that TreeBuilder.close returns the *)
(* comment as the root: whatever the document, and however long.           *)
THEOREM OnlyTrailingCommentsRaise == Spec => []RaisesForTrailing
<1>1. Init => RInv
  <2> SUFFICES ASSUME Init PROVE RInv
    OBVIOUS
  <2>1. elems = <<>> /\ doc = <<>> /\ stack = <<>> /\ phase = "parse"
    BY DEF Init
  <2>2. 1..Len(elems) = {}
    BY <2>1, EmptySeq
  <2>3. ~RootSeen
    BY <2>1 DEF RootSeen
  <2>4. RootIs(0)
    BY <2>1, <2>2, <2>3 DEF RootIs, Parented
  <2> QED BY <2>1, <2>2, <2>4 DEF RInv, Worded, CommentsAside, RaisesForTrailing
<1>2. TInv /\ IInv' /\ RInv /\ [Next]_vars => RInv'
  <2> SUFFICES ASSUME TInv, IInv', RInv, [Next]_vars PROVE RInv'
    OBVIOUS
  <2> USE DEF TInv
  <2>1. CASE Callback /\ ~UndefinedEntity
    <3>1. phase = "parse" /\ phase' \in {"parse", "assertion"}
      BY <2>1 DEF Callback, StartElement, EndElement, CharacterData, HandleComment,
                  ProcessingInstruction, Doctype, Fail, Reads, Ends
    <3>2. PICK r \in Nat : RootIs(r)
      BY <3>1 DEF RInv
    <3>3. Worded
      BY DEF RInv
    <3>4. Worded' /\ \E q \in Nat : RootIs(q)'
      <4>1. ASSUME NEW tag \in StartTag, StartElement(tag[1], tag[2])
            PROVE  Worded' /\ \E q \in Nat : RootIs(q)'
        BY <3>2, <3>3, <4>1, StartElementRoot
      <4>2. CASE EndElement
        BY <3>2, <3>3, <4>2, EndElementRoot
      <4>3. ASSUME NEW text \in CommentText, HandleComment(text) PROVE Worded' /\ RootIs(r)'
        BY <3>2, <3>3, <4>3, HandleCommentRoot
      <4>4. CASE (\E text \in Text : CharacterData(text)) \/ ProcessingInstruction \/ Doctype
        BY <3>2, <3>3, <4>4, SkippedRoot
      <4> QED BY <2>1, <4>1, <4>2, <4>3, <4>4 DEF Callback
    <3>5. phase' = "parse"
      BY <3>1 DEF IInv
    <3> QED BY <3>4, <3>5 DEF RInv, CommentsAside, RaisesForTrailing
  <2>2. CASE UndefinedEntity \/ RaiseError
    <3>1. phase' = "parse error" /\ UNCHANGED elems
      BY <2>2 DEF UndefinedEntity, RaiseError, Fail, builder
    <3>2. Worded'
      BY <3>1 DEF RInv, Worded
    <3> QED BY <3>1, <3>2 DEF CommentsAside, RaisesForTrailing, RInv
  <2>3. CASE EndDocument
    BY <2>3, EndDocumentAside
  <2>4. CASE Write
    BY <2>4, WriteRoot
  <2>5. CASE Stopped \/ UNCHANGED vars
    <3>1. UNCHANGED vars
      BY <2>5 DEF Stopped
    <3>2. UNCHANGED <<doc, open, phase, elems, stack, last, prior, work>>
      BY <3>1 DEF vars
    <3> QED BY <3>2 DEF RInv, Worded, CommentsAside, RaisesForTrailing, TrailingComment,
                    RootIs, RootSeen, Parented
  <2> QED BY <2>1, <2>2, <2>3, <2>4, <2>5 DEF Next, Parse, Callback
<1>3. RInv => RaisesForTrailing
  BY DEF RInv
<1>4. TInv <=> IInv /\ Nodes /\ Writing
  BY DEF TInv
<1> QED BY <1>1, <1>2, <1>3, <1>4, TreeInvariant, PTL DEF Spec

----------------------------------------------------------------------------
(* Texts in a row, and their flattening.                                   *)
Cat(p, q) == p \o q

LEMMA CatAssociative ==
    ASSUME NEW C, NEW p \in Seq(C), NEW k \in Seq(C), NEW w \in Seq(C)
    PROVE  Cat(Cat(p, k), w) = Cat(p, Cat(k, w)) /\ Cat(p, k) \in Seq(C)
<1>1. Cat(Cat(p, k), w) = Cat(p, Cat(k, w))
  BY ConcatAssociative DEF Cat
<1>2. Cat(p, k) \in Seq(C)
  BY ConcatProperties DEF Cat
<1> QED BY <1>1, <1>2

LEMMA CatEmpty ==
    ASSUME NEW C, NEW p \in Seq(C)
    PROVE  Cat(p, <<>>) = p /\ Cat(<<>>, p) = p
BY ConcatEmptySeq DEF Cat

(* f[i] is the flattening of the first i texts.                            *)
Flattening(p, f) ==
    \A i \in 1..Len(p) : f[i] = IF i = 1 THEN p[i] ELSE Cat(f[i - 1], p[i])

LEMMA HeadAndRest ==
    ASSUME NEW C, NEW a \in C, NEW q \in Seq(C)
    PROVE  /\ Cat(<<a>>, q) \in Seq(C) /\ Len(Cat(<<a>>, q)) = Len(q) + 1
           /\ \A i \in 1..Len(q) + 1 : Cat(<<a>>, q)[i] = IF i = 1 THEN a ELSE q[i - 1]
<1> DEFINE x == <<a>>
<1>1. x \in Seq(C) /\ Len(x) = 1 /\ x[1] = a
  OBVIOUS
<1> HIDE DEF x
<1>2. /\ x \o q \in Seq(C) /\ Len(x \o q) = Len(x) + Len(q)
      /\ \A i \in 1..Len(x) + Len(q) : (x \o q)[i] = IF i <= Len(x) THEN x[i] ELSE q[i - Len(x)]
  BY <1>1, ConcatProperties
<1>3. /\ x \o q \in Seq(C) /\ Len(x \o q) = Len(q) + 1
      /\ \A i \in 1..Len(q) + 1 : (x \o q)[i] = IF i = 1 THEN a ELSE q[i - 1]
  BY <1>1, <1>2
<1> QED BY <1>3 DEF Cat, x

LEMMA FlattenIs ==
    ASSUME NEW C, NEW p \in Seq(Seq(C))
    PROVE  Len(p) # 0 =>
             \E f \in [1..Len(p) -> Seq(C)] : Flattening(p, f) /\ FlattenSeq(p) = f[Len(p)]
<1> DEFINE n == Len(p)
           D == 1..n
           A == Seq(C)
           step == [f \in [D -> A] |-> [i \in D |-> IF i = 1 THEN p[i] ELSE Cat(f[i - 1], p[i])]]
           flatten == CHOOSE f : f = [i \in D |-> IF i = 1 THEN p[i] ELSE f[i - 1] \o p[i]]
<1>1. n \in Nat /\ \A i \in D : p[i] \in A
  OBVIOUS
<1>2. <<>> \in A
  BY EmptySeq
<1> HIDE DEF A
<1>3. ASSUME NEW f \in [D -> A], NEW i \in D
      PROVE  (IF i = 1 THEN p[i] ELSE Cat(f[i - 1], p[i])) \in A
  <2>1. i # 1 => i - 1 \in D
    BY <1>1
  <2>2. \A x, y \in A : Cat(x, y) \in A
    BY ConcatProperties DEF A, Cat
  <2> HIDE DEF D
  <2> QED BY <1>1, <2>1, <2>2
<1>4. \E f \in [D -> A] : f = step[f]
  <2> DEFINE rank == [i \in D |-> i]
  <2>1. rank \in [D -> 0..n]
    BY <1>1
  <2>5. n \in Nat
    BY <1>1
  <2>2. \A f, g \in [D -> A] : \A d \in D :
          (\A e \in D : rank[e] < rank[d] => f[e] = g[e]) => step[f][d] = step[g][d]
    <3> TAKE f, g \in [D -> A]
    <3> TAKE d \in D
    <3> HAVE \A e \in D : rank[e] < rank[d] => f[e] = g[e]
    <3>1. d # 1 => f[d - 1] = g[d - 1]
      BY <1>1
    <3> QED BY <3>1
  <2>3. step \in [[D -> A] -> [D -> A]]
    BY <1>3
  <2> HIDE DEF n, D, step, rank, flatten
  <2>4. Causal(step, rank, D, A)
    BY <2>2, <2>3 DEF Causal
  <2> QED BY <1>2, <2>1, <2>4, <2>5, RecursionExists
<1>5. PICK f \in [D -> A] : f = [i \in D |-> IF i = 1 THEN p[i] ELSE f[i - 1] \o p[i]]
  BY <1>4 DEF Cat
<1>6. flatten = [i \in D |-> IF i = 1 THEN p[i] ELSE flatten[i - 1] \o p[i]]
  BY <1>5
<1>7. n # 0 => FlattenSeq(p) = flatten[n]
  BY DEF FlattenSeq
<1>8. \A i \in D : f[i] = flatten[i]
  <2> HIDE DEF flatten
  <2> DEFINE P == {k \in Nat : k \in D => f[k] = flatten[k]}
  <2>1. 0 \in P
    OBVIOUS
  <2>2. ASSUME NEW k \in Nat, k \in P PROVE k + 1 \in P
    <3>1. k + 1 \in D /\ k + 1 # 1 => k \in D /\ (k + 1) - 1 = k
      BY <1>1
    <3>2. k + 1 \in D => f[k + 1] = IF k + 1 = 1 THEN p[k + 1] ELSE f[(k + 1) - 1] \o p[k + 1]
      BY <1>5
    <3>3. k + 1 \in D =>
            flatten[k + 1] = IF k + 1 = 1 THEN p[k + 1] ELSE flatten[(k + 1) - 1] \o p[k + 1]
      BY <1>6
    <3> QED BY <2>2, <3>1, <3>2, <3>3
  <2>3. Nat \subseteq P
    <3> HIDE DEF P
    <3> QED BY <2>1, <2>2, Induction
  <2> QED BY <1>1, <2>3
<1>9. Flattening(p, f)
  BY <1>5 DEF Flattening, Cat
<1>10. n # 0 => n \in D
  BY <1>1
<1> QED BY <1>5, <1>7, <1>8, <1>9, <1>10 DEF A

LEMMA FlattenAppend ==
    ASSUME NEW C, NEW q \in Seq(Seq(C)), NEW x \in Seq(C)
    PROVE  FlattenSeq(Append(q, x)) = Cat(FlattenSeq(q), x) /\ FlattenSeq(q) \in Seq(C)
<1> DEFINE n == Len(q)
           p == Append(q, x)
<1>1. /\ p \in Seq(Seq(C)) /\ Len(p) = n + 1 /\ n \in Nat /\ p[n + 1] = x
      /\ \A i \in 1..n : p[i] = q[i]
  OBVIOUS
<1> HIDE DEF p
<1>2. PICK f \in [1..Len(p) -> Seq(C)] : Flattening(p, f) /\ FlattenSeq(p) = f[Len(p)]
  <2>1. Len(p) # 0
    BY <1>1
  <2> QED BY <1>1, <2>1, FlattenIs
<1>3. FlattenSeq(p) = IF n = 0 THEN x ELSE Cat(f[n], x)
  <2>1. n + 1 \in 1..Len(p)
    BY <1>1
  <2>2. f[n + 1] = IF n + 1 = 1 THEN x ELSE Cat(f[(n + 1) - 1], x)
    BY <1>1, <1>2, <2>1 DEF Flattening
  <2> QED BY <1>1, <1>2, <2>2
<1>4. CASE n = 0
  <2>1. FlattenSeq(q) = <<>> /\ <<>> \in Seq(C)
    BY <1>4 DEF FlattenSeq
  <2> QED BY <1>3, <1>4, <2>1, CatEmpty DEF p
<1>5. CASE n # 0
  <2>1. PICK g \in [1..n -> Seq(C)] : Flattening(q, g) /\ FlattenSeq(q) = g[n]
    BY <1>5, FlattenIs
  <2> DEFINE P == {k \in Nat : k \in 1..n => f[k] = g[k]}
  <2>2. 0 \in P
    OBVIOUS
  <2>3. ASSUME NEW k \in Nat, k \in P PROVE k + 1 \in P
    <3> SUFFICES ASSUME k + 1 \in 1..n PROVE f[k + 1] = g[k + 1]
      OBVIOUS
    <3>1. f[k + 1] = IF k + 1 = 1 THEN q[k + 1] ELSE Cat(f[(k + 1) - 1], q[k + 1])
      <4>1. k + 1 \in 1..Len(p) /\ p[k + 1] = q[k + 1]
        BY <1>1
      <4>2. f[k + 1] = IF k + 1 = 1 THEN p[k + 1] ELSE Cat(f[(k + 1) - 1], p[k + 1])
        BY <1>2, <4>1 DEF Flattening
      <4> QED BY <4>1, <4>2
    <3>2. g[k + 1] = IF k + 1 = 1 THEN q[k + 1] ELSE Cat(g[(k + 1) - 1], q[k + 1])
      BY <2>1 DEF Flattening
    <3>3. k + 1 # 1 => f[k] = g[k]
      BY <2>3
    <3> QED BY <3>1, <3>2, <3>3
  <2>4. Nat \subseteq P
    <3> HIDE DEF P
    <3> QED BY <2>2, <2>3, Induction
  <2>5. n \in 1..n /\ n \in Nat
    BY <1>1, <1>5
  <2>6. f[n] = g[n] /\ g[n] \in Seq(C)
    BY <2>1, <2>4, <2>5
  <2> QED BY <1>3, <1>5, <2>1, <2>6 DEF p
<1> QED BY <1>4, <1>5

(* Functions on texts that translate character by character.               *)
Translation(F, K) ==
    /\ F \in [Seq(K) -> Seq(K)]
    /\ F[<<>>] = <<>>
    /\ \A x, y \in Seq(K) : F[Cat(x, y)] = Cat(F[x], F[y])

LEMMA TranslationsCompose ==
    ASSUME NEW K, NEW F, NEW G, Translation(F, K), Translation(G, K)
    PROVE  Translation([s \in Seq(K) |-> G[F[s]]], K)
<1>1. <<>> \in Seq(K) /\ \A x, y \in Seq(K) : Cat(x, y) \in Seq(K)
  BY ConcatProperties, EmptySeq DEF Cat
<1> DEFINE T == Seq(K)
<1>2. <<>> \in T /\ \A x, y \in T : Cat(x, y) \in T
  BY <1>1
<1>3. /\ F \in [T -> T] /\ F[<<>>] = <<>> /\ \A x, y \in T : F[Cat(x, y)] = Cat(F[x], F[y])
      /\ G \in [T -> T] /\ G[<<>>] = <<>> /\ \A x, y \in T : G[Cat(x, y)] = Cat(G[x], G[y])
  BY DEF Translation
<1> HIDE DEF T
<1>4. /\ [s \in T |-> G[F[s]]] \in [T -> T]
      /\ [s \in T |-> G[F[s]]][<<>>] = <<>>
      /\ \A x, y \in T : [s \in T |-> G[F[s]]][Cat(x, y)]
                           = Cat([s \in T |-> G[F[s]]][x], [s \in T |-> G[F[s]]][y])
  BY <1>2, <1>3
<1> QED BY <1>4 DEF Translation, T

Piece(a, c, ref) == IF a = c THEN <<"&", ref>> ELSE <<a>>

Fits(c, ref, K) == \A a \in K : Piece(a, c, ref) \in Seq(K)

LEMMA ReplacedAppend ==
    ASSUME NEW K, NEW c, NEW ref, Fits(c, ref, K),
           NEW s \in Seq(K), NEW a \in K
    PROVE  /\ Replaced(Append(s, a), c, ref) = Cat(Replaced(s, c, ref), Piece(a, c, ref))
           /\ Replaced(s, c, ref) \in Seq(K)
<1> DEFINE pieces(t) == [i \in DOMAIN t |-> Piece(t[i], c, ref)]
<1>1. pieces(s) \in Seq(Seq(K))
  <2>1. \A i \in 1..Len(s) : Piece(s[i], c, ref) \in Seq(K)
    BY DEF Fits
  <2>2. DOMAIN s = 1..Len(s) /\ Len(s) \in Nat
    OBVIOUS
  <2>3. pieces(s) \in [1..Len(s) -> Seq(K)]
    BY <2>1, <2>2
  <2> HIDE DEF pieces
  <2> QED BY <2>2, <2>3
<1>2. pieces(Append(s, a)) = Append(pieces(s), Piece(a, c, ref))
  OBVIOUS
<1>3. \A t : Replaced(t, c, ref) = FlattenSeq(pieces(t))
  BY DEF Replaced, Piece
<1>4. Piece(a, c, ref) \in Seq(K)
  BY DEF Fits
<1> DEFINE q == pieces(s)
           x == Piece(a, c, ref)
<1>5. FlattenSeq(Append(q, x)) = Cat(FlattenSeq(q), x) /\ FlattenSeq(q) \in Seq(K)
  <2> HIDE DEF q, x
  <2> QED BY <1>1, <1>4, FlattenAppend DEF q, x
<1> HIDE DEF pieces
<1> QED BY <1>2, <1>3, <1>5, Zenon

LEMMA Replaces ==
    ASSUME NEW K, NEW c, NEW ref, Fits(c, ref, K)
    PROVE  Translation([s \in Seq(K) |-> Replaced(s, c, ref)], K)
<1> DEFINE F == [s \in Seq(K) |-> Replaced(s, c, ref)]
<1>1. F[<<>>] = <<>>
  <2>1. [i \in DOMAIN <<>> |-> Piece(<<>>[i], c, ref)] = <<>>
    OBVIOUS
  <2>2. Replaced(<<>>, c, ref) = FlattenSeq(<<>>)
    BY <2>1 DEF Replaced, Piece
  <2>3. FlattenSeq(<<>>) = <<>>
    BY DEF FlattenSeq
  <2> QED BY <2>2, <2>3
<1>2. ASSUME NEW s \in Seq(K), NEW a \in K
      PROVE  F[Append(s, a)] = Cat(F[s], Piece(a, c, ref)) /\ F[s] \in Seq(K)
  <2>1. Append(s, a) \in Seq(K)
    OBVIOUS
  <2>2. F[Append(s, a)] = Replaced(Append(s, a), c, ref) /\ F[s] = Replaced(s, c, ref)
    BY <2>1
  <2>3. /\ Replaced(Append(s, a), c, ref) = Cat(Replaced(s, c, ref), Piece(a, c, ref))
        /\ Replaced(s, c, ref) \in Seq(K)
    BY ReplacedAppend
  <2> HIDE DEF F
  <2> QED BY <2>2, <2>3
<1>3. \A s \in Seq(K) : F[s] \in Seq(K)
  <2> SUFFICES ASSUME NEW s \in Seq(K), s # <<>> PROVE F[s] \in Seq(K)
    BY <1>1
  <2>1. s[1] \in K
    OBVIOUS
  <2> HIDE DEF F
  <2> QED BY <1>2, <2>1
<1> DEFINE Splits(x, y) == F[Cat(x, y)] = Cat(F[x], F[y])
           P == {n \in Nat : \A x, y \in Seq(K) : Len(y) = n => Splits(x, y)}
<1>4. 0 \in P
  <2> SUFFICES ASSUME NEW x \in Seq(K) PROVE Splits(x, <<>>)
    OBVIOUS
  <2> HIDE DEF F
  <2>1. Cat(x, <<>>) = x /\ Cat(F[x], <<>>) = F[x]
    BY <1>3, CatEmpty
  <2> QED BY <1>1, <2>1
<1>9. ASSUME NEW x \in Seq(K), NEW z \in Seq(K), NEW a \in K, Splits(x, z)
      PROVE  Splits(x, Append(z, a))
  <2> DEFINE p == Piece(a, c, ref)
  <2>1. p \in Seq(K)
    BY DEF Fits
  <2>2. Cat(x, Append(z, a)) = Append(Cat(x, z), a) /\ Cat(x, z) \in Seq(K)
    <3>1. Cat(x, z) \in Seq(K)
      BY CatAssociative
    <3> QED BY <3>1 DEF Cat
  <2> HIDE DEF F, p
  <2>3. F[Append(Cat(x, z), a)] = Cat(F[Cat(x, z)], p) /\ F[Append(z, a)] = Cat(F[z], p)
    BY <1>2, <2>2 DEF p
  <2>4. F[x] \in Seq(K) /\ F[z] \in Seq(K)
    BY <1>3
  <2>5. Cat(Cat(F[x], F[z]), p) = Cat(F[x], Cat(F[z], p))
    <3> DEFINE fx == F[x]
               fz == F[z]
    <3>1. fx \in Seq(K) /\ fz \in Seq(K)
      BY <2>4
    <3> HIDE DEF fx, fz
    <3>2. Cat(Cat(fx, fz), p) = Cat(fx, Cat(fz, p))
      BY <2>1, <3>1, CatAssociative
    <3> QED BY <3>2 DEF fx, fz
  <2> QED BY <1>9, <2>2, <2>3, <2>5
<1>5. ASSUME NEW n \in Nat, n \in P PROVE n + 1 \in P
  <2> SUFFICES ASSUME NEW x \in Seq(K), NEW y \in Seq(K), Len(y) = n + 1 PROVE Splits(x, y)
    OBVIOUS
  <2> DEFINE z == SubSeq(y, 1, n)
             a == y[n + 1]
  <2>1. z \in Seq(K) /\ a \in K /\ Len(z) = n /\ y = Append(z, a)
    OBVIOUS
  <2>2. Splits(x, z)
    BY <1>5, <2>1
  <2> HIDE DEF Splits, z, a
  <2>3. Splits(x, Append(z, a))
    BY <1>9, <2>1, <2>2
  <2> QED BY <2>1, <2>3
<1>6. Nat \subseteq P
  <2> HIDE DEF P
  <2> QED BY <1>4, <1>5, Induction
<1>7. \A x, y \in Seq(K) : Splits(x, y)
  <2>1. \A y \in Seq(K) : Len(y) \in Nat
    OBVIOUS
  <2> HIDE DEF Splits
  <2> QED BY <1>6, <2>1
<1>8. F \in [Seq(K) -> Seq(K)]
  BY <1>3
<1> HIDE DEF F
<1> QED BY <1>1, <1>7, <1>8 DEF Translation, F

----------------------------------------------------------------------------
(* What a parser reads of a text, from a position on.                      *)
From(t, f, i, attribute) ==
    IF i > Len(t) THEN <<>>
    ELSE IF t[i] = "\r" /\ i < Len(t) /\ t[i + 1] = "\n" THEN f[i + 1]
    ELSE IF t[i] # "&" THEN Cat(Plain(t[i], attribute), f[i + 1])
    ELSE IF i < Len(t) /\ t[i + 1] \in Reference
      THEN Cat(<<Referenced(t[i + 1])>>, f[i + 2])
    ELSE Malformed

ReadsAs(t, f, attribute) == \A i \in 1..Len(t) + 1 : f[i] = From(t, f, i, attribute)

(* The characters that occur in what is read; no carriage return is read.  *)
Decodable(K, M) ==
    /\ "\r" \notin K
    /\ \A c \in K : Plain(c, TRUE) \in Seq(M) /\ Plain(c, FALSE) \in Seq(M)
    /\ \A ref \in Reference : Referenced(ref) \in M
    /\ Malformed \in Seq(M)

(* The text y is what t has behind its first k characters.                 *)
Suffix(t, k, y) == k \in Nat /\ Len(t) = k + Len(y) /\ \A j \in 1..Len(y) : t[k + j] = y[j]

LEMMA SuffixReads ==
    ASSUME NEW K, NEW t \in Seq(K), NEW y \in Seq(K), NEW k, Suffix(t, k, y),
           NEW attribute, NEW f, ReadsAs(t, f, attribute), NEW g, ReadsAs(y, g, attribute)
    PROVE  \A i \in 1..Len(y) + 1 : f[k + i] = g[i]
<1> DEFINE n == Len(y)
           Same(i) == i \in 1..n + 1 => f[k + i] = g[i]
           P == {m \in Nat : \A l \in 0..m : Same(n + 1 - l)}
<1>1. n \in Nat /\ k \in Nat /\ Len(t) = k + n /\ \A j \in 1..n : t[k + j] = y[j]
  BY DEF Suffix
<1>2. ASSUME NEW i \in 1..n + 1, Same(i + 1), Same(i + 2) PROVE f[k + i] = g[i]
  <2>1. f[k + i] = From(t, f, k + i, attribute) /\ g[i] = From(y, g, i, attribute)
    <3>1. k + i \in 1..Len(t) + 1
      BY <1>1
    <3> QED BY <3>1 DEF ReadsAs
  <2>2. CASE i > n
    <3>1. k + i > Len(t)
      BY <1>1, <2>2
    <3> QED BY <2>1, <2>2, <3>1 DEF From
  <2>3. CASE i <= n
    <3>1. /\ ~(k + i > Len(t)) /\ ~(i > Len(y)) /\ t[k + i] = y[i]
          /\ (k + i < Len(t)) = (i < Len(y))
          /\ f[(k + i) + 1] = g[i + 1]
          /\ i < Len(y) => t[(k + i) + 1] = y[i + 1] /\ f[(k + i) + 2] = g[i + 2]
      <4>1. /\ ~(k + i > Len(t)) /\ ~(i > Len(y)) /\ (k + i < Len(t)) = (i < Len(y))
            /\ i \in 1..n /\ i + 1 \in 1..n + 1 /\ (k + i) + 1 = k + (i + 1)
            /\ i < Len(y) => i + 2 \in 1..n + 1 /\ i + 1 \in 1..n /\ (k + i) + 2 = k + (i + 2)
        BY <1>1, <2>3
      <4>2. t[k + i] = y[i]
        BY <1>1, <4>1
      <4>3. f[(k + i) + 1] = g[i + 1]
        BY <1>2, <4>1
      <4>4. i < Len(y) => t[(k + i) + 1] = y[i + 1]
        <5> HIDE DEF n
        <5> QED BY <1>1, <4>1
      <4>5. i < Len(y) => f[(k + i) + 2] = g[i + 2]
        BY <1>2, <4>1
      <4> QED BY <4>1, <4>2, <4>3, <4>4, <4>5
    <3>2. From(t, f, k + i, attribute) = From(y, g, i, attribute)
      BY <3>1, Zenon DEF From
    <3> QED BY <2>1, <3>2
  <2> QED BY <1>1, <2>2, <2>3
<1>3. 0 \in P
  <2>1. ~(n + 1 + 1 \in 1..n + 1) /\ ~(n + 1 + 2 \in 1..n + 1)
    BY <1>1
  <2>2. f[k + (n + 1)] = g[n + 1]
    BY <1>1, <1>2, <2>1
  <2>3. \A l \in 0..0 : n + 1 - l = n + 1
    BY <1>1
  <2> QED BY <2>2, <2>3
<1>4. ASSUME NEW m \in Nat, m \in P PROVE m + 1 \in P
  <2>1. \A l \in 0..m : Same(n + 1 - l)
    BY <1>4
  <2> DEFINE i == n + 1 - (m + 1)
  <2>2. Same(i)
    <3>1. Same(i + 1)
      <4>1. m \in 0..m /\ n + 1 - m = i + 1
        BY <1>1
      <4> HIDE DEF Same, n, i
      <4> QED BY <2>1, <4>1
    <3>2. Same(i + 2)
      <4>1. CASE m = 0
        <5>1. ~(i + 2 \in 1..n + 1)
          BY <1>1, <4>1
        <5> QED BY <5>1
      <4>2. CASE m # 0
        <5>1. m - 1 \in 0..m /\ n + 1 - (m - 1) = i + 2
          BY <1>1, <4>2
        <5> HIDE DEF Same, n, i
        <5> QED BY <2>1, <5>1
      <4> QED BY <4>1, <4>2
    <3> QED BY <1>2, <3>1, <3>2
  <2>3. \A l \in 0..m + 1 : l \in 0..m \/ l = m + 1
    OBVIOUS
  <2> HIDE DEF Same
  <2> QED BY <2>1, <2>2, <2>3 DEF i
<1>5. Nat \subseteq P
  <2> HIDE DEF P
  <2> QED BY <1>3, <1>4, Induction
<1>6. ASSUME NEW i \in 1..n + 1 PROVE Same(i)
  <2>1. n + 1 - i \in Nat /\ n + 1 - i \in 0..n + 1 - i /\ n + 1 - (n + 1 - i) = i
    BY <1>1
  <2>2. n + 1 - i \in P
    <3> HIDE DEF P
    <3> QED BY <1>5, <2>1
  <2> HIDE DEF Same
  <2> QED BY <2>1, <2>2
<1> QED BY <1>6

LEMMA DecodedIs ==
    ASSUME NEW K, NEW M, Decodable(K, M), NEW t \in Seq(K), NEW attribute \in BOOLEAN
    PROVE  \E f \in [1..Len(t) + 1 -> Seq(M)] : ReadsAs(t, f, attribute) /\ Decoded(t, attribute) = f[1]
<1> DEFINE n == Len(t)
           D == 1..n + 1
           A == Seq(M)
           step == [f \in [D -> A] |-> [i \in D |-> From(t, f, i, attribute)]]
           from == CHOOSE f : f = [i \in D |-> From(t, f, i, attribute)]
<1>1. n \in Nat /\ \A i \in 1..n : t[i] \in K
  OBVIOUS
<1>2. <<>> \in A
  BY EmptySeq
<1>3. /\ \A c \in K : Plain(c, attribute) \in A
      /\ \A r \in Reference : <<Referenced(r)>> \in A
      /\ Malformed \in A
      /\ \A x, y \in A : Cat(x, y) \in A
  <2>1. \A c \in K : Plain(c, attribute) \in A
    <3>1. attribute = TRUE \/ attribute = FALSE
      OBVIOUS
    <3> QED BY <3>1, Zenon DEF Decodable
  <2>2. \A r \in Reference : <<Referenced(r)>> \in A
    <3>1. \A r \in Reference : Referenced(r) \in M
      BY DEF Decodable
    <3>2. \A x \in M : <<x>> \in Seq(M)
      OBVIOUS
    <3> QED BY <3>1, <3>2, Zenon
  <2>3. Malformed \in A
    BY Zenon DEF Decodable
  <2>4. \A x, y \in A : Cat(x, y) \in A
    BY ConcatProperties DEF Cat
  <2> QED BY <2>1, <2>2, <2>3, <2>4, Zenon
<1> HIDE DEF A
<1>4. ASSUME NEW f \in [D -> A], NEW i \in D PROVE From(t, f, i, attribute) \in A
  <2>1. CASE i > n
    BY <1>2, <2>1 DEF From
  <2>2. CASE i <= n
    <3>1. t[i] \in K /\ f[i + 1] \in A /\ (i < n => f[i + 2] \in A)
      BY <1>1, <2>2
    <3> DEFINE u == f[i + 1]
               w == f[i + 2]
    <3>2. From(t, f, i, attribute) \in {Cat(Plain(t[i], attribute), u), Malformed}
            \/ (i < n /\ t[i + 1] \in Reference
                  /\ From(t, f, i, attribute) = Cat(<<Referenced(t[i + 1])>>, w))
      <4>1. ~(i > Len(t))
        BY <1>1, <2>2
      <4>2. t[i] # "\r"
        BY <3>1, Zenon DEF Decodable
      <4> QED BY <4>1, <4>2, Zenon DEF From
    <3> HIDE DEF u, w
    <3>3. u \in A /\ (i < n => w \in A)
      BY <3>1 DEF u, w
    <3> QED BY <1>3, <3>1, <3>2, <3>3
  <2> QED BY <1>1, <2>1, <2>2
<1>5. \E f \in [D -> A] : f = step[f]
  <2> DEFINE rank == [i \in D |-> n + 1 - i]
  <2>1. rank \in [D -> 0..n]
    BY <1>1
  <2>2. n \in Nat
    BY <1>1
  <2>3. \A f, g \in [D -> A] : \A d \in D :
          (\A e \in D : rank[e] < rank[d] => f[e] = g[e]) => step[f][d] = step[g][d]
    <3> TAKE f, g \in [D -> A]
    <3> TAKE d \in D
    <3> HAVE \A e \in D : rank[e] < rank[d] => f[e] = g[e]
    <3>1. d <= n => f[d + 1] = g[d + 1]
      <4>1. d <= n => d + 1 \in D /\ rank[d + 1] < rank[d]
        BY <1>1
      <4> HIDE DEF D, rank
      <4> QED BY <4>1
    <3>2. d < n => f[d + 2] = g[d + 2]
      <4>1. d < n => d + 2 \in D /\ rank[d + 2] < rank[d]
        BY <1>1
      <4> HIDE DEF D, rank
      <4> QED BY <4>1
    <3>3. From(t, f, d, attribute) = From(t, g, d, attribute)
      <4>1. d > n \/ (d <= n /\ ~(d > n))
        BY <1>1
      <4> QED BY <3>1, <3>2, <4>1, Zenon DEF From
    <3> QED BY <3>3
  <2>4. step \in [[D -> A] -> [D -> A]]
    BY <1>4
  <2> HIDE DEF n, D, step, rank, from
  <2>5. Causal(step, rank, D, A)
    BY <2>3, <2>4 DEF Causal
  <2> QED BY <1>2, <2>1, <2>2, <2>5, RecursionExists
<1>6. from = [i \in D |-> From(t, from, i, attribute)]
  BY <1>5
<1>7. Decoded(t, attribute) = from[1]
  BY Zenon DEF Decoded, From, Cat
<1>8. PICK f \in [D -> A] : f = [i \in D |-> From(t, f, i, attribute)]
  BY <1>5
<1> HIDE DEF from
<1>9. f[1] = from[1]
  <2>1. ReadsAs(t, f, attribute) /\ ReadsAs(t, from, attribute)
    BY <1>6, <1>8 DEF ReadsAs
  <2>2. Suffix(t, 0, t)
    BY DEF Suffix
  <2>3. \A i \in 1..Len(t) + 1 : f[0 + i] = from[i]
    <3> HIDE DEF n, D
    <3> QED BY <2>1, <2>2, SuffixReads
  <2>4. 1 \in 1..Len(t) + 1 /\ 0 + 1 = 1
    BY <1>1
  <2> QED BY <2>3, <2>4
<1>10. ReadsAs(t, f, attribute)
  BY <1>8 DEF ReadsAs
<1> QED BY <1>7, <1>8, <1>9, <1>10 DEF A

LEMMA DecodedHead ==
    ASSUME NEW K, NEW M, Decodable(K, M), NEW attribute \in BOOLEAN, NEW y \in Seq(K)
    PROVE  /\ Decoded(<<>>, attribute) = <<>>
           /\ Decoded(y, attribute) \in Seq(M)
           /\ \A c \in K \ {"&"} :
                Decoded(Cat(<<c>>, y), attribute) = Cat(Plain(c, attribute), Decoded(y, attribute))
           /\ "&" \in K => \A ref \in Reference \cap K :
                Decoded(Cat(<<"&", ref>>, y), attribute) = Cat(<<Referenced(ref)>>, Decoded(y, attribute))
<1>1. PICK g \in [1..Len(y) + 1 -> Seq(M)] : ReadsAs(y, g, attribute) /\ Decoded(y, attribute) = g[1]
  BY DecodedIs
<1>2. Decoded(<<>>, attribute) = <<>>
  <2> DEFINE e == <<>>
  <2>1. e \in Seq(K)
    BY EmptySeq
  <2>6. Len(e) = 0
    OBVIOUS
  <2> HIDE DEF e
  <2>2. PICK f \in [1..Len(e) + 1 -> Seq(M)] : ReadsAs(e, f, attribute) /\ Decoded(e, attribute) = f[1]
    BY <2>1, DecodedIs
  <2>3. f[1] = From(e, f, 1, attribute)
    BY <2>2, <2>6 DEF ReadsAs
  <2>4. 1 > Len(e)
    BY <2>6
  <2>5. Decoded(e, attribute) = <<>>
    BY <2>2, <2>3, <2>4, Zenon DEF From
  <2> QED BY <2>5 DEF e
<1>3. Decoded(y, attribute) \in Seq(M)
  BY <1>1
<1>4. ASSUME NEW c \in K \ {"&"}
      PROVE  Decoded(Cat(<<c>>, y), attribute) = Cat(Plain(c, attribute), Decoded(y, attribute))
  <2> DEFINE t == Cat(<<c>>, y)
  <2>1. t \in Seq(K) /\ Suffix(t, 1, y) /\ t[1] = c /\ Len(t) = Len(y) + 1
    BY DEF Cat, Suffix
  <2> HIDE DEF t
  <2>2. PICK f \in [1..Len(t) + 1 -> Seq(M)] : ReadsAs(t, f, attribute) /\ Decoded(t, attribute) = f[1]
    BY <2>1, DecodedIs
  <2>3. f[1 + 1] = g[1]
    <3>1. 1 \in 1..Len(y) + 1
      OBVIOUS
    <3>2. \A i \in 1..Len(y) + 1 : f[1 + i] = g[i]
      BY <1>1, <2>1, <2>2, SuffixReads
    <3> QED BY <3>1, <3>2
  <2>4. f[1] = From(t, f, 1, attribute) /\ ~(1 > Len(t))
    BY <2>1, <2>2 DEF ReadsAs
  <2>6. c # "\r"
    BY <1>4, Zenon DEF Decodable
  <2>5. From(t, f, 1, attribute) = Cat(Plain(c, attribute), f[1 + 1])
    BY <2>1, <2>4, <2>6, Zenon DEF From
  <2> QED BY <1>1, <2>2, <2>3, <2>4, <2>5 DEF t
<1>5. ASSUME "&" \in K, NEW ref \in Reference \cap K
      PROVE  Decoded(Cat(<<"&", ref>>, y), attribute) = Cat(<<Referenced(ref)>>, Decoded(y, attribute))
  <2> DEFINE amp == "&"
             t == Cat(<<amp, ref>>, y)
  <2>1. /\ t \in Seq(K) /\ Suffix(t, 2, y) /\ t[1] = amp /\ t[2] = ref /\ Len(t) = Len(y) + 2
    <3>1. amp \in K
      BY <1>5
    <3> HIDE DEF amp
    <3> QED BY <1>5, <3>1 DEF Cat, Suffix
  <2> HIDE DEF t
  <2>2. PICK f \in [1..Len(t) + 1 -> Seq(M)] : ReadsAs(t, f, attribute) /\ Decoded(t, attribute) = f[1]
    BY <2>1, DecodedIs
  <2>3. f[1 + 2] = g[1]
    <3>1. 1 \in 1..Len(y) + 1
      OBVIOUS
    <3>2. \A i \in 1..Len(y) + 1 : f[2 + i] = g[i]
      BY <1>1, <2>1, <2>2, SuffixReads
    <3> QED BY <3>1, <3>2
  <2>4. /\ f[1] = From(t, f, 1, attribute)
        /\ ~(1 > Len(t)) /\ 1 < Len(t) /\ 1 + 1 = 2
    BY <2>1, <2>2 DEF ReadsAs
  <2>5. t[1 + 1] = ref /\ ref \in Reference
    BY <1>5, <2>1, <2>4
  <2>6. From(t, f, 1, attribute) = Cat(<<Referenced(ref)>>, f[1 + 2])
    <3>1. amp # "\r"
      OBVIOUS
    <3> QED BY <2>1, <2>4, <2>5, <3>1, Zenon DEF From, amp
  <2> QED BY <1>1, <2>2, <2>3, <2>4, <2>6 DEF t
<1> QED BY <1>2, <1>3, <1>4, <1>5

----------------------------------------------------------------------------
(* E writes the characters that the references of S stand for as these     *)
(* references, and all others as they are.                                 *)
Escapes(E, K, S) ==
    /\ Translation(E, K)
    /\ \A ref \in S : E[<<Referenced(ref)>>] = <<"&", ref>>
    /\ \A c \in K : (\A ref \in S : c # Referenced(ref)) => E[<<c>>] = <<c>>

Alphabet(K) == "&" \in K /\ Reference \subseteq K /\ \A ref \in Reference : Referenced(ref) \in K

LEMMA OneAndTwo ==
    ASSUME NEW K, NEW a \in K, NEW b \in K
    PROVE  /\ <<>> \in Seq(K) /\ <<a>> \in Seq(K)
           /\ Append(<<>>, a) = <<a>> /\ Append(<<a>>, b) = <<a, b>> /\ Cat(<<a>>, <<b>>) = <<a, b>>
<1>1. <<>> \in Seq(K) /\ <<a>> \in Seq(K) /\ <<b>> \in Seq(K) /\ <<a, b>> \in Seq(K)
  OBVIOUS
<1>2. Append(<<>>, a) = <<a>>
  OBVIOUS
<1> DEFINE x == <<a>>
           y == <<b>>
           t == <<a, b>>
<1>3. /\ x \in Seq(K) /\ Len(x) = 1 /\ x[1] = a /\ y \in Seq(K) /\ Len(y) = 1 /\ y[1] = b
      /\ t \in Seq(K) /\ Len(t) = 2 /\ t[1] = a /\ t[2] = b
  BY <1>1
<1> HIDE DEF x, y, t
<1>4. Append(x, b) = t
  <2>3. ASSUME NEW q \in Seq(K)
        PROVE  /\ Append(q, b) \in Seq(K) /\ Len(Append(q, b)) = Len(q) + 1
               /\ \A i \in 1..Len(q) : Append(q, b)[i] = q[i]
               /\ Append(q, b)[Len(q) + 1] = b
    OBVIOUS
  <2>4. Len(Append(x, b)) = Len(x) + 1 /\ Append(x, b)[1] = x[1] /\ Append(x, b)[Len(x) + 1] = b
    <3>1. x \in Seq(K) /\ 1 \in 1..Len(x)
      BY <1>3
    <3> QED BY <2>3, <3>1, Zenon
  <2>5. Append(x, b) \in Seq(K)
    BY <1>3, <2>3, Zenon
  <2>1. /\ Append(x, b) \in Seq(K) /\ Len(Append(x, b)) = 2
        /\ Append(x, b)[1] = a /\ Append(x, b)[2] = b
    BY <1>3, <2>4, <2>5
  <2>2. \A i \in 1..2 : i = 1 \/ i = 2
    OBVIOUS
  <2> HIDE DEF t
  <2> QED BY <1>3, <2>1, <2>2, SeqEqual
<1>5. x \o y = t
  <2>3. /\ x \o y \in Seq(K) /\ Len(x \o y) = Len(x) + Len(y)
        /\ \A i \in 1..Len(x) + Len(y) :
             (x \o y)[i] = IF i <= Len(x) THEN x[i] ELSE y[i - Len(x)]
    BY <1>3, ConcatProperties
  <2>1. x \o y \in Seq(K) /\ Len(x \o y) = 2 /\ (x \o y)[1] = a /\ (x \o y)[2] = b
    BY <1>3, <2>3
  <2>2. \A i \in 1..2 : i = 1 \/ i = 2
    OBVIOUS
  <2> QED BY <1>3, <2>1, <2>2, SeqEqual
<1> QED BY <1>1, <1>2, <1>4, <1>5 DEF x, y, t, Cat

LEMMA OnePiece ==
    ASSUME NEW K, NEW c, NEW ref, Fits(c, ref, K), NEW a \in K
    PROVE  Replaced(<<a>>, c, ref) = Piece(a, c, ref)
<1>1. Replaced(<<>>, c, ref) = <<>>
  <2>1. [i \in DOMAIN <<>> |-> Piece(<<>>[i], c, ref)] = <<>>
    OBVIOUS
  <2>2. Replaced(<<>>, c, ref) = FlattenSeq(<<>>)
    BY <2>1 DEF Replaced, Piece
  <2>3. FlattenSeq(<<>>) = <<>>
    BY DEF FlattenSeq
  <2> QED BY <2>2, <2>3
<1> DEFINE e == <<>>
           x == <<a>>
<1>2. Append(e, a) = x
  BY OneAndTwo
<1>3. e \in Seq(K)
  BY EmptySeq
<1>4. Replaced(e, c, ref) = e /\ \A p \in Seq(K) : Cat(e, p) = p
  BY <1>1, CatEmpty
<1>5. Piece(a, c, ref) \in Seq(K)
  BY Zenon DEF Fits
<1> HIDE DEF e, x
<1>6. Replaced(Append(e, a), c, ref) = Cat(Replaced(e, c, ref), Piece(a, c, ref))
  BY <1>3, ReplacedAppend
<1>7. Replaced(x, c, ref) = Piece(a, c, ref)
  BY <1>2, <1>4, <1>5, <1>6
<1> QED BY <1>7 DEF x

LEMMA OthersKept ==
    ASSUME NEW K, NEW c, NEW ref, Fits(c, ref, K), NEW a \in K, NEW b \in K, a # c, b # c
    PROVE  Replaced(<<a, b>>, c, ref) = <<a, b>>
<1> DEFINE x == <<a>>
<1>1. Append(x, b) = <<a, b>> /\ Cat(x, <<b>>) = <<a, b>>
  BY OneAndTwo
<1>2. x \in Seq(K)
  BY OneAndTwo
<1>3. Piece(a, c, ref) = x /\ Piece(b, c, ref) = <<b>>
  BY Zenon DEF Piece
<1>4. Replaced(x, c, ref) = Piece(a, c, ref)
  BY OnePiece
<1> HIDE DEF x
<1>5. Replaced(Append(x, b), c, ref) = Cat(Replaced(x, c, ref), Piece(b, c, ref))
  BY <1>2, ReplacedAppend
<1> QED BY <1>1, <1>3, <1>4, <1>5, Zenon

LEMMA ReferencesAreTexts ==
    ASSUME NEW K, Alphabet(K), NEW c, NEW ref \in Reference
    PROVE  Fits(c, ref, K)
<1> DEFINE amp == "&"
<1>1. amp \in K /\ ref \in K
  BY Zenon DEF Alphabet
<1> HIDE DEF amp
<1>2. \A a \in K : <<amp, ref>> \in Seq(K) /\ <<a>> \in Seq(K)
  BY <1>1
<1>3. \A a \in K : Piece(a, c, ref) \in Seq(K)
  BY <1>2, Zenon DEF Piece, amp
<1> QED BY <1>3 DEF Fits

(* The first replacement, of "&" itself.                                   *)
LEMMA EscapesFirst ==
    ASSUME NEW K, Alphabet(K)
    PROVE  Escapes([s \in Seq(K) |-> Replaced(s, "&", "amp;")], K, {"amp;"})
<1> DEFINE F == [s \in Seq(K) |-> Replaced(s, "&", "amp;")]
           amp == "&"
           rest == "amp;"
<1>1. rest \in Reference /\ Referenced(rest) = amp
  <2>1. rest \in Reference
    BY Zenon DEF Reference
  <2>2. Referenced(rest) = amp
    BY DEF Referenced
  <2> QED BY <2>1, <2>2
<1>2. amp \in K
  BY Zenon DEF Alphabet
<1> HIDE DEF amp, rest
<1>3. Fits(amp, rest, K)
  BY <1>1, ReferencesAreTexts
<1>4. Translation(F, K)
  BY <1>3, Replaces DEF amp, rest
<1>5. ASSUME NEW c \in K PROVE F[<<c>>] = Piece(c, amp, rest)
  <2>1. <<c>> \in Seq(K)
    BY OneAndTwo
  <2>2. Replaced(<<c>>, amp, rest) = Piece(c, amp, rest)
    BY <1>3, OnePiece
  <2> QED BY <2>1, <2>2 DEF amp, rest
<1> HIDE DEF F
<1>6. \A c \in K : F[<<c>>] = IF c = amp THEN <<amp, rest>> ELSE <<c>>
  BY <1>5, Zenon DEF Piece, amp
<1>7. Escapes(F, K, {rest})
  BY <1>1, <1>2, <1>4, <1>6, Zenon DEF Escapes, amp
<1> QED BY <1>7 DEF F, rest

(* A further one, of a character d that occurs in no reference.            *)
Then(E, K, d, r) == [s \in Seq(K) |-> Replaced(E[s], d, r)]

Further(S, d, r) ==
    /\ S \subseteq Reference /\ r \in Reference /\ Referenced(r) = d
    /\ d # "&" /\ d \notin Reference /\ \A ref \in S : Referenced(ref) # d

LEMMA EscapesNext ==
    ASSUME NEW K, Alphabet(K), NEW S, NEW E, Escapes(E, K, S), NEW r, NEW d, Further(S, d, r)
    PROVE  Escapes(Then(E, K, d, r), K, S \cup {r})
<1>0. /\ S \subseteq Reference /\ r \in Reference /\ Referenced(r) = d
      /\ d # "&" /\ d \notin Reference /\ \A ref \in S : Referenced(ref) # d
  BY DEF Further
<1> DEFINE amp == "&"
           F == [s \in Seq(K) |-> Replaced(s, d, r)]
           G == [s \in Seq(K) |-> F[E[s]]]
<1>1. d \in K /\ amp \in K /\ r \in K /\ S \subseteq K /\ \A ref \in S : Referenced(ref) \in K
  BY <1>0, Zenon DEF Alphabet
<1>2. Fits(d, r, K)
  BY <1>0, ReferencesAreTexts
<1>3. d # amp /\ d \notin Reference /\ \A ref \in S : Referenced(ref) # d
  BY <1>0
<1> HIDE DEF amp
<1>4. Translation(E, K) /\ Translation(F, K)
  BY <1>2, Replaces DEF Escapes
<1>5. Translation(G, K)
  <2> HIDE DEF F
  <2> QED BY <1>4, TranslationsCompose
<1>6. \A s \in Seq(K) : E[s] \in Seq(K) /\ F[E[s]] = Replaced(E[s], d, r)
  <2>1. \A s \in Seq(K) : E[s] \in Seq(K)
    BY <1>4 DEF Translation
  <2> QED BY <2>1
<1>7. G = [s \in Seq(K) |-> Replaced(E[s], d, r)]
  BY <1>6
<1>8. \A c \in K : G[<<c>>] = Replaced(E[<<c>>], d, r)
  <2>1. \A c \in K : <<c>> \in Seq(K)
    BY OneAndTwo
  <2> QED BY <1>7, <2>1
<1> HIDE DEF F, G
<1>9. ASSUME NEW ref \in S PROVE G[<<Referenced(ref)>>] = <<amp, ref>>
  <2>1. E[<<Referenced(ref)>>] = <<amp, ref>>
    BY DEF Escapes, amp
  <2>2. ref \in K /\ ref # d /\ amp # d /\ Referenced(ref) \in K
    BY <1>0, <1>1, <1>3
  <2>3. Replaced(<<amp, ref>>, d, r) = <<amp, ref>>
    BY <1>1, <1>2, <2>2, OthersKept
  <2> QED BY <1>8, <2>1, <2>2, <2>3, Zenon
<1>10. ASSUME NEW c \in K, \A ref \in S : c # Referenced(ref)
       PROVE  G[<<c>>] = IF c = d THEN <<amp, r>> ELSE <<c>>
  <2>1. E[<<c>>] = <<c>>
    BY <1>10, Zenon DEF Escapes
  <2>2. Replaced(<<c>>, d, r) = Piece(c, d, r)
    BY <1>2, OnePiece
  <2> QED BY <1>8, <2>1, <2>2, Zenon DEF Piece, amp
<1>11. G[<<Referenced(r)>>] = <<amp, r>>
  BY <1>0, <1>1, <1>3, <1>10, Zenon
<1>12. Escapes(G, K, S \cup {r})
  BY <1>0, <1>5, <1>9, <1>10, <1>11, Zenon DEF Escapes, amp
<1> QED BY <1>7, <1>12 DEF Then

(* D reads what F wrote of a character c of C as sp[c], whatever follows.   *)
PutsBack(D, F, sp, C, K, M) ==
    /\ C \subseteq K /\ Translation(F, K) /\ D \in [Seq(K) -> Seq(M)] /\ sp \in [C -> M]
    /\ D[<<>>] = <<>>
    /\ \A c \in C, y \in Seq(K) : D[Cat(F[<<c>>], y)] = Cat(<<sp[c]>>, D[y])

Each(s, sp) == [i \in DOMAIN s |-> sp[s[i]]]

(* Text that is written by a translation, character by character, and read *)
(* back by D.                                                              *)
LEMMA ComesBack ==
    ASSUME NEW K, NEW M, NEW C, NEW F, NEW D, NEW sp, PutsBack(D, F, sp, C, K, M)
    PROVE  \A s \in Seq(C) : D[F[s]] = Each(s, sp)
<1> DEFINE Back(s) == D[F[s]] = [i \in DOMAIN s |-> sp[s[i]]]
           P == {n \in Nat : \A s \in Seq(C) : Len(s) = n => Back(s)}
<1>0. /\ C \subseteq K /\ Translation(F, K) /\ D \in [Seq(K) -> Seq(M)] /\ sp \in [C -> M]
      /\ D[<<>>] = <<>>
  BY DEF PutsBack
<1>1. F[<<>>] = <<>> /\ \A x, y \in Seq(K) : F[Cat(x, y)] = Cat(F[x], F[y])
  BY <1>0 DEF Translation
<1>2. \A s \in Seq(C) : s \in Seq(K) /\ F[s] \in Seq(K)
  <2>1. \A s \in Seq(C) : s \in Seq(K)
    BY <1>0
  <2>2. \A s \in Seq(K) : F[s] \in Seq(K)
    BY <1>0 DEF Translation
  <2> QED BY <2>1, <2>2
<1>3. ASSUME NEW s \in Seq(C), Len(s) = 0 PROVE Back(s)
  <2>1. s = <<>> /\ [i \in DOMAIN s |-> sp[s[i]]] = <<>>
    BY <1>3
  <2> QED BY <1>0, <1>1, <2>1
<1>4. ASSUME NEW a \in C, NEW z \in Seq(C), Back(z) PROVE Back(Cat(<<a>>, z))
  <2>1. F[Cat(<<a>>, z)] = Cat(F[<<a>>], F[z])
    <3>1. <<a>> \in Seq(K) /\ z \in Seq(K)
      <4>1. a \in K
        BY <1>0
      <4> QED BY <1>2, <4>1, OneAndTwo
    <3> QED BY <1>1, <3>1
  <2>2. D[Cat(F[<<a>>], F[z])] = Cat(<<sp[a]>>, D[F[z]])
    BY <1>2 DEF PutsBack
  <2>3. Cat(<<sp[a]>>, [i \in DOMAIN z |-> sp[z[i]]]) = [i \in DOMAIN Cat(<<a>>, z) |-> sp[Cat(<<a>>, z)[i]]]
    <3> DEFINE b == sp[a]
               q == [i \in DOMAIN z |-> sp[z[i]]]
               u == Cat(<<a>>, z)
               v == Cat(<<b>>, q)
               w == [i \in DOMAIN u |-> sp[u[i]]]
    <3>1. b \in M
      BY <1>0
    <3>2. q \in Seq(M) /\ Len(q) = Len(z) /\ \A i \in 1..Len(z) : q[i] = sp[z[i]]
      BY <1>0
    <3> HIDE DEF q
    <3>3. /\ u \in Seq(C) /\ Len(u) = Len(z) + 1
          /\ \A i \in 1..Len(z) + 1 : u[i] = IF i = 1 THEN a ELSE z[i - 1]
      BY HeadAndRest
    <3>4. /\ v \in Seq(M) /\ Len(v) = Len(q) + 1
          /\ \A i \in 1..Len(q) + 1 : v[i] = IF i = 1 THEN b ELSE q[i - 1]
      <4>1. b \in M /\ q \in Seq(M)
        BY <3>1, <3>2
      <4> HIDE DEF b
      <4> QED BY <4>1, HeadAndRest
    <3> HIDE DEF u, v
    <3>5. w \in Seq(M) /\ Len(w) = Len(z) + 1 /\ \A i \in 1..Len(z) + 1 : w[i] = sp[u[i]]
      BY <1>0, <3>3
    <3> HIDE DEF w
    <3>6. ASSUME NEW i \in 1..Len(z) + 1 PROVE v[i] = w[i]
      <4>1. i # 1 => i - 1 \in 1..Len(z)
        OBVIOUS
      <4>2. v[i] = IF i = 1 THEN b ELSE q[i - 1]
        BY <3>2, <3>4
      <4>3. w[i] = sp[u[i]] /\ u[i] = IF i = 1 THEN a ELSE z[i - 1]
        BY <3>3, <3>5
      <4> QED BY <3>2, <4>1, <4>2, <4>3, Zenon
    <3>7. v = w
      BY <3>2, <3>4, <3>5, <3>6, SeqEqual
    <3> QED BY <3>7 DEF b, q, u, v, w
  <2> QED BY <1>4, <2>1, <2>2, <2>3
<1>5. 0 \in P
  <2> HIDE DEF Back
  <2> QED BY <1>3
<1>6. ASSUME NEW n \in Nat, n \in P PROVE n + 1 \in P
  <2> SUFFICES ASSUME NEW s \in Seq(C), Len(s) = n + 1 PROVE Back(s)
    OBVIOUS
  <2> DEFINE z == Tail(s)
             a == s[1]
  <2>1. z \in Seq(C) /\ a \in C /\ Len(z) = n /\ s = Cat(<<a>>, z)
    BY DEF Cat
  <2> HIDE DEF Back, z, a
  <2>2. Back(z)
    BY <1>6, <2>1
  <2> QED BY <1>4, <2>1, <2>2
<1>7. Nat \subseteq P
  <2> HIDE DEF P
  <2> QED BY <1>5, <1>6, Induction
<1>8. \A s \in Seq(C) : Len(s) \in Nat
  OBVIOUS
<1>9. \A s \in Seq(C) : Back(s)
  <2> HIDE DEF Back
  <2> QED BY <1>7, <1>8
<1> QED BY <1>9 DEF Each

LEMMA ReferencesApart ==
    /\ Referenced("amp;") = "&" /\ Referenced("lt;") = "<" /\ Referenced("gt;") = ">"
    /\ Referenced("quot;") = "\"" /\ Referenced("#10;") = "\n"
    /\ "<" \notin Reference /\ ">" \notin Reference /\ "\"" \notin Reference /\ "\n" \notin Reference
<1>1. /\ Referenced("amp;") = "&" /\ Referenced("lt;") = "<" /\ Referenced("gt;") = ">"
      /\ Referenced("quot;") = "\"" /\ Referenced("#10;") = "\n"
  BY DEF Referenced
<1>2. "<" \notin Reference /\ ">" \notin Reference /\ "\"" \notin Reference /\ "\n" \notin Reference
  BY DEF Reference
<1> QED BY <1>1, <1>2

(* All characters that occur when texts of the characters C are written,   *)
(* and those that can be read of them.                                     *)
WrittenOf(C) == C \cup {"&", "<", ">", "\"", "\n"} \cup Reference
ReadOf(C) == WrittenOf(C) \cup {" ", "malformed"}

LEMMA WrittenIs ==
    ASSUME NEW C, "\r" \notin C
    PROVE  Alphabet(WrittenOf(C)) /\ Decodable(WrittenOf(C), ReadOf(C)) /\ C \subseteq WrittenOf(C)
<1>1. "&" \in WrittenOf(C) /\ Reference \subseteq WrittenOf(C) /\ C \subseteq WrittenOf(C)
  BY Zenon DEF WrittenOf
<1>2. \A ref \in Reference : Referenced(ref) \in WrittenOf(C)
  BY ReferencesApart, Zenon DEF WrittenOf, Reference
<1>3. WrittenOf(C) \subseteq ReadOf(C) /\ " " \in ReadOf(C) /\ "malformed" \in ReadOf(C)
  BY Zenon DEF ReadOf
<1>4. Alphabet(WrittenOf(C))
  BY <1>1, <1>2, Zenon DEF Alphabet
<1>5. Decodable(WrittenOf(C), ReadOf(C))
  <2>1. \A x \in ReadOf(C) : <<x>> \in Seq(ReadOf(C))
    OBVIOUS
  <2>2. Malformed \in Seq(ReadOf(C))
    BY <1>3, <2>1, Zenon DEF Malformed
  <2>4. "\r" \notin WrittenOf(C)
    <3>1. "\r" \notin {"&", "<", ">", "\"", "\n"} \cup Reference
      BY DEF Reference
    <3> QED BY <3>1, Zenon DEF WrittenOf
  <2>3. ASSUME NEW c \in WrittenOf(C), NEW attribute \in BOOLEAN
        PROVE  Plain(c, attribute) \in Seq(ReadOf(C))
    <3>1. Plain(c, attribute) \in {Malformed, <<" ">>, <<c>>}
      BY <2>4 DEF Plain
    <3>2. <<c>> \in Seq(ReadOf(C)) /\ <<" ">> \in Seq(ReadOf(C))
      BY <1>3, <2>1, Zenon
    <3> QED BY <2>2, <3>1, <3>2, Zenon
  <2> QED BY <1>2, <1>3, <2>2, <2>3, <2>4, Zenon DEF Decodable
<1> QED BY <1>1, <1>4, <1>5

LEMMA CdataEscapes ==
    ASSUME NEW K, Alphabet(K)
    PROVE  Escapes([s \in Seq(K) |-> escape_cdata(s)], K, {"amp;", "lt;", "gt;"})
<1> DEFINE E1 == [s \in Seq(K) |-> Replaced(s, "&", "amp;")]
           E2 == Then(E1, K, "<", "lt;")
           E3 == Then(E2, K, ">", "gt;")
           S1 == {"amp;"}
           S2 == S1 \cup {"lt;"}
           S3 == S2 \cup {"gt;"}
<1>1. Escapes(E1, K, S1)
  BY EscapesFirst
<1>2. Further(S1, "<", "lt;") /\ Further(S2, ">", "gt;")
  <2>1. {"lt;", "gt;"} \subseteq Reference /\ S1 \subseteq Reference /\ S2 \subseteq Reference
    BY Zenon DEF Reference
  <2>2. /\ "<" # "&" /\ \A ref \in S1 : Referenced(ref) # "<"
        /\ ">" # "&" /\ \A ref \in S2 : Referenced(ref) # ">"
    BY ReferencesApart, Zenon
  <2> HIDE DEF S1, S2
  <2> QED BY <2>1, <2>2, ReferencesApart, Zenon DEF Further
<1>3. E3 = [s \in Seq(K) |-> escape_cdata(s)]
  BY DEF escape_cdata, Then
<1>4. S3 = {"amp;", "lt;", "gt;"}
  OBVIOUS
<1>5. Escapes(E2, K, S2)
  <2> HIDE DEF E1, S1
  <2> QED BY <1>1, <1>2, EscapesNext
<1>6. Escapes(E3, K, S3)
  <2> HIDE DEF E2, S2
  <2> QED BY <1>2, <1>5, EscapesNext
<1> HIDE DEF E3, S3
<1> QED BY <1>3, <1>4, <1>6

LEMMA AttribEscapes ==
    ASSUME NEW K, Alphabet(K)
    PROVE  Escapes([s \in Seq(K) |-> escape_attrib(s)], K, Reference)
<1> DEFINE E3 == [s \in Seq(K) |-> escape_cdata(s)]
           E4 == Then(E3, K, "\"", "quot;")
           E5 == Then(E4, K, "\n", "#10;")
           S3 == {"amp;", "lt;", "gt;"}
           S4 == S3 \cup {"quot;"}
           S5 == S4 \cup {"#10;"}
<1>1. Escapes(E3, K, S3)
  BY CdataEscapes
<1>2. Further(S3, "\"", "quot;") /\ Further(S4, "\n", "#10;")
  <2>1. {"quot;", "#10;"} \subseteq Reference /\ S3 \subseteq Reference /\ S4 \subseteq Reference
    BY Zenon DEF Reference
  <2>2. /\ "\"" # "&" /\ \A ref \in S3 : Referenced(ref) # "\""
        /\ "\n" # "&" /\ \A ref \in S4 : Referenced(ref) # "\n"
    BY ReferencesApart, Zenon
  <2> HIDE DEF S3, S4
  <2> QED BY <2>1, <2>2, ReferencesApart, Zenon DEF Further
<1>3. E5 = [s \in Seq(K) |-> escape_attrib(s)]
  BY DEF escape_attrib, Then
<1>4. S5 = Reference
  BY DEF Reference
<1>5. Escapes(E4, K, S4)
  <2> HIDE DEF E3, S3
  <2> QED BY <1>1, <1>2, EscapesNext
<1>6. Escapes(E5, K, S5)
  <2> HIDE DEF E4, S4
  <2> QED BY <1>2, <1>5, EscapesNext
<1> HIDE DEF E5, S5
<1> QED BY <1>3, <1>4, <1>6

(* A parser reads the references of S as what they stand for, and any other *)
(* character c as sp[c].                                                   *)
ReadAs(C, S, attribute, sp) ==
    /\ attribute \in BOOLEAN /\ "amp;" \in S /\ S \subseteq Reference
    /\ DOMAIN sp = C /\ sp \in [C -> ReadOf(C)]
    /\ \A c \in C : IF \E ref \in S : c = Referenced(ref) THEN sp[c] = c
                    ELSE Plain(c, attribute) = <<sp[c]>>

LEMMA EscapedComesBack ==
    ASSUME NEW C, "\r" \notin C, NEW S, NEW attribute \in BOOLEAN, NEW sp, ReadAs(C, S, attribute, sp),
           NEW F, Escapes(F, WrittenOf(C), S)
    PROVE  \A s \in Seq(C) : Decoded(F[s], attribute) = Each(s, sp)
<1> DEFINE K == WrittenOf(C)
           M == ReadOf(C)
           D == [t \in Seq(K) |-> Decoded(t, attribute)]
<1>1. Alphabet(K) /\ Decodable(K, M) /\ C \subseteq K
  BY WrittenIs
<1>2. Escapes(F, K, S) /\ Translation(F, K)
  BY DEF Escapes
<1>3. attribute \in BOOLEAN /\ S \subseteq Reference /\ sp \in [C -> M] /\ "amp;" \in S
  BY Zenon DEF ReadAs
<1>11. attribute \in BOOLEAN
  BY <1>3
<1> HIDE DEF K, M
<1>4. <<>> \in Seq(K)
  BY EmptySeq
<1>5. \A y \in Seq(K) : D[y] \in Seq(M) /\ D[y] = Decoded(y, attribute)
  BY <1>1, <1>3, DecodedHead
<1>6. D \in [Seq(K) -> Seq(M)] /\ D[<<>>] = <<>>
  BY <1>1, <1>3, <1>4, <1>5, DecodedHead
<1> HIDE DEF D
<1>7. ASSUME NEW c \in C, NEW y \in Seq(K) PROVE D[Cat(F[<<c>>], y)] = Cat(<<sp[c]>>, D[y])
  <2>1. ASSUME NEW p \in Seq(K) PROVE Cat(p, y) \in Seq(K)
    BY CatAssociative
  <2>2. <<c>> \in Seq(K) /\ c \in K /\ F \in [Seq(K) -> Seq(K)]
    BY <1>1, <1>2, OneAndTwo DEF Translation
  <2>3. F[<<c>>] \in Seq(K)
    BY <2>2
  <2>4. D[Cat(F[<<c>>], y)] = Decoded(Cat(F[<<c>>], y), attribute) /\ D[y] = Decoded(y, attribute)
    BY <1>5, <2>1, <2>3
  <2>5. CASE \E ref \in S : c = Referenced(ref)
    <3>1. PICK ref \in S : c = Referenced(ref)
      BY <2>5
    <3>2. F[<<c>>] = <<"&", ref>>
      BY <1>2, <3>1, Zenon DEF Escapes
    <3>3. "&" \in K /\ ref \in Reference \cap K
      BY <1>1, <1>3, <3>1, Zenon DEF Alphabet
    <3>4. Decoded(Cat(<<"&", ref>>, y), attribute) = Cat(<<Referenced(ref)>>, Decoded(y, attribute))
      BY <1>1, <1>11, <3>3, DecodedHead
    <3>5. sp[c] = c
      BY <2>5, Zenon DEF ReadAs
    <3> QED BY <2>4, <3>1, <3>2, <3>4, <3>5, Zenon
  <2>6. CASE \A ref \in S : c # Referenced(ref)
    <3>1. F[<<c>>] = <<c>>
      BY <1>2, <2>2, <2>6, Zenon DEF Escapes
    <3>2. c \in K \ {"&"}
      BY <1>3, <2>2, <2>6, ReferencesApart, Zenon
    <3>3. Decoded(Cat(<<c>>, y), attribute) = Cat(Plain(c, attribute), Decoded(y, attribute))
      BY <1>1, <1>11, <3>2, DecodedHead
    <3>4. Plain(c, attribute) = <<sp[c]>>
      BY <2>6, Zenon DEF ReadAs
    <3> QED BY <2>4, <3>1, <3>3, <3>4, Zenon
  <2> QED BY <2>5, <2>6
<1>8. PutsBack(D, F, sp, C, K, M)
  BY <1>1, <1>2, <1>3, <1>6, <1>7 DEF PutsBack
<1>9. \A s \in Seq(C) : D[F[s]] = Each(s, sp)
  BY <1>8, ComesBack
<1>10. \A s \in Seq(C) : F[s] \in Seq(K)
  <2>1. \A s \in Seq(C) : s \in Seq(K)
    BY <1>1
  <2> QED BY <1>2, <2>1 DEF Translation
<1> QED BY <1>5, <1>9, <1>10

(* What escape_cdata makes of a text of any characters, entities and       *)
(* markup among them, a parser reads as that text; but for carriage        *)
(* returns, which _escape_cdata writes as they are (LineEnds in XmlTree).  *)
THEOREM CdataComesBack ==
    ASSUME NEW C, "\r" \notin C, NEW s \in Seq(C)
    PROVE  Decoded(escape_cdata(s), FALSE) = s
<1> DEFINE K == WrittenOf(C)
           F == [t \in Seq(K) |-> escape_cdata(t)]
           S == {"amp;", "lt;", "gt;"}
           sp == [c \in C |-> c]
<1>1. Alphabet(K) /\ C \subseteq K /\ C \subseteq ReadOf(C)
  BY WrittenIs, Zenon DEF ReadOf
<1>2. ReadAs(C, S, FALSE, sp)
  <2>1. "amp;" \in S /\ S \subseteq Reference
    BY Zenon DEF Reference
  <2>2. DOMAIN sp = C /\ sp \in [C -> ReadOf(C)] /\ \A c \in C : sp[c] = c
    BY <1>1
  <2>3. ASSUME NEW c \in C, \A ref \in S : c # Referenced(ref) PROVE Plain(c, FALSE) = <<c>>
    <3>1. c # "<" /\ c # "\r"
      BY <2>3, ReferencesApart, Zenon
    <3> QED BY <3>1 DEF Plain
  <2> HIDE DEF S, sp
  <2> QED BY <2>1, <2>2, <2>3 DEF ReadAs
<1>3. Escapes(F, WrittenOf(C), S)
  BY <1>1, CdataEscapes
<1>4. F[s] = escape_cdata(s) /\ Each(s, sp) = s
  BY <1>1 DEF Each
<1> HIDE DEF F, S, sp
<1>5. Decoded(F[s], FALSE) = Each(s, sp)
  <2> DEFINE attribute == FALSE
  <2>1. attribute \in BOOLEAN /\ ReadAs(C, S, attribute, sp)
    BY <1>2
  <2> HIDE DEF attribute
  <2>2. \A t \in Seq(C) : Decoded(F[t], attribute) = Each(t, sp)
    BY <1>3, <2>1, EscapedComesBack
  <2> QED BY <2>2 DEF attribute
<1> QED BY <1>4, <1>5

(* What escape_attrib makes of a value of any characters, quotes and line  *)
(* ends among them, a parser reads as that value, with a space for a tab;  *)
(* but for carriage returns, which _escape_attrib writes as they are.      *)
THEOREM AttribComesBack ==
    ASSUME NEW C, "\r" \notin C, NEW s \in Seq(C)
    PROVE  Decoded(escape_attrib(s), TRUE) = Spaced(s)
<1> DEFINE K == WrittenOf(C)
           F == [t \in Seq(K) |-> escape_attrib(t)]
           sp == [c \in C |-> IF c = "\t" THEN " " ELSE c]
<1>1. Alphabet(K) /\ C \subseteq K /\ C \subseteq ReadOf(C) /\ " " \in ReadOf(C)
  BY WrittenIs, Zenon DEF ReadOf
<1>2. ReadAs(C, Reference, TRUE, sp)
  <2>1. "amp;" \in Reference
    BY Zenon DEF Reference
  <2>2. /\ DOMAIN sp = C /\ sp \in [C -> ReadOf(C)]
        /\ \A c \in C : sp[c] = IF c = "\t" THEN " " ELSE c
    BY <1>1
  <2>3. ASSUME NEW c \in C, \A ref \in Reference : c # Referenced(ref)
        PROVE  Plain(c, TRUE) = <<sp[c]>>
    <3>1. c # "<" /\ c # "\"" /\ c # "\n" /\ c # "\r"
      BY <2>3, ReferencesApart, Zenon DEF Reference
    <3>2. Plain(c, TRUE) = IF c = "\t" THEN <<" ">> ELSE <<c>>
      BY <3>1 DEF Plain
    <3> QED BY <2>2, <3>2
  <2>4. \A ref \in Reference : Referenced(ref) # "\t"
    BY ReferencesApart, Zenon DEF Reference
  <2> HIDE DEF sp
  <2> QED BY <2>1, <2>2, <2>3, <2>4 DEF ReadAs
<1>3. Escapes(F, WrittenOf(C), Reference)
  BY <1>1, AttribEscapes
<1>4. F[s] = escape_attrib(s) /\ Each(s, sp) = Spaced(s)
  <2>1. s \in Seq(K)
    <3>1. C \subseteq K
      BY <1>1
    <3> HIDE DEF K, F, sp
    <3> QED BY <3>1
  <2>2. \A i \in DOMAIN s : s[i] \in C
    OBVIOUS
  <2>3. \A i \in DOMAIN s : sp[s[i]] = IF s[i] \in {"\t", "\r"} THEN " " ELSE s[i]
    BY <2>2
  <2>4. Each(s, sp) = Spaced(s)
    <3> HIDE DEF sp
    <3> QED BY <2>3 DEF Each, Spaced
  <2>5. F[s] = escape_attrib(s)
    BY <2>1
  <2> QED BY <2>4, <2>5
<1> HIDE DEF F, sp
<1>5. Decoded(F[s], TRUE) = Each(s, sp)
  <2> DEFINE attribute == TRUE
  <2>1. attribute \in BOOLEAN /\ ReadAs(C, Reference, attribute, sp)
    BY <1>2
  <2> HIDE DEF attribute
  <2>2. \A t \in Seq(C) : Decoded(F[t], attribute) = Each(t, sp)
    BY <1>3, <2>1, EscapedComesBack
  <2> QED BY <2>2 DEF attribute
<1> QED BY <1>4, <1>5
=============================================================================
