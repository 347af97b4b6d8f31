------------------------------ MODULE XmlTree ------------------------------
(***************************************************************************)
(* services/tomcat/xml: how post-tomcat.py reads a configuration file into *)
(* a tree and writes the tree back over the file.  CommentTreeBuilder      *)
(* receives the calls of expat, the TreeBuilder behind it builds the       *)
(* elements, NoisyElementTree picks the comments outside the root, and     *)
(* write, _namespaces and _serialize_xml produce the new file.             *)
(***************************************************************************)
EXTENDS XmlText, FiniteSets, TLC

CONSTANTS
    Name,       \* names of elements and attributes: <<namespace, local name>>
    StartTag,   \* start tags of a document: <<name, attributes>>
    Text,       \* pieces of character data
    CommentText,\* texts of comments
    NoUri,      \* the namespace of a name without one
    XmlUri,     \* the namespace that is never declared
    WellKnown,  \* _namespace_map: the prefix of some namespaces
    Comment,    \* the function that marks the tag of a comment
    None,
    MaxTokens   \* bound: parts of the document

Uri == {name[1] : name \in Name} \ {NoUri}
Numbered(n) == <<"ns", n>>

ASSUME XmlTreeAssumption ==
    /\ MaxTokens \in Nat
    /\ \A tag \in StartTag :
         tag[1] \in Name /\ DOMAIN tag[2] \subseteq Name /\ IsFiniteSet(DOMAIN tag[2])
    /\ Comment \notin Name /\ None \notin CommentText
    /\ XmlUri \in DOMAIN WellKnown
    /\ \A u, v \in DOMAIN WellKnown : WellKnown[u] = WellKnown[v] => u = v
    /\ \A u \in DOMAIN WellKnown : Len(WellKnown[u]) = 1  \* never of the form "ns%d"

VARIABLES
    doc,        \* what the file holds, as far as expat has read it
    open,       \* elements whose end tag expat still expects
    phase,
    elems,      \* the Element objects, in the order of their creation
    stack,      \* TreeBuilder._elem
    last,       \* TreeBuilder._last (0: None)
    tail,       \* TreeBuilder._tail
    data,       \* TreeBuilder._data
    listed,     \* CommentTreeBuilder._commentElemList
    root,       \* NoisyElementTree._root (0: None)
    prior,      \* NoisyElementTree._comments_prior_root
    prefixes,   \* the dictionary of _namespaces
    names,      \* names of the element in the loop of _namespaces
    work,       \* what the loop or the recursion of write has still to do
    file        \* what has been written

builder == <<elems, stack, last, tail, data>>
writer == <<root, prior, prefixes, names, work, file>>
vars == <<doc, open, phase, elems, stack, last, tail, data, listed, root, prior,
          prefixes, names, work, file>>

Phases == {"parse", "tree", "prolog", "names", "serialize", "done",
           "parse error", "assertion", "type error"}

Fail(how) ==
    /\ phase' = how
    /\ UNCHANGED <<builder, listed, writer>>

----------------------------------------------------------------------------
(* TreeBuilder                                                             *)

Element(tag, attrib) ==
    [tag |-> tag, attrib |-> attrib, text |-> None, tail |-> None, kids |-> <<>>]

Flushes == data # <<>> /\ last # 0

(* The assertions of _flush: "internal error (tail)", "... (text)".        *)
FlushAsserts ==
    Flushes => (IF tail THEN elems[last].tail ELSE elems[last].text) = None

Flushed ==
    IF ~Flushes THEN elems
    ELSE IF tail THEN [elems EXCEPT ![last].tail = FlattenSeq(data)]
    ELSE [elems EXCEPT ![last].text = FlattenSeq(data)]

(* The elements after start(tag, attrs), data collected before included.   *)
Started(tag, attrib) ==
    Append(IF stack = <<>> THEN Flushed
           ELSE [Flushed EXCEPT ![Last(stack)].kids = Append(@, Len(elems) + 1)],
           Element(tag, attrib))

(* The assertions of end, "end tag mismatch" among them.                   *)
EndAsserts(tag) == FlushAsserts /\ stack # <<>> /\ elems[Last(stack)].tag = tag

(* The assertions of close: "missing end tags", "missing toplevel element".*)
CloseAsserts == stack = <<>> /\ last # 0

----------------------------------------------------------------------------
(* The calls of expat.  It hands on well-formed documents only: one root,  *)
(* balanced tags, character data inside the root, comments and processing  *)
(* instructions anywhere, a document type before the root.                 *)

Reads(token) ==
    /\ phase = "parse"
    /\ Len(doc) + Len(open) < MaxTokens
    /\ doc' = Append(doc, token)

InRoot == open # <<>>
RootSeen == \E i \in DOMAIN doc : doc[i].kind = "start"

(* Fault: start does not leave the state after an end tag.                 *)
StartElementTail(name, attrib) ==
    /\ InRoot \/ ~RootSeen
    /\ Len(doc) + Len(open) + 1 < MaxTokens
    /\ Reads([kind |-> "start", name |-> name, attrib |-> attrib])
    /\ open' = Append(open, name)
    /\ IF ~FlushAsserts THEN Fail("assertion")
       ELSE /\ elems' = Started(name, attrib)
            /\ last' = Len(elems) + 1
            /\ stack' = Append(stack, Len(elems) + 1)
            /\ data' = <<>>
            /\ UNCHANGED <<phase, tail, listed, writer>>

(* _start_list: the names and values of the start tag, then start.         *)
StartElement(name, attrib) ==
    /\ InRoot \/ ~RootSeen
    /\ Len(doc) + Len(open) + 1 < MaxTokens
    /\ Reads([kind |-> "start", name |-> name, attrib |-> attrib])
    /\ open' = Append(open, name)
    /\ IF ~FlushAsserts THEN Fail("assertion")
       ELSE /\ elems' = Started(name, attrib)
            /\ last' = Len(elems) + 1
            /\ stack' = Append(stack, Len(elems) + 1)
            /\ tail' = FALSE
            /\ data' = <<>>
            /\ UNCHANGED <<phase, listed, writer>>

Ends ==
    /\ phase = "parse" /\ InRoot
    /\ doc' = Append(doc, [kind |-> "end"])
    /\ open' = Front(open)

(* Fault: the element is not taken off the stack.                          *)
EndElementKept ==
    /\ Ends
    /\ IF ~EndAsserts(Last(open)) THEN Fail("assertion")
       ELSE /\ elems' = Flushed
            /\ data' = <<>>
            /\ last' = Last(stack)
            /\ tail' = TRUE
            /\ listed' = Append(listed, Last(stack))
            /\ UNCHANGED <<phase, stack, writer>>

(* Fault: the data is not flushed.                                         *)
EndElementUnflushed ==
    /\ Ends
    /\ IF ~EndAsserts(Last(open)) THEN Fail("assertion")
       ELSE /\ last' = Last(stack)
            /\ stack' = Front(stack)
            /\ tail' = TRUE
            /\ listed' = Append(listed, Last(stack))
            /\ UNCHANGED <<phase, elems, data, writer>>

(* CommentTreeBuilder._end: every element is listed, not comments alone.   *)
EndElement ==
    /\ Ends
    /\ IF ~EndAsserts(Last(open)) THEN Fail("assertion")
       ELSE /\ elems' = Flushed
            /\ data' = <<>>
            /\ last' = Last(stack)
            /\ stack' = Front(stack)
            /\ tail' = TRUE
            /\ listed' = Append(listed, Last(stack))
            /\ UNCHANGED <<phase, writer>>

(* _data.  expat may hand on one text in several pieces.                   *)
CharacterData(text) ==
    /\ InRoot
    /\ Reads([kind |-> "data", text |-> text])
    /\ data' = Append(data, text)
    /\ UNCHANGED <<open, phase, elems, stack, last, tail, listed, writer>>

(* handle_comment: start, data and end of an element of its own, outside   *)
(* the root one without a parent.                                          *)
HandleComment(text) ==
    /\ Reads([kind |-> "comment", text |-> text])
    /\ IF ~FlushAsserts THEN Fail("assertion")
       ELSE /\ elems' = [Started(Comment, <<>>) EXCEPT ![Len(elems) + 1].text = text]
            /\ last' = Len(elems) + 1
            /\ tail' = TRUE
            /\ data' = <<>>
            /\ listed' = Append(listed, Len(elems) + 1)
            /\ UNCHANGED <<phase, stack, writer>>
    /\ UNCHANGED open

(* _pi looks for a method of the target that TreeBuilder does not have.    *)
ProcessingInstruction ==
    /\ Reads([kind |-> "pi"])
    /\ UNCHANGED <<open, phase, builder, listed, writer>>

(* _default collects the parts of a document type declaration, for a       *)
(* method of the target that TreeBuilder does not have either.             *)
Doctype ==
    /\ ~RootSeen /\ \A i \in DOMAIN doc : doc[i].kind # "doctype"
    /\ Reads([kind |-> "doctype"])
    /\ UNCHANGED <<open, phase, builder, listed, writer>>

(* _default raises on an entity that nobody declared.                      *)
UndefinedEntity ==
    /\ InRoot
    /\ Reads([kind |-> "entity"])
    /\ Fail("parse error")
    /\ UNCHANGED open

(* feed and close raise for a document that is not well-formed.            *)
RaiseError ==
    /\ phase = "parse"
    /\ Fail("parse error")
    /\ UNCHANGED <<doc, open>>

----------------------------------------------------------------------------
(* NoisyElementTree.parse                                                  *)

(* The elements of Element.iter: an element and all below it.              *)
Iter ==
    LET from[e \in DOMAIN elems] == {e} \cup UNION {from[k] : k \in Range(elems[e].kids)}
    IN from

(* The listed elements that are not in a set, in their order.              *)
Outside(inside) ==
    LET upto[i \in 0..Len(listed)] ==
            IF i = 0 THEN <<>>
            ELSE upto[i - 1] \o (IF listed[i] \in inside THEN <<>> ELSE <<listed[i]>>)
    IN upto[Len(listed)]

(* TreeBuilder.close returns the last element; the listed ones that are    *)
(* not below it are kept aside.                                            *)
EndDocument ==
    /\ phase = "parse" /\ ~InRoot /\ RootSeen
    /\ IF ~CloseAsserts THEN Fail("assertion")
       ELSE /\ root' = last
            /\ \E below \in {Iter[last]} : prior' = Outside(below)
            /\ phase' = "tree"
            /\ UNCHANGED <<builder, listed, prefixes, names, work, file>>
    /\ UNCHANGED <<doc, open>>

----------------------------------------------------------------------------
(* NoisyElementTree.write, with method "xml", encoding and declaration     *)

Writes == UNCHANGED <<doc, open, builder, listed, root, prior>>

(* open(..., "wb") empties the file.                                       *)
WriteBegin ==
    /\ phase = "tree"
    /\ phase' = "prolog"
    /\ file' = <<[kind |-> "declaration"]>>
    /\ work' = prior
    /\ UNCHANGED <<prefixes, names>>
    /\ Writes

(* _encode raises TypeError for an element without text.                   *)
Encodable(text) == text # None

(* Whatever parse kept aside is written as a comment.                      *)
WriteComment ==
    /\ phase = "prolog" /\ work # <<>>
    /\ IF ~Encodable(elems[Head(work)].text)
         THEN phase' = "type error" /\ UNCHANGED <<work, file>>
         ELSE /\ work' = Tail(work)
              /\ file' = Append(file, [kind |-> "comment", text |-> elems[Head(work)].text])
              /\ UNCHANGED phase
    /\ UNCHANGED <<prefixes, names>>
    /\ Writes

WriteCommentsDone ==
    /\ phase = "prolog" /\ work = <<>>
    /\ phase' = "names"
    /\ work' = <<root>>
    /\ prefixes' = <<>>
    /\ UNCHANGED <<names, file>>
    /\ Writes

Prefixed(known, uri, prefix) ==
    [u \in DOMAIN known \cup {uri} |-> IF u = uri THEN prefix ELSE known[u]]

(* Fault: prefixes are numbered by the namespaces without a known prefix.  *)
add_qname_unknown(known, name) ==
    IF name[1] \in {NoUri, XmlUri} \cup DOMAIN known THEN known
    ELSE Prefixed(known, name[1],
                  IF name[1] \in DOMAIN WellKnown THEN WellKnown[name[1]]
                  ELSE Numbered(Cardinality(DOMAIN known \cap DOMAIN WellKnown)))

(* add_qname: a well-known prefix, or a new one with the number of the     *)
(* namespaces before; the namespace of "xml" is not recorded.              *)
add_qname(known, name) ==
    IF name[1] \in {NoUri, XmlUri} \cup DOMAIN known THEN known
    ELSE Prefixed(known, name[1],
                  IF name[1] \in DOMAIN WellKnown THEN WellKnown[name[1]]
                  ELSE Numbered(Cardinality(DOMAIN known)))

Qname(name) ==
    <<IF name[1] = NoUri THEN None
      ELSE IF name[1] \in DOMAIN prefixes THEN prefixes[name[1]] ELSE WellKnown[name[1]],
      name[2]>>

(* The loop of _namespaces: an element, with those below it still to come  *)
(* from its iter; its tag, and its attributes in the order of the          *)
(* dictionary, ...                                                         *)
NextElement ==
    /\ phase = "names" /\ names = <<>> /\ work # <<>>
    /\ \E e \in {elems[Head(work)]} :
         /\ work' = e.kids \o Tail(work)
         /\ IF e.tag = Comment THEN UNCHANGED names
            ELSE names' \in {<<e.tag>> \o keys : keys \in SetToSeqs(DOMAIN e.attrib)}
    /\ UNCHANGED <<phase, prefixes, file>>
    /\ Writes

(* ... one name after the other.                                           *)
AddName ==
    /\ phase = "names" /\ names # <<>>
    /\ prefixes' = add_qname(prefixes, Head(names))
    /\ names' = Tail(names)
    /\ UNCHANGED <<phase, work, file>>
    /\ Writes

NamesDone ==
    /\ phase = "names" /\ names = <<>> /\ work = <<>>
    /\ phase' = "serialize"
    /\ work' = <<[end |-> FALSE, of |-> root]>>
    /\ UNCHANGED <<prefixes, names, file>>
    /\ Writes

----------------------------------------------------------------------------
(* _serialize_xml: the calls that are still to be made are kept in work.   *)

Written(text) ==
    IF text \in {None, <<>>} THEN <<>> ELSE <<[kind |-> "data", text |-> escape_cdata(text)]>>

Encloses(e) == Written(elems[e].text) # <<>> \/ elems[e].kids # <<>>

Tag(e) ==
    [kind |-> IF Encloses(e) THEN "start" ELSE "empty",
     name |-> Qname(elems[e].tag),
     xmlns |-> IF e = root THEN prefixes ELSE <<>>,
     attrib |-> {<<Qname(k), escape_attrib(elems[e].attrib[k])>> : k \in DOMAIN elems[e].attrib}]

SerializeComment ==
    /\ phase = "serialize" /\ work # <<>> /\ ~Head(work).end
    /\ elems[Head(work).of].tag = Comment
    /\ work' = Tail(work)
    /\ file' = file \o <<[kind |-> "comment", text |-> elems[Head(work).of].text]>>
                    \o Written(elems[Head(work).of].tail)
    /\ UNCHANGED <<phase, prefixes, names>>
    /\ Writes

SerializeStart ==
    /\ phase = "serialize" /\ work # <<>> /\ ~Head(work).end
    /\ \E e \in {Head(work).of} :
         /\ elems[e].tag # Comment
         /\ work' = (IF Encloses(e)
                       THEN [i \in DOMAIN elems[e].kids |-> [end |-> FALSE, of |-> elems[e].kids[i]]]
                            \o <<[end |-> TRUE, of |-> e]>>
                       ELSE <<>>) \o Tail(work)
         /\ file' = file \o <<Tag(e)>>
                         \o IF Encloses(e) THEN Written(elems[e].text) ELSE Written(elems[e].tail)
    /\ UNCHANGED <<phase, prefixes, names>>
    /\ Writes

SerializeEnd ==
    /\ phase = "serialize" /\ work # <<>> /\ Head(work).end
    /\ work' = Tail(work)
    /\ file' = file \o <<[kind |-> "end"]>> \o Written(elems[Head(work).of].tail)
    /\ UNCHANGED <<phase, prefixes, names>>
    /\ Writes

WriteDone ==
    /\ phase = "serialize" /\ work = <<>>
    /\ phase' = "done"
    /\ UNCHANGED <<prefixes, names, work, file>>
    /\ Writes

Stopped == phase \in {"done", "parse error", "assertion", "type error"} /\ UNCHANGED vars

----------------------------------------------------------------------------
Init ==
    /\ doc = <<>> /\ open = <<>>
    /\ phase = "parse"
    /\ elems = <<>> /\ stack = <<>> /\ last = 0 /\ tail = FALSE /\ data = <<>>
    /\ listed = <<>> /\ root = 0 /\ prior = <<>>
    /\ prefixes = <<>> /\ names = <<>> /\ work = <<>> /\ file = <<>>

(* The handlers of expat.                                                  *)
Callback ==
    \/ \E tag \in StartTag : StartElement(tag[1], tag[2])
    \/ EndElement
    \/ \E text \in Text : CharacterData(text)
    \/ \E text \in CommentText : HandleComment(text)
    \/ ProcessingInstruction \/ Doctype \/ UndefinedEntity

Parse == Callback \/ RaiseError \/ EndDocument

Write ==
    \/ WriteBegin \/ WriteComment \/ WriteCommentsDone \/ NextElement \/ AddName \/ NamesDone
    \/ SerializeComment \/ SerializeStart \/ SerializeEnd \/ WriteDone

Next == Parse \/ Write \/ Stopped

Spec == Init /\ [][Next]_vars

----------------------------------------------------------------------------
(* Properties                                                              *)

(* Every variable keeps its type: elements refer to later elements only,   *)
(* and the builder's stack holds the elements that expat has open.         *)
TypeOK ==
    /\ phase \in Phases
    /\ \A e \in DOMAIN elems :
         /\ elems[e].tag \in Name \cup {Comment}
         /\ DOMAIN elems[e].attrib \subseteq Name
         /\ Range(elems[e].kids) \subseteq e + 1 .. Len(elems)
    /\ last \in 0..Len(elems) /\ root \in 0..Len(elems)
    /\ Len(stack) = Len(open)
    /\ \A i \in DOMAIN stack : stack[i] \in DOMAIN elems /\ elems[stack[i]].tag = open[i]
    /\ Range(listed) \subseteq DOMAIN elems
    /\ Range(prior) \subseteq Range(listed)
    /\ DOMAIN prefixes \subseteq Uri

(* The assertions of TreeBuilder hold for whatever expat reads: no text or *)
(* tail is set twice, end tags match, and there is a toplevel element.     *)
NoAssertionFails == phase # "assertion"

(* Two namespaces never get one prefix, in whatever order they are met.    *)
PrefixesUnique ==
    \A u, v \in DOMAIN prefixes : prefixes[u] = prefixes[v] => u = v

(* What a document says, whatever it is made of: tags with full names,     *)
(* single characters, comments.                                            *)
Spaced(text) == [i \in DOMAIN text |-> IF text[i] \in {"\t", "\r"} THEN " " ELSE text[i]]

(* A carriage return, which only a reference brings into a text, is not    *)
(* written as a reference: it comes back as a line end.                    *)
Char(c) == [kind |-> "char", char |-> c]

Characters(text) == [i \in DOMAIN text |-> Char(text[i])]

LineEnds(said) ==
    FlattenSeq([i \in DOMAIN said |->
        IF said[i] # Char("\r") THEN <<said[i]>>
        ELSE IF i < Len(said) /\ said[i + 1] = Char("\n") THEN <<>> ELSE <<Char("\n")>>])

Said(token) ==
    CASE token.kind = "start" ->
           <<[kind |-> "start", name |-> token.name,
              attrib |-> {<<k, Spaced(token.attrib[k])>> : k \in DOMAIN token.attrib}]>>
      [] token.kind = "data" -> Characters(token.text)
      [] token.kind \in {"pi", "doctype"} -> <<>>
      [] OTHER -> <<token>>

(* The same of the written file, as a parser reads it.                     *)
Resolved(declared, qname) ==
    <<IF qname[1] = None THEN NoUri
      ELSE IF qname[1] = WellKnown[XmlUri] THEN XmlUri
      ELSE CHOOSE u \in DOMAIN declared : declared[u] = qname[1], qname[2]>>

Read(declared, token) ==
    CASE token.kind \in {"start", "empty"} ->
           <<[kind |-> "start", name |-> Resolved(declared, token.name),
              attrib |-> {<<Resolved(declared, a[1]), Decoded(a[2], TRUE)>> : a \in token.attrib}]>>
           \o IF token.kind = "empty" THEN <<[kind |-> "end"]>> ELSE <<>>
      [] token.kind = "data" -> Characters(Decoded(token.text, FALSE))
      [] token.kind = "declaration" -> <<>>
      [] OTHER -> <<token>>

SameDocument ==
    FlattenSeq([i \in DOMAIN file |-> Read(prefixes, file[i])])
        = LineEnds(FlattenSeq([i \in DOMAIN doc |-> Said(doc[i])]))

(* A comment after the root element, maybe with instructions behind it.    *)
TrailingComment ==
    \E i \in DOMAIN doc :
        /\ doc[i].kind = "comment"
        /\ \A j \in i + 1 .. Len(doc) : doc[j].kind \in {"comment", "pi"}

(* Only such a comment makes write raise.                                  *)
RaisesForTrailing == phase = "type error" => TrailingComment

(* A document without a comment after its root is written completely, and  *)
(* says what it said: elements, attributes, texts, comments inside and     *)
(* before the root, in their order.  Lost are processing instructions, the *)
(* document type, and what Spaced and LineEnds name of tabs and carriage   *)
(* returns.                                                                *)
RoundTrip ==
    /\ phase = "done" /\ ~TrailingComment => SameDocument
    /\ RaisesForTrailing

(* The docstrings: CommentTreeBuilder "keeps XML comments, includes        *)
(* comments outside root", and NoisyElementTree is for a transformation in *)
(* which "you do not want to lose nodes around the root node".             *)
CommentsKept == phase \in {"done", "type error"} => SameDocument
============================================================================
