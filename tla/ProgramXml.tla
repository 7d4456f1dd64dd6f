------------------------------ MODULE ProgramXml ------------------------------
(***************************************************************************)
(* The file that HeptaneExtract writes and HeptaneAnalysis reads (the      *)
(* WriteXml and ReadXml of cfglib, Handle.cc).                             *)
(*                                                                         *)
(* A program has an entry and a sequence of graphs; a graph has names, an  *)
(* address, a start, nodes, edges, loops and a set of end nodes.  A        *)
(* pointer is the place of an object: that of a graph, or of a node, an    *)
(* edge or a loop in its graph.  A file is the sequence of its opening     *)
(* tags.  The attributes of the objects and the identifiers of the         *)
(* instructions, to which nothing points, are left out.                    *)
(***************************************************************************)
EXTENDS Integers, Sequences, SequencesExt, FiniteSets, TLC

Nowhere      == <<>>
PlaceOf(c)   == <<c>>
NodeAt(c, n) == <<c, "node", n>>
EdgeAt(c, e) == <<c, "edge", e>>
LoopAt(c, l) == <<c, "loop", l>>

(* CreateNewCfg: a graph without nodes, that of an external function. *)
NewCfg(names, addr) ==
  [names |-> names, addr |-> addr, external |-> TRUE, start |-> Nowhere, nodes |-> <<>>,
   edges |-> <<>>, endNodes |-> {}, loops |-> <<>>]

(* CreateNewNode: the first node is the start, and the graph is external   *)
(* no longer.                                                              *)
CreateNewNode(cfg, c, node) ==
  [cfg EXCEPT !.external = FALSE, !.nodes = Append(@, node),
              !.start = IF cfg.nodes = <<>> THEN NodeAt(c, 1) ELSE @]

(* The first graph that has a name, 0 if there is none. *)
GetCfgByName(program, name) ==
  SelectInSeq(program.cfgs, LAMBDA cfg : name \in ToSet(cfg.names))

(* The function a node calls is found by its name. *)
GetCallee(program, node) == GetCfgByName(program, node.callee_name)
-----------------------------------------------------------------------------
(* Writing.  Every object gets an identifier of its own; so does the null  *)
(* pointer, the start of a graph without nodes.                            *)

Handle(program) ==
  <<Nowhere>> \o
  FlattenSeq([c \in DOMAIN program.cfgs |->
    LET cfg == program.cfgs[c]
    IN  <<PlaceOf(c)>> \o [n \in DOMAIN cfg.nodes |-> NodeAt(c, n)]
          \o [e \in DOMAIN cfg.edges |-> EdgeAt(c, e)] \o [l \in DOMAIN cfg.loops |-> LoopAt(c, l)]])

identify(hand, place) == SelectInSeq(hand, LAMBDA p : p = place)

IdsOf(hand, places) == {identify(hand, p) : p \in places}

Node_WriteXml(hand, c, n, node) ==
  [tag |-> "NODE", id |-> identify(hand, NodeAt(c, n)), type |-> node.type,
   called |-> node.callee_name, instructions |-> node.instructions]

(* The word NULL, which is nobody's identifier. *)
NullWord == 0

Edge_WriteXml(hand, c, e, edge) ==
  [tag |-> "EDGE", id |-> identify(hand, EdgeAt(c, e)), origin |-> identify(hand, edge.origin),
   destination |-> IF edge.destination = Nowhere THEN NullWord ELSE identify(hand, edge.destination)]

Loop_WriteXml(hand, c, l, loop) ==
  [tag |-> "LOOP", id |-> identify(hand, LoopAt(c, l)), head |-> identify(hand, loop.head),
   nodes |-> IdsOf(hand, loop.nodes), backedges |-> IdsOf(hand, loop.backedges)]

(* The names in one string, without the space an empty first name leaves,  *)
(* and with a last space: the words and the empty one after it.            *)
getStringName(names) == IF Head(names) = "" THEN Tail(names) ELSE names

Cfg_WriteXml(hand, c, cfg) ==
  <<[tag |-> "CFG", id |-> identify(hand, PlaceOf(c)), name |-> getStringName(cfg.names) \o <<"">>,
     startnode |-> identify(hand, cfg.start), endnodes |-> IdsOf(hand, cfg.endNodes)]>>
    \o [n \in DOMAIN cfg.nodes |-> Node_WriteXml(hand, c, n, cfg.nodes[n])]
    \o [e \in DOMAIN cfg.edges |-> Edge_WriteXml(hand, c, e, cfg.edges[e])]
    \o [l \in DOMAIN cfg.loops |-> Loop_WriteXml(hand, c, l, cfg.loops[l])]

Program_WriteXml(program) ==
  LET hand == Handle(program)
  IN  <<[tag |-> "PROGRAM", entry |-> identify(hand, program.entry)]>>
        \o FlattenSeq([c \in DOMAIN program.cfgs |-> Cfg_WriteXml(hand, c, program.cfgs[c])])
-----------------------------------------------------------------------------
(* Reading.  The objects are created in the order of the file; until all   *)
(* are there, their pointers hold identifiers, which may be those of       *)
(* objects further on.  id_serialisable maps the identifiers met to the    *)
(* places of their objects.                                                *)

(* An identifier met twice fails an assertion. *)
addID_serialisable(file, id, place) ==
  [file EXCEPT !.id_serialisable = (id :> place) @@ @,
               !.defined = @ /\ id \notin DOMAIN file.id_serialisable]

(* The address is not read: it is 0.  The names are put at the front of    *)
(* their list; the start of a graph without nodes has an identifier too,   *)
(* so that no graph is external.                                           *)
Cfg_ReadXml(file, tag) ==
  LET cfg == [NewCfg(Reverse(tag.name), 0) EXCEPT !.external = FALSE, !.endNodes = tag.endnodes]
  IN  addID_serialisable([file EXCEPT !.cfgs = Append(@, cfg), !.startid = tag.startnode],
                         tag.id, PlaceOf(Len(file.cfgs) + 1))

(* The others are children of the last graph.  A node that makes a call    *)
(* must name the function; no call node is made the start.                 *)
Node_ReadXml(file, tag) ==
  LET c     == Len(file.cfgs)
      node  == [type |-> tag.type, callee_name |-> tag.called, instructions |-> tag.instructions]
      cfg   == CreateNewNode(file.cfgs[c], c, node)
      place == NodeAt(c, Len(cfg.nodes))
  IN  addID_serialisable(
        [file EXCEPT !.cfgs[c] = IF tag.type = "BasicBlock" /\ tag.id = file.startid
                                   THEN [cfg EXCEPT !.start = place] ELSE cfg,
                     !.defined = @ /\ (tag.type = "FunctionCall" => tag.called # "")],
        tag.id, place)

Edge_ReadXml(file, tag) ==
  LET c    == Len(file.cfgs)
      edge == [origin |-> tag.origin, destination |-> tag.destination]
  IN  addID_serialisable([file EXCEPT !.cfgs[c].edges = Append(@, edge)],
                         tag.id, EdgeAt(c, Len(file.cfgs[c].edges) + 1))

Loop_ReadXml(file, tag) ==
  LET c    == Len(file.cfgs)
      loop == [head |-> tag.head, nodes |-> tag.nodes, backedges |-> tag.backedges]
  IN  addID_serialisable(
        [file EXCEPT !.cfgs[c].loops = Append(@, loop),
                     !.defined = @ /\ tag.nodes # {} /\ tag.backedges # {}],
        tag.id, LoopAt(c, Len(file.cfgs[c].loops) + 1))

ReadTag(file, tag) ==
  CASE tag.tag = "CFG"  -> Cfg_ReadXml(file, tag)
    [] tag.tag = "NODE" -> Node_ReadXml(file, tag)
    [] tag.tag = "EDGE" -> Edge_ReadXml(file, tag)
    [] tag.tag = "LOOP" -> Loop_ReadXml(file, tag)

(* The identifiers the pointers hold. *)
Handles(file) ==
  {file.entry} \cup
  UNION {LET cfg == file.cfgs[c]
         IN  cfg.endNodes \cup UNION {{e.origin, e.destination} : e \in ToSet(cfg.edges)}
               \cup UNION {{l.head} \cup l.nodes \cup l.backedges : l \in ToSet(cfg.loops)} :
         c \in DOMAIN file.cfgs}

(* Mutant of addID_handle: the first object of its graph. *)
addID_handleFirst(file, id) == NodeAt(file.id_serialisable[id][1], 1)

(* The object a pointer is set to, now or when it is created. *)
addID_handle(file, id) == file.id_serialisable[id]

(* The program, once every identifier is known; an assertion says it is.   *)
resolveHandles(file) ==
  LET set(ids) == {addID_handle(file, id) : id \in ids}
      edge(e)  == [origin      |-> addID_handle(file, e.origin),
                   destination |-> addID_handle(file, e.destination)]
      loop(l)  == [head |-> addID_handle(file, l.head), nodes |-> set(l.nodes),
                   backedges |-> set(l.backedges)]
      cfg(g)   == [g EXCEPT !.endNodes = set(@),
                            !.edges = [e \in DOMAIN @ |-> edge(@[e])],
                            !.loops = [l \in DOMAIN @ |-> loop(@[l])]]
  IN  IF ~ file.defined \/ ~ Handles(file) \subseteq DOMAIN file.id_serialisable
        THEN [defined |-> FALSE]
      ELSE [defined |-> TRUE,
            program |-> [entry |-> addID_handle(file, file.entry),
                         cfgs  |-> [c \in DOMAIN file.cfgs |-> cfg(file.cfgs[c])]]]

Program_ReadXml(tags) ==
  resolveHandles(
    FoldLeft(ReadTag,
             [entry |-> Head(tags).entry, cfgs |-> <<>>, startid |-> 0, id_serialisable |-> <<>>,
              defined |-> TRUE],
             Tail(tags)))
=============================================================================
