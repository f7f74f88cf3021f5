---------------------------- MODULE MCSizedRequests ----------------------------
EXTENDS SizedRequests

(* Lengths below, at and above half a granularity of 10. *)
Lengths == {0, 4, 15, 30}

Query(w, h, op, g, fp, cb, canvas) ==
    [size |-> [w |-> w, h |-> h], op |-> op, g |-> g, fp |-> fp, cb |-> cb, canvas |-> canvas]

(* Every size with every operation. *)
PlainQueries ==
    {Query(w, h, op, g, << >>, NoBox, << >>) :
        w \in Lengths, h \in Lengths, op \in Ops, g \in {1, 10}}

(* Focal points at the edges, and close to each other and to the defaults. *)
PointQueries ==
    {Query(w, 30 - w, op, 1, fp, NoBox, << >>) :
        w \in {0, 4, 15}, op \in CropOps,
        fp \in {<<0, 1000>>, <<1000, 0>>, <<504, 334>>, <<496, 326>>, <<540, 330>>}}

BoxQueries ==
    {Query(w, 15, op, 10, << >>, cb, << >>) :
        w \in {0, 30}, op \in {"cover", "contain", "exact"},
        cb \in {<<100, 100, 900, 500>>, <<500, 0, 400, 1000>>}}

CanvasQueries ==
    {Query(w, h, "fitted", 1, << >>, NoBox, canvas) :
        w \in {0, 30}, h \in {0, 15, 30}, canvas \in {<<20, 10>>, <<10, 20>>, <<50, 50>>, <<1, 1>>}}

MCQueries == PlainQueries \cup PointQueries \cup BoxQueries \cup CanvasQueries

MCSources == {[w |-> 40, h |-> 30], [w |-> 31, h |-> 47], [w |-> 300, h |-> 2]}
===============================================================================
