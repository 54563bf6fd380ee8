--------------------------- MODULE MCBuildSystem ---------------------------
(* Bounded instances of the build system: every import graph of a main     *)
(* file and three modules with at most two imports each, and every single  *)
(* kind of fault the import loop distinguishes.                            *)
EXTENDS BuildSystem, TLC

CONSTANTS a, b, c, d, fm, fa, fb, fc, fd, fa2, bad

MCModule == {a, b, c, d}
MCFile == {fm, fa, fb, fc, fd, fa2, bad}

(* d falls into the bucket of a. *)
MCHash(n) == CASE n = MainNode -> 0 [] n = a -> 1 [] n = b -> 2 [] n = c -> 3 [] n = d -> 1

MCHeader == (fm :> NoModule) @@ (fa :> a) @@ (fb :> b) @@ (fc :> c) @@ (fd :> d)
            @@ (fa2 :> a) @@ (bad :> Corrupt)

SeqUpTo(S, k) == UNION { [1 .. i -> S] : i \in 0 .. k }
Ok(names) == [name : names, form : {"ok"}]

(* The import graphs: only the imports vary. *)
Graphs3 ==
  { [ search    |-> << fm, fa, fb, fc >>,
      header    |-> MCHeader,
      tokenizes |-> MCFile,
      imports   |-> (fm :> im) @@ (fa :> ia) @@ (fb :> ib) @@ (fc :> ic)
                    @@ [f \in {fd, fa2, bad} |-> << >>] ] :
    im \in { s \in SeqUpTo(Ok({a, b, c}), 3) : Len(s) = 3 => s[1] # s[2] /\ s[2] # s[3] },
    ia \in SeqUpTo(Ok({a, b, c}), 1), ib \in SeqUpTo(Ok({a, b, c}), 2),
    ic \in SeqUpTo(Ok({a, b, c}), 1) }

(* The faults: missing, duplicate, corrupt and untokenizable files, bad    *)
(* import statements, a main file that is a module, and a hash collision.  *)
Faulty ==
  { [ search    |-> order_,
      header    |-> [MCHeader EXCEPT ![fm] = h],
      tokenizes |-> t,
      imports   |-> (fm :> im) @@ (fa :> ia) @@ (fa2 :> << [name |-> b, form |-> "ok"] >>)
                    @@ [f \in {fb, fc, fd, bad} |-> << >>] ] :
    order_ \in { << fm, fa, fb, fd >>, << fa2, fa, fb, fd >>, << fa, fb >>, << fa, bad, fb, fd >> },
    h \in {NoModule, c},
    t \in { MCFile, MCFile \ {fb}, MCFile \ {fm} },
    im \in SeqUpTo([name : {a, d}, form : ImportForm], 2),
    ia \in SeqUpTo([name : {b, d}, form : ImportForm], 1) }

MCProjects == Graphs3 \cup Faulty
=============================================================================
