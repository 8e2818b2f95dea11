------------------------- MODULE MCCheckpointSchema -------------------------
(***************************************************************************)
(* The schema check on models of one and two layers in every mixture of    *)
(* precisions, and on what edits make of them: a tensor dropped, replaced, *)
(* a strange one added, one stored in the other precision, one of another  *)
(* shape.                                                                  *)
(***************************************************************************)
EXTENDS ExportedModel

MCConfig(l, e, h) ==
  [vocabulary |-> 3, context |-> 6, embedding |-> e, heads |-> h, layers |-> l]

\* A model whose layers in q are quantized.
MCModel(config, wte, q) ==
  LET int8s == (IF wte THEN {<<0, "wte.weight">>} ELSE {}) \cup (q \X LinearParts)
      scales == {ScaleName(n) : n \in int8s}
      Scaled(s) == CHOOSE n \in int8s : ScaleName(n) = s
      floats == (BaseNames(config) \ int8s) \cup scales
  IN [config |-> config,
      int8s |-> [n \in int8s |-> ShapeOf(config, n[2])],
      floats |-> [n \in floats |->
                   IF n \in scales THEN ScaleShape(config, Scaled(n)[2])
                                   ELSE ShapeOf(config, n[2])]]

Without(f, n) == [m \in DOMAIN f \ {n} |-> f[m]]
With(f, n, shape) == [m \in DOMAIN f \cup {n} |-> IF m = n THEN shape ELSE f[m]]

MCStrange == {<<1, "other">>, <<3, "ln_1.weight">>, <<0, "wte.weight.quant_scale">>,
              <<1, "attn.c_attn.weight.quant_scale">>}

MCDropped(c) ==
  {[c EXCEPT !.floats = Without(c.floats, n)] : n \in DOMAIN c.floats}
    \cup {[c EXCEPT !.int8s = Without(c.int8s, n)] : n \in DOMAIN c.int8s}

MCAdded(c) ==
  {[c EXCEPT !.floats = With(c.floats, n, <<2>>)] :
     n \in MCStrange \ (DOMAIN c.floats \cup DOMAIN c.int8s)}
    \cup {[c EXCEPT !.int8s = With(c.int8s, n, <<2>>)] :
            n \in MCStrange \ (DOMAIN c.floats \cup DOMAIN c.int8s)}

MCConverted(c) ==
  {[c EXCEPT !.floats = Without(c.floats, n),
             !.int8s = With(c.int8s, n, c.floats[n])] : n \in DOMAIN c.floats}
    \cup {[c EXCEPT !.int8s = Without(c.int8s, n),
                    !.floats = With(c.floats, n, c.int8s[n])] : n \in DOMAIN c.int8s}

MCReshaped(c) ==
  {[c EXCEPT !.floats[n] = <<4, 2>>] : n \in DOMAIN c.floats}
    \cup {[c EXCEPT !.int8s[n] = <<4, 2>>] : n \in DOMAIN c.int8s}

MCEdits(c) == MCDropped(c) \cup MCAdded(c) \cup MCConverted(c) \cup MCReshaped(c)

\* The number of tensors stays right.
MCReplaced(c) == UNION {MCAdded(d) : d \in MCDropped(c)}

MCModels(config) ==
  {MCModel(config, wte, q) : wte \in BOOLEAN, q \in SUBSET (1..config.layers)}

\* One layer and one edit or a replacement, two layers and one edit;
\* configurations that are refused for what they are.
MCCheckpoints ==
  UNION {MCEdits(c) \cup MCReplaced(c) : c \in MCModels(MCConfig(1, 2, 1))}
    \cup UNION {MCEdits(c) : c \in MCModels(MCConfig(2, 2, 2))}
    \cup UNION {MCModels(config) :
                  config \in {MCConfig(1, 2, 1), MCConfig(2, 2, 2), MCConfig(2, 3, 2),
                              MCConfig(3, 2, 1), MCConfig(1, 11, 1)}}

-----------------------------------------------------------------------------
(* What the exporter is given: models whose weights follow one of several   *)
(* patterns, and models with one thing wrong.                               *)

\* Channels without a weight, with one that is alone, with ties and with values
\* that fall between two steps.
MCPatterns == {<<0>>, <<7, -4>>, <<0, 0, 5>>, <<-6, 1, 3, 2, -5>>, <<1, 2, 3, 4, 5, 6, 7>>,
               <<-7, 0, 2, 6, -1, 3, 4, 0, -2, 1, 5>>}

MCTensor(shape, pattern) ==
  LET size == IF Len(shape) = 1 THEN shape[1] ELSE shape[1] * shape[2]
  IN [shape |-> shape, data |-> [x \in 0..(size - 1) |-> pattern[(x % Len(pattern)) + 1]]]

MCSource(config, pattern) ==
  [config |-> config, supported |-> TRUE, tied |-> TRUE,
   state |-> [n \in BaseNames(config) |-> MCTensor(ShapeOf(config, n[2]), pattern)]]

MCSpoiled(s) ==
  {[s EXCEPT !.supported = FALSE], [s EXCEPT !.tied = FALSE]}
    \cup {[s EXCEPT !.state = Without(s.state, n)] : n \in DOMAIN s.state}
    \cup {[s EXCEPT !.state[n] = MCTensor(<<4, 2>>, <<1>>)] : n \in DOMAIN s.state}
    \cup {[s EXCEPT !.state = With(s.state, n, MCTensor(<<2>>, <<1>>))] :
            n \in {<<1, "attn.bias">>, <<1, "attn.masked_bias">>, <<3, "attn.bias">>,
                   <<0, "lm_head.weight">>, <<3, "ln_1.weight">>}}

MCSources ==
  {MCSource(MCConfig(1, 2, 1), pattern) : pattern \in MCPatterns}
    \cup {MCSource(MCConfig(2, 2, 2), <<-6, 1, 3, 2, -5>>)}
    \cup MCSpoiled(MCSource(MCConfig(1, 2, 1), <<7, -4>>))
    \cup {MCSource(config, <<1>>) :
            config \in {MCConfig(2, 3, 2), MCConfig(3, 2, 1), MCConfig(1, 11, 1)}}
=============================================================================
