----------------------- MODULE CheckpointSchemaProofs -----------------------
(***************************************************************************)
(* The schema check decides exactly which checkpoints are models, the      *)
(* exporter writes models and nothing else, and so what it writes is used. *)
(*                                                                         *)
(* The check never looks for tensors that do not belong there: it looks up *)
(* the names it knows and then counts.  That this is enough rests on three *)
(* facts: the names of a model are as many as the code expects (ModelSize),*)
(* each of them was found among the floats or among the int8s, and a       *)
(* finite set that contains a set of its own size is that set.             *)
(*                                                                         *)
(* Every check of a forward pass succeeds on every checkpoint the schema   *)
(* accepted, and the logits have the shape generation relies on: what the  *)
(* accepted tensors are (AcceptedEmbeddings, AcceptedLayer) gives, stage   *)
(* by stage, the shapes the pass has computed (PassInv).                   *)
(*                                                                         *)
(* The exporter has, after so many tensors, the records of so many specs,  *)
(* all of them and no other (Collection).  At the end these are the specs  *)
(* of the names the schema asks for (SpecsAre), so that the checkpoint is  *)
(* a model (ExportedIsModel), which the engine then accepts (EngineInv).   *)
(***************************************************************************)
EXTENDS ExportedModel, DataLemmas

-----------------------------------------------------------------------------
(* Counting names. *)

LEMMA FourElements ==
  \A a, b, c, d : Cardinality({a, b, c, d}) \in Nat /\ IsFiniteSet({a, b, c, d})
    /\ (a # b /\ a # c /\ a # d /\ b # c /\ b # d /\ c # d
          => Cardinality({a, b, c, d}) = 4)
<1> SUFFICES ASSUME NEW a, NEW b, NEW c, NEW d
             PROVE  /\ IsFiniteSet({a, b, c, d})
                    /\ a # b /\ a # c /\ a # d /\ b # c /\ b # d /\ c # d
                         => Cardinality({a, b, c, d}) = 4
  BY FS_CardinalityType
<1>1. IsFiniteSet({a}) /\ Cardinality({a}) = 1
  BY FS_Singleton
<1>2. IsFiniteSet({a} \cup {b}) /\ (b # a => Cardinality({a} \cup {b}) = 2)
  BY <1>1, FS_AddElement
<1>3. /\ IsFiniteSet(({a} \cup {b}) \cup {c})
      /\ a # b /\ a # c /\ b # c => Cardinality(({a} \cup {b}) \cup {c}) = 3
  BY <1>2, FS_AddElement
<1>4. /\ IsFiniteSet((({a} \cup {b}) \cup {c}) \cup {d})
      /\ a # b /\ a # c /\ a # d /\ b # c /\ b # d /\ c # d
           => Cardinality((({a} \cup {b}) \cup {c}) \cup {d}) = 4
  BY <1>3, FS_AddElement
<1>5. (({a} \cup {b}) \cup {c}) \cup {d} = {a, b, c, d}
  OBVIOUS
<1> QED BY <1>4, <1>5

LEMMA DisjointUnion ==
  \A S, T : IsFiniteSet(S) /\ IsFiniteSet(T) /\ S \cap T = {}
    => /\ IsFiniteSet(S \cup T)
       /\ Cardinality(S \cup T) = Cardinality(S) + Cardinality(T)
<1> SUFFICES ASSUME NEW S, NEW T, IsFiniteSet(S), IsFiniteSet(T), S \cap T = {}
             PROVE  /\ IsFiniteSet(S \cup T)
                    /\ Cardinality(S \cup T) = Cardinality(S) + Cardinality(T)
  OBVIOUS
<1>1. Cardinality(S) \in Nat /\ Cardinality(T) \in Nat
  BY FS_CardinalityType
<1>2. Cardinality(S \cap T) = 0
  BY FS_EmptySet
<1>3. /\ IsFiniteSet(S \cup T)
      /\ Cardinality(S \cup T)
           = Cardinality(S) + Cardinality(T) - Cardinality(S \cap T)
  BY FS_Union
<1> QED BY <1>1, <1>2, <1>3

\* The numbers top_level_tensor_count, tensors_per_layer and 4 of the code.
LEMMA PartCounts ==
  /\ IsFiniteSet(TopParts) /\ Cardinality(TopParts) = 4
  /\ IsFiniteSet(LinearParts) /\ Cardinality(LinearParts) = 4
  /\ IsFiniteSet(ScaleParts) /\ Cardinality(ScaleParts) = 4
  /\ IsFiniteSet(LinearParts \cup PlainParts)
  /\ Cardinality(LinearParts \cup PlainParts) = 12
<1>1. IsFiniteSet(TopParts) /\ Cardinality(TopParts) = 4
  BY FourElements DEF TopParts
<1>2. IsFiniteSet(LinearParts) /\ Cardinality(LinearParts) = 4
  BY FourElements DEF LinearParts
<1>3. IsFiniteSet(ScaleParts) /\ Cardinality(ScaleParts) = 4
  BY FourElements DEF ScaleParts
<1> DEFINE norms == {"ln_1.weight", "ln_1.bias", "ln_2.weight", "ln_2.bias"}
           biases == {"attn.c_attn.bias", "attn.c_proj.bias",
                      "mlp.c_fc.bias", "mlp.c_proj.bias"}
<1>4. /\ IsFiniteSet(norms) /\ Cardinality(norms) = 4
      /\ IsFiniteSet(biases) /\ Cardinality(biases) = 4
  BY FourElements
<1>5. PlainParts = norms \cup biases /\ norms \cap biases = {}
  BY DEF PlainParts
<1>6. IsFiniteSet(PlainParts) /\ Cardinality(PlainParts) = 8
  <2> HIDE DEF norms, biases
  <2> QED BY <1>4, <1>5, DisjointUnion
<1>7. LinearParts \cap PlainParts = {}
  BY DEF LinearParts, PlainParts
<1> QED BY <1>1, <1>2, <1>3, <1>6, <1>7, DisjointUnion

\* n layers with the same parts in each.
LEMMA LayerNames ==
  \A n \in Nat : \A parts :
    IsFiniteSet(parts) => /\ IsFiniteSet((1..n) \X parts)
                          /\ Cardinality((1..n) \X parts) = n * Cardinality(parts)
<1> SUFFICES ASSUME NEW n \in Nat, NEW parts, IsFiniteSet(parts)
             PROVE  /\ IsFiniteSet((1..n) \X parts)
                    /\ Cardinality((1..n) \X parts) = n * Cardinality(parts)
  OBVIOUS
<1>1. IsFiniteSet(1..n) /\ Cardinality(1..n) = n
  <2>1. /\ IsFiniteSet(1..n)
        /\ Cardinality(1..n) = IF 1 > n THEN 0 ELSE n - 1 + 1
    BY FS_Interval
  <2> QED BY <2>1
<1>2. /\ IsFiniteSet((1..n) \X parts)
      /\ Cardinality((1..n) \X parts) = Cardinality(1..n) * Cardinality(parts)
  BY <1>1, FS_Product
<1> QED BY <1>1, <1>2

\* The names of the floats of a model.
FloatNames(config, wte, layers) ==
  (BaseNames(config) \ QuantizedNames(config, wte, layers))
    \cup ScaleNames(config, wte, layers)

QuantizedCount(n, wte, layers) ==
  (IF wte THEN 1 ELSE 0) + (IF layers THEN 4 * n ELSE 0)

\* A model has as many tensors as the code expects: a quantized weight moves
\* to the int8s and leaves its scale behind.
LEMMA ModelSize ==
  ASSUME NEW config, config.layers \in Nat,
         NEW wte \in BOOLEAN, NEW layers \in BOOLEAN
  PROVE  LET q == QuantizedNames(config, wte, layers)
             f == FloatNames(config, wte, layers)
         IN /\ IsFiniteSet(q) /\ IsFiniteSet(f)
            /\ Cardinality(q) = QuantizedCount(config.layers, wte, layers)
            /\ Cardinality(f) = config.layers * 12 + 4
<1> DEFINE n == config.layers
           q == QuantizedNames(config, wte, layers)
           s == ScaleNames(config, wte, layers)
           b == BaseNames(config)
<1>1. n \in Nat
  OBVIOUS
<1>2. /\ IsFiniteSet((1..n) \X LinearParts)
      /\ Cardinality((1..n) \X LinearParts) = n * 4
      /\ IsFiniteSet((1..n) \X ScaleParts)
      /\ Cardinality((1..n) \X ScaleParts) = n * 4
      /\ IsFiniteSet((1..n) \X (LinearParts \cup PlainParts))
      /\ Cardinality((1..n) \X (LinearParts \cup PlainParts)) = n * 12
  <2> HIDE DEF n
  <2> QED BY <1>1, PartCounts, LayerNames
<1>3. /\ IsFiniteSet({0} \X TopParts) /\ Cardinality({0} \X TopParts) = 4
  <2>1. IsFiniteSet({0}) /\ Cardinality({0}) = 1
    BY FS_Singleton
  <2>2. /\ IsFiniteSet({0} \X TopParts)
        /\ Cardinality({0} \X TopParts) = Cardinality({0}) * Cardinality(TopParts)
    BY <2>1, PartCounts, FS_Product
  <2> QED BY <2>1, <2>2, PartCounts
<1>4. IsFiniteSet(b) /\ Cardinality(b) = n * 12 + 4
  <2> DEFINE top == {0} \X TopParts
             inner == (1..n) \X (LinearParts \cup PlainParts)
  <2>1. top \cap inner = {}
    BY <1>1
  <2>2. b = top \cup inner
    BY DEF BaseNames
  <2>3. /\ IsFiniteSet(top) /\ Cardinality(top) = 4
        /\ IsFiniteSet(inner) /\ Cardinality(inner) = n * 12
    BY <1>2, <1>3
  <2> HIDE DEF b, n, top, inner
  <2>4. IsFiniteSet(b) /\ Cardinality(b) = Cardinality(top) + Cardinality(inner)
    BY <2>1, <2>2, <2>3, DisjointUnion
  <2> QED BY <1>1, <2>3, <2>4
<1> DEFINE one(name) == IF wte THEN {name} ELSE {}
           all(parts) == IF layers THEN (1..n) \X parts ELSE {}
<1>5. \A name : /\ IsFiniteSet(one(name))
                /\ Cardinality(one(name)) = IF wte THEN 1 ELSE 0
  BY FS_Singleton, FS_EmptySet
<1>6. \A parts \in {LinearParts, ScaleParts} :
        /\ IsFiniteSet(all(parts))
        /\ Cardinality(all(parts)) = IF layers THEN n * 4 ELSE 0
  BY <1>2, FS_EmptySet
<1>7. \A parts, part : one(<<0, part>>) \cap all(parts) = {}
  BY <1>1
<1>8. /\ q = one(<<0, "wte.weight">>) \cup all(LinearParts)
      /\ s = one(<<0, "wte.weight.quant_scale">>) \cup all(ScaleParts)
  BY DEF QuantizedNames, ScaleNames
<1>9. /\ IsFiniteSet(q) /\ IsFiniteSet(s)
      /\ Cardinality(q) = (IF wte THEN 1 ELSE 0) + (IF layers THEN n * 4 ELSE 0)
      /\ Cardinality(s) = Cardinality(q)
  <2>1. \A parts \in {LinearParts, ScaleParts} : \A part :
          /\ IsFiniteSet(one(<<0, part>>) \cup all(parts))
          /\ Cardinality(one(<<0, part>>) \cup all(parts))
               = (IF wte THEN 1 ELSE 0) + (IF layers THEN n * 4 ELSE 0)
    <3> TAKE parts \in {LinearParts, ScaleParts}
    <3> TAKE part
    <3> DEFINE o == one(<<0, part>>)
               a == all(parts)
    <3>1. /\ IsFiniteSet(o) /\ Cardinality(o) = IF wte THEN 1 ELSE 0
      BY <1>5
    <3>2. /\ IsFiniteSet(a) /\ Cardinality(a) = IF layers THEN n * 4 ELSE 0
      BY <1>6
    <3>3. o \cap a = {}
      BY <1>7
    <3> HIDE DEF o, a
    <3>4. /\ IsFiniteSet(o \cup a)
          /\ Cardinality(o \cup a) = Cardinality(o) + Cardinality(a)
      BY <3>1, <3>2, <3>3, DisjointUnion
    <3>5. /\ IsFiniteSet(o \cup a)
          /\ Cardinality(o \cup a)
               = (IF wte THEN 1 ELSE 0) + (IF layers THEN n * 4 ELSE 0)
      BY <3>1, <3>2, <3>4
    <3> QED BY <3>5 DEF o, a
  <2> HIDE DEF q, s, one, all, n
  <2> QED BY <1>8, <2>1
<1>10. q \subseteq b /\ (b \ q) \cap s = {}
  <2>1. LinearParts \subseteq LinearParts \cup PlainParts /\ "wte.weight" \in TopParts
    BY DEF TopParts
  <2>2. /\ ScaleParts \cap (LinearParts \cup PlainParts) = {}
        /\ "wte.weight.quant_scale" \notin TopParts
    BY DEF ScaleParts, LinearParts, PlainParts, TopParts
  <2>3. q \subseteq b
    BY <2>1 DEF QuantizedNames, BaseNames
  <2>4. b \cap s = {}
    BY <1>1, <2>2 DEF ScaleNames, BaseNames
  <2> QED BY <2>3, <2>4
<1>11. /\ IsFiniteSet(b \ q)
       /\ Cardinality(b \ q) = Cardinality(b) - Cardinality(q)
  <2>1. b \cap q = q
    BY <1>10
  <2> HIDE DEF b, q
  <2>2. /\ IsFiniteSet(b \ q)
        /\ Cardinality(b \ q) = Cardinality(b) - Cardinality(b \cap q)
    BY <1>4, FS_Difference
  <2> QED BY <2>1, <2>2
<1>12. /\ IsFiniteSet((b \ q) \cup s)
       /\ Cardinality((b \ q) \cup s) = Cardinality(b)
  <2> HIDE DEF b, q, s
  <2>1. Cardinality(q) \in Nat /\ Cardinality(b) \in Nat
    BY <1>4, <1>9, FS_CardinalityType
  <2> QED BY <1>9, <1>10, <1>11, <2>1, DisjointUnion
<1>13. Cardinality(q) = QuantizedCount(n, wte, layers)
  <2> HIDE DEF q, n
  <2> QED BY <1>1, <1>9 DEF QuantizedCount
<1> QED BY <1>4, <1>9, <1>12, <1>13 DEF FloatNames

-----------------------------------------------------------------------------
(* The inductive invariant. *)

WtePrecision == IsInt8(0, "wte.weight")

PassedEmbeddings == HasWeight(0, "wte.weight") /\ HasTensor(0, "wpe.weight")

PassedLayer(l) ==
  /\ \A part \in LinearParts :
       HasWeight(l, part) /\ (IsInt8(l, part) <=> precision = "int8")
  /\ \A part \in PlainParts : HasTensor(l, part)

\* What was checked before the present stage, and what it says of the locals.
Checked ==
  /\ stage \in {"sizes", "embeddings"} =>
       layer = 0 /\ precision = "unknown" /\ quantized = 0
  /\ stage \in {"embeddings", "layers", "accepted"} => GoodSizes
  /\ stage \in {"layers", "accepted"} =>
       /\ PassedEmbeddings
       /\ precision = "unknown" <=> layer = 0
       /\ \A l \in 1..layer : PassedLayer(l)
       /\ quantized = (IF WtePrecision THEN 1 ELSE 0)
                        + (IF precision = "int8" THEN 4 * layer ELSE 0)
  /\ stage = "accepted" =>
       /\ layer = Config.layers
       /\ HasTensor(0, "ln_f.weight") /\ HasTensor(0, "ln_f.bias")
       /\ CountIsRight

\* A checkpoint, whoever wrote it: what SchemaAssumption says of Checkpoints.
IsCheckpoint(c) ==
  /\ {c.config.vocabulary, c.config.context, c.config.embedding,
      c.config.heads, c.config.layers} \subseteq Nat \ {0}
  /\ IsFiniteSet(DOMAIN c.floats) /\ IsFiniteSet(DOMAIN c.int8s)
  /\ DOMAIN c.floats \cap DOMAIN c.int8s = {}

Locals ==
  /\ IsCheckpoint(checkpoint)
  /\ stage \in {"sizes", "embeddings", "layers", "accepted", "rejected"}
  /\ layer \in 0..Config.layers
  /\ precision \in {"unknown", "fp32", "int8"}
  /\ quantized \in 0..(4 * layer + 1)

IInv == Locals /\ Checked /\ RejectedIsNoModel

LEMMA CheckpointsType == \A c \in Checkpoints : IsCheckpoint(c)
BY SchemaAssumption DEF SchemaAssumption, IsCheckpoint

LEMMA ConfigType ==
  \A c : IsCheckpoint(c) =>
    /\ c.config.embedding \in Nat \ {0} /\ c.config.heads \in Nat \ {0}
    /\ c.config.layers \in Nat \ {0}
    /\ IsFiniteSet(DOMAIN c.floats) /\ IsFiniteSet(DOMAIN c.int8s)
BY DEF IsCheckpoint

-----------------------------------------------------------------------------
(* Models pass every check. *)

LEMMA ModelTensors ==
  ASSUME NEW wte \in BOOLEAN, NEW layers \in BOOLEAN,
         IsCheckpoint(checkpoint), IsModel(wte, layers)
  PROVE  /\ HasWeight(0, "wte.weight") /\ (IsInt8(0, "wte.weight") <=> wte)
         /\ \A part \in TopParts \ {"wte.weight"} : HasTensor(0, part)
         /\ \A l \in 1..Config.layers :
              /\ \A part \in LinearParts :
                   HasWeight(l, part) /\ (IsInt8(l, part) <=> layers)
              /\ \A part \in PlainParts : HasTensor(l, part)
<1> DEFINE q == QuantizedNames(Config, wte, layers)
           s == ScaleNames(Config, wte, layers)
           b == BaseNames(Config)
<1>1. Config.layers \in Nat
  BY ConfigType DEF Config
<1>2. Int8s = q /\ Floats = (b \ q) \cup s
  BY DEF IsModel
<1>3. \A n \in q : /\ checkpoint.int8s[n] = ShapeOf(Config, n[2])
                   /\ checkpoint.floats[ScaleName(n)] = ScaleShape(Config, n[2])
  BY DEF IsModel
<1>4. \A n \in b \ q : checkpoint.floats[n] = ShapeOf(Config, n[2])
  BY DEF IsModel
<1>5. \A l, part :
        /\ <<l, part>> \in b \ q => HasTensor(l, part)
        /\ <<l, part>> \in q /\ ScaleName(<<l, part>>) \in s => HasWeight(l, part)
        /\ <<l, part>> \in b \ q => HasWeight(l, part)
        /\ IsInt8(l, part) <=> <<l, part>> \in q
  <2> TAKE l, part
  <2>1. IsInt8(l, part) <=> <<l, part>> \in q
    BY <1>2 DEF IsInt8
  <2>2. <<l, part>> \in b \ q => HasTensor(l, part)
    BY <1>2, <1>4 DEF HasTensor
  <2>3. <<l, part>> \in q /\ ScaleName(<<l, part>>) \in s => HasWeight(l, part)
    BY <1>2, <1>3, <2>1 DEF HasWeight
  <2>4. <<l, part>> \in b \ q => HasWeight(l, part)
    BY <2>1, <2>2 DEF HasWeight
  <2> QED BY <2>1, <2>2, <2>3, <2>4
<1>6. \A part \in TopParts \ {"wte.weight"} : <<0, part>> \in b \ q
  BY <1>1 DEF BaseNames, QuantizedNames
<1>7. /\ <<0, "wte.weight">> \in b
      /\ <<0, "wte.weight">> \in q <=> wte
      /\ wte => ScaleName(<<0, "wte.weight">>) \in s
  BY <1>1 DEF BaseNames, QuantizedNames, ScaleNames, TopParts, ScaleName, ScalePart
<1>8. \A l \in 1..Config.layers, part \in PlainParts : <<l, part>> \in b \ q
  <2>1. PlainParts \cap LinearParts = {}
    BY DEF PlainParts, LinearParts
  <2> QED BY <1>1, <2>1 DEF BaseNames, QuantizedNames
<1>9. \A l \in 1..Config.layers, part \in LinearParts :
        /\ <<l, part>> \in b
        /\ <<l, part>> \in q <=> layers
        /\ layers => ScaleName(<<l, part>>) \in s
  <2>1. \A part \in LinearParts : ScalePart(part) \in ScaleParts
    BY DEF LinearParts, ScalePart, ScaleParts
  <2>2. \A l \in 1..Config.layers, part \in LinearParts :
          <<l, part>> \in b /\ (<<l, part>> \in q <=> layers)
    BY <1>1 DEF BaseNames, QuantizedNames
  <2>3. \A l \in 1..Config.layers, part \in LinearParts :
          layers => ScaleName(<<l, part>>) \in s
    BY <2>1 DEF ScaleNames, ScaleName
  <2> QED BY <2>2, <2>3
<1> HIDE DEF q, s, b
<1>10. HasWeight(0, "wte.weight") /\ (IsInt8(0, "wte.weight") <=> wte)
  BY <1>5, <1>7
<1>11. \A l \in 1..Config.layers : \A part \in LinearParts :
         HasWeight(l, part) /\ (IsInt8(l, part) <=> layers)
  BY <1>5, <1>9
<1> QED BY <1>5, <1>6, <1>8, <1>10, <1>11

LEMMA ModelCount ==
  ASSUME NEW wte \in BOOLEAN, NEW layers \in BOOLEAN,
         IsCheckpoint(checkpoint), IsModel(wte, layers)
  PROVE  TensorCount = Config.layers * 12 + 4 + QuantizedCount(Config.layers, wte, layers)
<1> DEFINE q == QuantizedNames(Config, wte, layers)
           f == FloatNames(Config, wte, layers)
<1>1. Config.layers \in Nat
  BY ConfigType DEF Config
<1>2. /\ Cardinality(q) = QuantizedCount(Config.layers, wte, layers)
      /\ Cardinality(f) = Config.layers * 12 + 4
  BY <1>1, ModelSize
<1>3. Int8s = q /\ Floats = f
  BY DEF IsModel, FloatNames
<1>4. QuantizedCount(Config.layers, wte, layers) \in Nat
  BY <1>1 DEF QuantizedCount
<1> HIDE DEF q, f
<1> QED BY <1>1, <1>2, <1>3, <1>4 DEF TensorCount

-----------------------------------------------------------------------------
(* What passed every check is a model. *)

LEMMA AcceptedExactly ==
  ASSUME IInv, stage = "accepted"
  PROVE  IsModel(WtePrecision, precision = "int8")
<1> DEFINE wte == WtePrecision
           layers == precision = "int8"
           q == QuantizedNames(Config, wte, layers)
           s == ScaleNames(Config, wte, layers)
           b == BaseNames(Config)
           f == FloatNames(Config, wte, layers)
           n == Config.layers
<1> USE DEF IInv
<1>1. /\ n \in Nat \ {0} /\ IsFiniteSet(Floats) /\ IsFiniteSet(Int8s)
  BY ConfigType DEF Locals, Config, Floats, Int8s
<1>2. wte \in BOOLEAN /\ layers \in BOOLEAN
  BY DEF WtePrecision, IsInt8
<1>3. /\ PassedEmbeddings /\ layer = n
      /\ \A l \in 1..n : PassedLayer(l)
      /\ HasTensor(0, "ln_f.weight") /\ HasTensor(0, "ln_f.bias")
      /\ CountIsRight
      /\ quantized = QuantizedCount(n, wte, layers)
  BY DEF Checked, QuantizedCount
<1>4. \A m \in q : /\ m \in Int8s /\ checkpoint.int8s[m] = ShapeOf(Config, m[2])
                   /\ ScaleName(m) \in Floats
                   /\ checkpoint.floats[ScaleName(m)] = ScaleShape(Config, m[2])
  <2>1. \A l, part : HasWeight(l, part) /\ IsInt8(l, part) =>
          /\ <<l, part>> \in Int8s
          /\ checkpoint.int8s[<<l, part>>] = ShapeOf(Config, part)
          /\ ScaleName(<<l, part>>) \in Floats
          /\ checkpoint.floats[ScaleName(<<l, part>>)] = ScaleShape(Config, part)
    BY DEF HasWeight, IsInt8
  <2>2. wte => HasWeight(0, "wte.weight") /\ IsInt8(0, "wte.weight")
    BY <1>3 DEF PassedEmbeddings, WtePrecision
  <2>3. layers => \A l \in 1..n, part \in LinearParts :
                    HasWeight(l, part) /\ IsInt8(l, part)
    BY <1>3 DEF PassedLayer
  <2>4. \A m \in q : \E l, part : /\ m = <<l, part>>
                                  /\ HasWeight(l, part) /\ IsInt8(l, part)
    <3>1. \A m \in q : \/ wte /\ m = <<0, "wte.weight">>
                       \/ layers /\ \E l \in 1..n, part \in LinearParts : m = <<l, part>>
      BY DEF QuantizedNames
    <3> HIDE DEF q, wte, layers, n
    <3> QED BY <2>2, <2>3, <3>1
  <2> HIDE DEF q
  <2> QED BY <2>1, <2>4
<1>5. \A m \in b \ q : m \in Floats /\ checkpoint.floats[m] = ShapeOf(Config, m[2])
  <2>1. \A l, part : HasTensor(l, part) =>
          /\ <<l, part>> \in Floats
          /\ checkpoint.floats[<<l, part>>] = ShapeOf(Config, part)
    BY DEF HasTensor
  <2>2. \A l, part : HasWeight(l, part) /\ ~IsInt8(l, part) => HasTensor(l, part)
    BY DEF HasWeight
  <2>3. \A part \in TopParts : <<0, part>> \notin q => HasTensor(0, part)
    <3>1. <<0, "wte.weight">> \notin q => ~IsInt8(0, "wte.weight")
      BY DEF QuantizedNames, WtePrecision
    <3> HIDE DEF q
    <3> QED BY <1>3, <2>2, <3>1 DEF PassedEmbeddings, TopParts
  <2>4. \A l \in 1..n, part \in LinearParts : <<l, part>> \notin q => HasTensor(l, part)
    <3>1. \A l \in 1..n, part \in LinearParts : <<l, part>> \notin q => ~layers
      BY DEF QuantizedNames
    <3>2. \A l \in 1..n, part \in LinearParts :
            HasWeight(l, part) /\ (~layers => ~IsInt8(l, part))
      BY <1>3 DEF PassedLayer
    <3> HIDE DEF q, layers, n
    <3> QED BY <2>2, <3>1, <3>2
  <2>5. \A l \in 1..n, part \in PlainParts : HasTensor(l, part)
    BY <1>3 DEF PassedLayer
  <2>6. \A m \in b \ q : \E l, part : m = <<l, part>> /\ HasTensor(l, part)
    <3>1. \A m \in b : \/ \E part \in TopParts : m = <<0, part>>
                       \/ \E l \in 1..n, part \in LinearParts : m = <<l, part>>
                       \/ \E l \in 1..n, part \in PlainParts : m = <<l, part>>
      BY DEF BaseNames
    <3> HIDE DEF b, q, n
    <3> QED BY <2>3, <2>4, <2>5, <3>1
  <2> HIDE DEF b, q
  <2> QED BY <2>1, <2>6
<1>6. s \subseteq Floats
  <2>1. \A m \in s : \E k \in q : m = ScaleName(k)
    <3>1. \A p \in ScaleParts : \E part \in LinearParts : p = ScalePart(part)
      BY DEF ScaleParts, LinearParts, ScalePart
    <3>2. wte => /\ <<0, "wte.weight">> \in q
                 /\ ScaleName(<<0, "wte.weight">>) = <<0, "wte.weight.quant_scale">>
      BY DEF QuantizedNames, ScaleName, ScalePart
    <3>3. layers => \A l \in 1..n, part \in LinearParts :
                      /\ <<l, part>> \in q
                      /\ ScaleName(<<l, part>>) = <<l, ScalePart(part)>>
      BY DEF QuantizedNames, ScaleName
    <3>4. \A m \in s : \/ wte /\ m = <<0, "wte.weight.quant_scale">>
                       \/ layers /\ \E l \in 1..n, p \in ScaleParts : m = <<l, p>>
      BY DEF ScaleNames
    <3> HIDE DEF q, s, n, wte, layers
    <3> SUFFICES ASSUME NEW m \in s PROVE \E k \in q : m = ScaleName(k)
      OBVIOUS
    <3>5. CASE wte /\ m = <<0, "wte.weight.quant_scale">>
      BY <3>2, <3>5
    <3>6. CASE layers /\ \E l \in 1..n, p \in ScaleParts : m = <<l, p>>
      <4>1. PICK l \in 1..n, p \in ScaleParts : m = <<l, p>>
        BY <3>6
      <4>2. PICK part \in LinearParts : p = ScalePart(part)
        BY <3>1
      <4>3. <<l, part>> \in q /\ ScaleName(<<l, part>>) = m
        BY <3>3, <3>6, <4>1, <4>2
      <4> QED BY <4>3
    <3> QED BY <3>4, <3>5, <3>6
  <2> HIDE DEF q, s
  <2> QED BY <1>4, <2>1
<1>7. q \subseteq Int8s /\ f \subseteq Floats
  <2>1. f = (b \ q) \cup s
    BY DEF FloatNames
  <2> HIDE DEF b, q, s, f
  <2> QED BY <1>4, <1>5, <1>6, <2>1
<1>8. /\ IsFiniteSet(q) /\ IsFiniteSet(f)
      /\ Cardinality(q) = QuantizedCount(n, wte, layers)
      /\ Cardinality(f) = n * 12 + 4
  <2> HIDE DEF wte, layers
  <2> QED BY <1>1, <1>2, ModelSize
<1>9. Cardinality(Floats) + Cardinality(Int8s) = n * 12 + 4 + QuantizedCount(n, wte, layers)
  <2> HIDE DEF wte, layers
  <2> QED BY <1>3
        DEF CountIsRight, TensorCount, ExpectedCount, TensorsPerLayer, TopLevelTensorCount
<1>10. Int8s = q /\ Floats = f
  <2>1. QuantizedCount(n, wte, layers) \in Nat
    BY <1>1, <1>2 DEF QuantizedCount
  <2> HIDE DEF q, f, wte, layers, n
  <2>2. /\ Cardinality(q) <= Cardinality(Int8s) /\ Cardinality(f) <= Cardinality(Floats)
        /\ Cardinality(Int8s) = Cardinality(q) => Int8s = q
        /\ Cardinality(Floats) = Cardinality(f) => Floats = f
    BY <1>1, <1>7, FS_Subset
  <2>3. Cardinality(Floats) \in Nat /\ Cardinality(Int8s) \in Nat
    BY <1>1, FS_CardinalityType
  <2> QED BY <1>1, <1>8, <1>9, <2>1, <2>2, <2>3
<1>11. IsModel(wte, layers)
  <2>1. Floats = (b \ q) \cup s
    BY <1>10 DEF FloatNames
  <2> HIDE DEF wte, layers
  <2> QED BY <1>4, <1>5, <1>10, <2>1 DEF IsModel
<1> QED BY <1>11

-----------------------------------------------------------------------------
(* The invariant is inductive. *)

LEMMA InitInv == Init => IInv
BY CheckpointsType, ConfigType, SMT DEF Init, IInv, Locals, Checked, RejectedIsNoModel, Config

\* What is rejected is no model: it fails a check every model passes.
LEMMA RejectInv ==
  ASSUME IInv, Reject,
         \/ ~GoodSizes
         \/ \A wte, layers \in BOOLEAN : ~IsModel(wte, layers)
  PROVE  IInv'
<1>1. Locals'
  BY DEF IInv, Locals, Reject, Config
<1>2. Checked'
  BY DEF IInv, Reject, Checked
<1>3. RejectedIsNoModel'
  <2>1. UNCHANGED checkpoint
    BY DEF Reject
  <2>2. (\A wte, layers \in BOOLEAN : ~IsModel(wte, layers))
          => (\A wte, layers \in BOOLEAN : ~IsModel(wte, layers))'
    BY <2>1 DEF IsModel, Int8s, Floats, Config
  <2>3. GoodSizes' <=> GoodSizes
    BY <2>1 DEF GoodSizes, LayersCountable, Config
  <2>4. (\E wte, layers \in BOOLEAN : IsModel(wte, layers))'
          <=> \E wte, layers \in BOOLEAN : IsModel(wte, layers)'
    OBVIOUS
  <2> QED BY <2>2, <2>3, <2>4 DEF RejectedIsNoModel
<1> QED BY <1>1, <1>2, <1>3 DEF IInv

\* Only stage changes on a rejection; what is looked up depends on the
\* checkpoint alone.
LEMMA SameCheckpoint ==
  ASSUME UNCHANGED checkpoint
  PROVE  /\ \A l, part : HasTensor(l, part)' <=> HasTensor(l, part)
         /\ \A l, part : HasWeight(l, part)' <=> HasWeight(l, part)
         /\ \A l, part : IsInt8(l, part)' <=> IsInt8(l, part)
         /\ GoodSizes' <=> GoodSizes
         /\ Config' = Config
BY DEF HasTensor, HasWeight, IsInt8, GoodSizes, LayersCountable, Config, Floats, Int8s

LEMMA SizesInv == IInv /\ CheckSizes => IInv'
<1> SUFFICES ASSUME IInv, CheckSizes PROVE IInv'
  OBVIOUS
<1>1. CASE GoodSizes
  <2>1. /\ stage = "sizes" /\ stage' = "embeddings"
        /\ UNCHANGED <<checkpoint, layer, precision, quantized>>
    BY <1>1 DEF CheckSizes
  <2>2. Locals'
    BY <2>1 DEF IInv, Locals, Config
  <2>3. Checked'
    BY <1>1, <2>1, SameCheckpoint DEF IInv, Checked
  <2>4. RejectedIsNoModel'
    BY <2>1 DEF RejectedIsNoModel
  <2> QED BY <2>2, <2>3, <2>4 DEF IInv
<1>2. CASE ~GoodSizes
  BY <1>2, RejectInv DEF CheckSizes
<1> QED BY <1>1, <1>2

LEMMA EmbeddingsInv == IInv /\ CheckEmbeddings => IInv'
<1> SUFFICES ASSUME IInv, CheckEmbeddings PROVE IInv'
  OBVIOUS
<1>1. CASE PassedEmbeddings
  <2>1. /\ stage = "embeddings" /\ stage' = "layers"
        /\ quantized' = IF WtePrecision THEN 1 ELSE 0
        /\ UNCHANGED <<checkpoint, layer, precision>>
    BY <1>1 DEF CheckEmbeddings, PassedEmbeddings, WtePrecision
  <2>2. layer = 0 /\ precision = "unknown" /\ GoodSizes
    BY <2>1 DEF IInv, Checked
  <2>3. Locals'
    BY <2>1, <2>2 DEF IInv, Locals, Config
  <2>4. Checked'
    <3>1. GoodSizes' /\ PassedEmbeddings'
      BY <1>1, <2>1, <2>2, SameCheckpoint DEF PassedEmbeddings
    <3>2. WtePrecision' <=> WtePrecision
      BY <2>1, SameCheckpoint DEF WtePrecision
    <3> QED BY <2>1, <2>2, <3>1, <3>2 DEF Checked
  <2>5. RejectedIsNoModel'
    BY <2>1 DEF RejectedIsNoModel
  <2> QED BY <2>3, <2>4, <2>5 DEF IInv
<1>2. CASE ~PassedEmbeddings
  <2>1. Reject
    BY <1>2 DEF CheckEmbeddings, PassedEmbeddings
  <2>2. \A wte, layers \in BOOLEAN : IsModel(wte, layers) => PassedEmbeddings
    BY ModelTensors DEF PassedEmbeddings, TopParts, IInv, Locals
  <2> QED BY <1>2, <2>1, <2>2, RejectInv
<1> QED BY <1>1, <1>2

GoodLayer(l) ==
  /\ \A part \in LinearParts : HasWeight(l, part)
  /\ \A part \in PlainParts : HasTensor(l, part)
  /\ Uniform(l)

LEMMA LayerInv == IInv /\ CheckLayer => IInv'
<1> SUFFICES ASSUME IInv, CheckLayer PROVE IInv'
  OBVIOUS
<1>0. PICK next : next = layer + 1
  OBVIOUS
<1>1. /\ layer \in Nat /\ Config.layers \in Nat /\ layer < Config.layers
      /\ stage = "layers"
  BY ConfigType DEF CheckLayer, IInv, Locals, Config
<1>2. /\ GoodSizes /\ PassedEmbeddings
      /\ precision = "unknown" <=> layer = 0
      /\ \A l \in 1..layer : PassedLayer(l)
      /\ quantized = (IF WtePrecision THEN 1 ELSE 0)
                       + (IF precision = "int8" THEN 4 * layer ELSE 0)
  BY <1>1 DEF IInv, Checked
<1>3. "attn.c_attn.weight" \in LinearParts
  BY DEF LinearParts
<1>4. CASE GoodLayer(next)
  <2>1. /\ stage' = stage /\ UNCHANGED checkpoint
        /\ layer' = layer + 1
        /\ precision' = LayerPrecision(next)
        /\ quantized' = quantized + (IF LayerPrecision(next) = "int8" THEN 4 ELSE 0)
    BY <1>0, <1>4 DEF CheckLayer, GoodLayer
  <2>2. /\ precision \in {"unknown", precision'} /\ precision' \in {"fp32", "int8"}
        /\ \A part \in LinearParts : IsInt8(next, part) <=> precision' = "int8"
    BY <1>4, <2>1 DEF GoodLayer, Uniform, LayerPrecision
  <2>3. \A l \in 1..layer' : PassedLayer(l)'
    <3>1. \A l \in 1..layer : PassedLayer(l)'
      <4>1. SUFFICES ASSUME NEW l \in 1..layer PROVE PassedLayer(l)'
        OBVIOUS
      <4>2. precision' = precision
        BY <1>1, <1>2, <2>2, <4>1
      <4> QED BY <1>2, <2>1, <4>2, SameCheckpoint DEF PassedLayer
    <3>2. PassedLayer(next)'
      BY <1>4, <2>1, <2>2, SameCheckpoint DEF PassedLayer, GoodLayer
    <3>3. \A l \in 1..layer' : l \in 1..layer \/ l = next
      BY <1>0, <1>1, <2>1
    <3> QED BY <3>1, <3>2, <3>3
  <2>4. quantized' = (IF WtePrecision' THEN 1 ELSE 0)
                       + (IF precision' = "int8" THEN 4 * layer' ELSE 0)
    <3>1. WtePrecision' <=> WtePrecision
      BY <2>1, SameCheckpoint DEF WtePrecision
    <3>2. layer # 0 => precision' = precision
      BY <1>2, <2>2
    <3>3. quantized' = (IF WtePrecision THEN 1 ELSE 0)
                         + (IF precision' = "int8" THEN 4 * layer' ELSE 0)
      <4>1. CASE layer = 0
        BY <1>2, <2>1, <4>1
      <4>2. CASE layer # 0
        BY <1>1, <1>2, <2>1, <3>2, <4>2
      <4> QED BY <4>1, <4>2
    <3> QED BY <3>1, <3>3
  <2>5. Locals'
    <3>1. IsCheckpoint(checkpoint') /\ layer' \in 0..Config'.layers
      BY <1>1, <2>1, SameCheckpoint DEF IInv, Locals
    <3>2. quantized' \in 0..(4 * layer' + 1)
      BY <1>1, <2>1, <2>4
    <3> QED BY <1>1, <2>1, <2>2, <3>1, <3>2 DEF Locals
  <2>6. Checked'
    <3>1. GoodSizes' /\ PassedEmbeddings'
      BY <1>2, <2>1, SameCheckpoint DEF PassedEmbeddings
    <3>2. precision' # "unknown" /\ layer' # 0
      BY <1>1, <2>1, <2>2
    <3> QED BY <1>1, <2>1, <2>3, <2>4, <3>1, <3>2 DEF Checked
  <2>7. RejectedIsNoModel'
    BY <1>1, <2>1 DEF RejectedIsNoModel
  <2> QED BY <2>5, <2>6, <2>7 DEF IInv
<1>5. CASE ~GoodLayer(next)
  <2>1. Reject
    BY <1>0, <1>5 DEF CheckLayer, GoodLayer
  <2>2. SUFFICES ASSUME NEW wte \in BOOLEAN, NEW layers \in BOOLEAN,
                        IsModel(wte, layers)
                 PROVE  GoodLayer(next)
    BY <1>5, <2>1, RejectInv
  <2>3. IsCheckpoint(checkpoint)
    BY DEF IInv, Locals
  <2>4. \A l \in 1..Config.layers :
          /\ \A part \in LinearParts :
               HasWeight(l, part) /\ (IsInt8(l, part) <=> layers)
          /\ \A part \in PlainParts : HasTensor(l, part)
    BY <2>2, <2>3, ModelTensors
  <2>5. next \in 1..Config.layers
    BY <1>0, <1>1
  <2>6. layer # 0 => (precision = "int8" <=> layers)
    <3>1. layer # 0 => 1 \in 1..layer /\ 1 \in 1..Config.layers
      BY <1>1
    <3> QED BY <1>2, <1>3, <2>4, <3>1 DEF PassedLayer
  <2>7. precision \in {"unknown", LayerPrecision(next)}
    <3>1. precision \in {"unknown", "fp32", "int8"}
      BY DEF IInv, Locals
    <3> QED BY <1>2, <1>3, <2>4, <2>5, <2>6, <3>1 DEF LayerPrecision
  <2> QED BY <1>3, <2>4, <2>5, <2>7 DEF GoodLayer, Uniform
<1> QED BY <1>4, <1>5

GoodEnd == HasTensor(0, "ln_f.weight") /\ HasTensor(0, "ln_f.bias") /\ CountIsRight

LEMMA EndInv == IInv /\ CheckEnd => IInv'
<1> SUFFICES ASSUME IInv, CheckEnd PROVE IInv'
  OBVIOUS
<1>1. stage = "layers" /\ layer = Config.layers
  BY DEF CheckEnd
<1>2. CASE GoodEnd
  <2>1. stage' = "accepted" /\ UNCHANGED <<checkpoint, layer, precision, quantized>>
    BY <1>2 DEF CheckEnd, GoodEnd
  <2>2. Locals'
    BY <2>1 DEF IInv, Locals, Config
  <2>3. Checked'
    BY <1>1, <1>2, <2>1 DEF IInv, Checked, GoodEnd, PassedEmbeddings, PassedLayer,
         WtePrecision, HasTensor, HasWeight, IsInt8, GoodSizes, LayersCountable, Config,
         Floats, Int8s, CountIsRight, TensorCount, ExpectedCount
  <2>4. RejectedIsNoModel'
    BY <2>1 DEF RejectedIsNoModel
  <2> QED BY <2>2, <2>3, <2>4 DEF IInv
<1>3. CASE ~GoodEnd
  <2>1. Reject
    BY <1>3 DEF CheckEnd, GoodEnd
  <2>2. SUFFICES ASSUME NEW wte \in BOOLEAN, NEW layers \in BOOLEAN,
                        IsModel(wte, layers)
                 PROVE  GoodEnd
    BY <1>3, <2>1, RejectInv
  <2>3. IsCheckpoint(checkpoint)
    BY DEF IInv, Locals
  <2>4. /\ \A part \in TopParts \ {"wte.weight"} : HasTensor(0, part)
        /\ WtePrecision <=> wte
        /\ \A l \in 1..Config.layers, part \in LinearParts : IsInt8(l, part) <=> layers
    BY <2>2, <2>3, ModelTensors DEF WtePrecision
  <2>5. Config.layers \in Nat \ {0}
    BY <2>3, ConfigType DEF Config
  <2>6. precision = "int8" <=> layers
    <3>1. 1 \in 1..Config.layers /\ "attn.c_attn.weight" \in LinearParts
      BY <2>5 DEF LinearParts
    <3>2. PassedLayer(1)
      BY <1>1, <3>1 DEF IInv, Checked
    <3> QED BY <2>4, <3>1, <3>2 DEF PassedLayer
  <2>7. quantized = QuantizedCount(Config.layers, wte, layers)
    BY <1>1, <2>4, <2>6 DEF IInv, Checked, QuantizedCount
  <2>8. TensorCount = Config.layers * 12 + 4 + QuantizedCount(Config.layers, wte, layers)
    BY <2>2, <2>3, ModelCount
  <2>9. CountIsRight
    BY <2>7, <2>8 DEF CountIsRight, ExpectedCount, TensorsPerLayer, TopLevelTensorCount
  <2> QED BY <2>4, <2>9 DEF GoodEnd, TopParts
<1> QED BY <1>2, <1>3

LEMMA UnchangedInv == IInv /\ UNCHANGED vars => IInv'
BY DEF IInv, Locals, Checked, RejectedIsNoModel, vars, PassedEmbeddings, PassedLayer,
   WtePrecision, HasTensor, HasWeight, IsInt8, GoodSizes, LayersCountable, Config,
   Floats, Int8s, CountIsRight, TensorCount, ExpectedCount, IsModel

LEMMA NextInv == IInv /\ [Next]_vars => IInv'
<1> SUFFICES ASSUME IInv, [Next]_vars PROVE IInv'
  OBVIOUS
<1>1. CASE CheckSizes
  BY <1>1, SizesInv
<1>2. CASE CheckEmbeddings
  BY <1>2, EmbeddingsInv
<1>3. CASE CheckLayer
  BY <1>3, LayerInv
<1>4. CASE CheckEnd
  BY <1>4, EndInv
<1>5. CASE Ended
  BY <1>5, UnchangedInv DEF Ended
<1>6. CASE UNCHANGED vars
  BY <1>6, UnchangedInv
<1> QED BY <1>1, <1>2, <1>3, <1>4, <1>5, <1>6 DEF Next

-----------------------------------------------------------------------------
(* The theorems. *)

\* The locals agree with the part of the checkpoint that was looked at.
THEOREM InductiveInvariant == Spec => []IInv
BY InitInv, NextInv, PTL DEF Spec

\* No count wraps around: the bound on the layers is tight enough for a model
\* with every weight quantized.
THEOREM TypeCorrect == Spec => []TypeOK
<1>1. IInv => TypeOK
  <2> SUFFICES ASSUME IInv PROVE TypeOK
    OBVIOUS
  <2>1. /\ Config.layers \in Nat /\ layer \in 0..Config.layers
        /\ quantized \in 0..(4 * layer + 1)
    BY ConfigType DEF IInv, Locals, Config
  <2>2. stage = "layers" => ExpectedCount <= MaxSize
    <3> SUFFICES ASSUME stage = "layers" PROVE ExpectedCount <= MaxSize
      OBVIOUS
    <3>1. Config.layers <= (MaxSize - 5) \div 16
      BY DEF IInv, Checked, GoodSizes, LayersCountable, TopLevelTensorCount,
             TensorsPerLayer
    <3>2. MaxSize \in Nat
      BY SchemaAssumption DEF SchemaAssumption
    <3>3. 16 * Config.layers <= MaxSize - 5
      BY <2>1, <3>1, <3>2
    <3> QED BY <2>1, <3>2, <3>3 DEF ExpectedCount, TopLevelTensorCount, TensorsPerLayer
  <2> QED BY <2>1, <2>2 DEF IInv, Locals, TypeOK
<1> QED BY <1>1, InductiveInvariant, PTL

\* An accepted checkpoint has the tensors of a model and no other.
THEOREM AcceptedAlwaysModel == Spec => []AcceptedIsModel
<1>1. IInv => AcceptedIsModel
  <2> SUFFICES ASSUME IInv, stage = "accepted"
               PROVE  \E wte, layers \in BOOLEAN : IsModel(wte, layers)
    BY DEF AcceptedIsModel
  <2>1. IsModel(WtePrecision, precision = "int8")
    BY AcceptedExactly
  <2>2. WtePrecision \in BOOLEAN /\ (precision = "int8") \in BOOLEAN
    BY DEF WtePrecision, IsInt8
  <2> QED BY <2>1, <2>2
<1> QED BY <1>1, InductiveInvariant, PTL

\* No model is rejected, unless for the arithmetic on its configuration.
THEOREM RejectedNeverModel == Spec => []RejectedIsNoModel
<1>1. IInv => RejectedIsNoModel
  BY DEF IInv
<1> QED BY <1>1, InductiveInvariant, PTL

\* The check decides exactly what a model is.
THEOREM AlwaysAcceptsExactlyModels == Spec => []AcceptsExactlyModels
BY AcceptedAlwaysModel, RejectedNeverModel, PTL DEF AcceptsExactlyModels

LEMMA AcceptedLookups == IInv => LookupsSucceed
<1> SUFFICES ASSUME IInv, stage = "accepted"
             PROVE  EmbeddingLookups /\ \A l \in 1..Config.layers : LayerLookups(l)
  BY DEF LookupsSucceed
<1>1. /\ PassedEmbeddings /\ HasTensor(0, "ln_f.weight") /\ HasTensor(0, "ln_f.bias")
      /\ \A l \in 1..Config.layers : PassedLayer(l)
  BY DEF IInv, Checked
<1>2. EmbeddingLookups
  BY <1>1 DEF EmbeddingLookups, PassedEmbeddings, HasWeight, HasTensor, IsInt8,
              ScaleName, ScalePart
<1>3. ASSUME NEW l \in 1..Config.layers PROVE LayerLookups(l)
  <2>1. PassedLayer(l)
    BY <1>1
  <2>2. \A p \in ScaleParts : \E part \in LinearParts : p = ScalePart(part)
    BY DEF ScaleParts, LinearParts, ScalePart
  <2>3. \A part \in PlainParts : <<l, part>> \in Floats
    BY <2>1 DEF PassedLayer, HasTensor
  <2>4. ASSUME NEW part \in LinearParts
        PROVE  IF precision = "int8"
               THEN <<l, part>> \in Int8s /\ <<l, ScalePart(part)>> \in Floats
               ELSE <<l, part>> \in Floats
    BY <2>1 DEF PassedLayer, HasWeight, HasTensor, IsInt8, ScaleName
  <2>5. IsInt8(l, "attn.c_attn.weight") <=> precision = "int8"
    BY <2>1 DEF PassedLayer, LinearParts
  <2> QED BY <2>2, <2>3, <2>4, <2>5 DEF LayerLookups
<1> QED BY <1>2, <1>3

\* A pass finds every tensor it asks an accepted checkpoint for.
THEOREM LookupsAlwaysSucceed == Spec => []LookupsSucceed
BY AcceptedLookups, InductiveInvariant, PTL
-----------------------------------------------------------------------------
(* What an accepted checkpoint holds. *)

E == Config.embedding

EmbeddingShapes ==
  /\ EmbeddingLookups
  /\ EmbeddingTableOf = <<Config.vocabulary, E>>
  /\ IsInt8(0, "wte.weight") => FloatOf(0, "wte.weight.quant_scale") = <<Config.vocabulary>>
  /\ FloatOf(0, "wpe.weight") = <<Config.context, E>>
  /\ HasFloats(0, {"ln_f.weight", "ln_f.bias"})
  /\ FloatOf(0, "ln_f.weight") = <<E>> /\ FloatOf(0, "ln_f.bias") = <<E>>

AttentionShapes(l) ==
  /\ WeightOf(l, "attn.c_attn.weight") = <<E, 3 * E>>
  /\ WeightOf(l, "attn.c_proj.weight") = <<E, E>>
  /\ FloatOf(l, "attn.c_attn.bias") = <<3 * E>> /\ FloatOf(l, "attn.c_proj.bias") = <<E>>
  /\ FloatOf(l, "ln_1.weight") = <<E>> /\ FloatOf(l, "ln_1.bias") = <<E>>
  /\ IsInt8(l, "attn.c_attn.weight") =>
       /\ FloatOf(l, "attn.c_attn.weight.quant_scale") = <<3 * E>>
       /\ FloatOf(l, "attn.c_proj.weight.quant_scale") = <<E>>

MlpShapes(l) ==
  /\ WeightOf(l, "mlp.c_fc.weight") = <<E, 4 * E>>
  /\ WeightOf(l, "mlp.c_proj.weight") = <<4 * E, E>>
  /\ FloatOf(l, "mlp.c_fc.bias") = <<4 * E>> /\ FloatOf(l, "mlp.c_proj.bias") = <<E>>
  /\ FloatOf(l, "ln_2.weight") = <<E>> /\ FloatOf(l, "ln_2.bias") = <<E>>
  /\ IsInt8(l, "attn.c_attn.weight") =>
       /\ FloatOf(l, "mlp.c_fc.weight.quant_scale") = <<4 * E>>
       /\ FloatOf(l, "mlp.c_proj.weight.quant_scale") = <<E>>

Sizes ==
  /\ E \in Nat \ {0} /\ Config.heads \in Nat \ {0} /\ Config.layers \in Nat \ {0}
  /\ Config.context \in Nat \ {0} /\ Config.vocabulary \in Nat \ {0}
  /\ E % Config.heads = 0 /\ E <= MaxSize \div 3

LEMMA AcceptedSizes == ASSUME IInv, stage = "accepted" PROVE Sizes
<1>1. IsCheckpoint(checkpoint) /\ GoodSizes
  BY DEF IInv, Locals, Checked
<1>2. /\ E \in Nat \ {0} /\ Config.heads \in Nat \ {0} /\ Config.layers \in Nat \ {0}
      /\ Config.context \in Nat \ {0} /\ Config.vocabulary \in Nat \ {0} /\ MaxSize \in Nat
  BY <1>1, SchemaAssumption DEF SchemaAssumption, IsCheckpoint, Config, E
<1>3. E % Config.heads = 0 /\ 4 * E <= MaxSize
  BY <1>1 DEF GoodSizes, E
<1>4. E <= MaxSize \div 3
  <2> DEFINE e == E
  <2>1. e \in Nat /\ MaxSize \in Nat /\ 3 * e <= MaxSize
    BY <1>2, <1>3
  <2> HIDE DEF e
  <2>2. e <= MaxSize \div 3
    BY <2>1
  <2> QED BY <2>2 DEF e
<1> QED BY <1>2, <1>3, <1>4 DEF Sizes

LEMMA AcceptedEmbeddings == ASSUME IInv, stage = "accepted" PROVE EmbeddingShapes
<1>1. /\ HasWeight(0, "wte.weight") /\ HasTensor(0, "wpe.weight")
      /\ HasTensor(0, "ln_f.weight") /\ HasTensor(0, "ln_f.bias")
  BY DEF IInv, Checked, PassedEmbeddings
<1>2. EmbeddingLookups
  BY <1>1 DEF EmbeddingLookups, HasWeight, HasTensor, IsInt8, ScaleName, ScalePart
<1>3. /\ FloatOf(0, "wpe.weight") = <<Config.context, E>>
      /\ FloatOf(0, "ln_f.weight") = <<E>> /\ FloatOf(0, "ln_f.bias") = <<E>>
      /\ HasFloats(0, {"ln_f.weight", "ln_f.bias"})
  BY <1>1 DEF HasTensor, FloatOf, ShapeOf, E, HasFloats
<1>4. ShapeOf(Config, "wte.weight") = <<Config.vocabulary, E>>
  BY DEF ShapeOf, E
<1>5. EmbeddingTableOf = <<Config.vocabulary, E>>
  BY <1>1, <1>4 DEF EmbeddingTableOf, HasWeight, HasTensor, FloatOf
<1>6. IsInt8(0, "wte.weight") => FloatOf(0, "wte.weight.quant_scale") = <<Config.vocabulary>>
  BY <1>1, <1>4 DEF HasWeight, FloatOf, ScaleName, ScalePart, ScaleShape, EmbeddingPart
<1> QED BY <1>2, <1>3, <1>5, <1>6 DEF EmbeddingShapes

\* The tensors of a layer, by part.
LEMMA AcceptedParts ==
  ASSUME IInv, stage = "accepted", NEW l \in 1..Config.layers
  PROVE  /\ \A part \in PlainParts : FloatOf(l, part) = ShapeOf(Config, part)
         /\ \A part \in LinearParts :
              /\ WeightOf(l, part) = ShapeOf(Config, part)
              /\ IsInt8(l, "attn.c_attn.weight") =>
                   FloatOf(l, ScalePart(part)) = <<ShapeOf(Config, part)[2]>>
<1>1. PassedLayer(l)
  BY DEF IInv, Checked
<1>2. \A part \in PlainParts : FloatOf(l, part) = ShapeOf(Config, part)
  BY <1>1 DEF PassedLayer, HasTensor, FloatOf
<1>3. ASSUME NEW part \in LinearParts
      PROVE  /\ WeightOf(l, part) = ShapeOf(Config, part)
             /\ IsInt8(l, "attn.c_attn.weight") =>
                  FloatOf(l, ScalePart(part)) = <<ShapeOf(Config, part)[2]>>
  <2>1. HasWeight(l, part) /\ (IsInt8(l, part) <=> IsInt8(l, "attn.c_attn.weight"))
    BY <1>1 DEF PassedLayer, LinearParts
  <2>2. part # EmbeddingPart
    BY DEF LinearParts, EmbeddingPart
  <2>3. WeightOf(l, part) = ShapeOf(Config, part)
    BY <2>1 DEF WeightOf, HasWeight, HasTensor, FloatOf
  <2>4. IsInt8(l, part) => FloatOf(l, ScalePart(part)) = <<ShapeOf(Config, part)[2]>>
    BY <2>1, <2>2 DEF HasWeight, FloatOf, ScaleName, ScaleShape
  <2> QED BY <2>1, <2>3, <2>4
<1> QED BY <1>2, <1>3

LEMMA AcceptedLayer ==
  ASSUME IInv, stage = "accepted", NEW l \in 1..Config.layers
  PROVE  LayerLookups(l) /\ AttentionShapes(l) /\ MlpShapes(l)
<1>1. LayerLookups(l)
  BY AcceptedLookups DEF LookupsSucceed
<1>2. /\ \A part \in PlainParts : FloatOf(l, part) = ShapeOf(Config, part)
      /\ \A part \in LinearParts :
           /\ WeightOf(l, part) = ShapeOf(Config, part)
           /\ IsInt8(l, "attn.c_attn.weight") =>
                FloatOf(l, ScalePart(part)) = <<ShapeOf(Config, part)[2]>>
  BY AcceptedParts
<1>3. /\ ShapeOf(Config, "attn.c_attn.weight") = <<E, 3 * E>>
      /\ ShapeOf(Config, "attn.c_proj.weight") = <<E, E>>
      /\ ShapeOf(Config, "mlp.c_fc.weight") = <<E, 4 * E>>
      /\ ShapeOf(Config, "mlp.c_proj.weight") = <<4 * E, E>>
      /\ ShapeOf(Config, "attn.c_attn.bias") = <<3 * E>>
      /\ ShapeOf(Config, "mlp.c_fc.bias") = <<4 * E>>
      /\ \A part \in {"attn.c_proj.bias", "mlp.c_proj.bias", "ln_1.weight", "ln_1.bias",
                      "ln_2.weight", "ln_2.bias"} : ShapeOf(Config, part) = <<E>>
  BY DEF ShapeOf, E
<1>4. /\ ScalePart("attn.c_attn.weight") = "attn.c_attn.weight.quant_scale"
      /\ ScalePart("attn.c_proj.weight") = "attn.c_proj.weight.quant_scale"
      /\ ScalePart("mlp.c_fc.weight") = "mlp.c_fc.weight.quant_scale"
      /\ ScalePart("mlp.c_proj.weight") = "mlp.c_proj.weight.quant_scale"
  BY DEF ScalePart
<1>5. AttentionShapes(l)
  BY <1>2, <1>3, <1>4 DEF AttentionShapes, LinearParts, PlainParts
<1>6. MlpShapes(l)
  BY <1>2, <1>3, <1>4 DEF MlpShapes, LinearParts, PlainParts
<1> QED BY <1>1, <1>5, <1>6

-----------------------------------------------------------------------------
(* The inductive invariant. *)

Working == {"project", "heads", "output", "expand", "contract"}

PassRecords ==
  [stage : Working \cup {"embed", "bind", "failed", "answered"},
   tokens : Nat \ {0}, token : Nat, cached : BOOLEAN, start : Nat, lastOnly : BOOLEAN,
   layer : Nat \ {0}, hidden : Seq(Nat), work : Seq(Nat),
   reason : {"none", "mismatch", "overflow", "unknown token"}]

\* The shape of what a stage works on.
Computed ==
  /\ pass.stage \in Working \cup {"bind"} => pass.hidden = <<pass.tokens, E>>
  /\ pass.stage \in Working => pass.layer \in 1..Config.layers
  /\ pass.stage \in {"project", "output", "expand"} => pass.work = <<pass.tokens, E>>
  /\ pass.stage = "heads" => pass.work = <<pass.tokens, 3 * E>>
  /\ pass.stage = "contract" => pass.work = <<pass.tokens, 4 * E>>

PassInv ==
  pass # NoPass =>
    /\ stage = "accepted"
    /\ pass \in PassRecords
    /\ pass.start + pass.tokens <= Config.context
    /\ ~pass.cached => pass.start = 0
    /\ Computed
    /\ PassFailsOnlyForASize
    /\ LogitsCoverTheVocabulary

UnderWay == IInv /\ PassInv /\ pass # NoPass /\ UNCHANGED vars

\* What the stages have in common.
LEMMA PassFacts ==
  ASSUME UnderWay
  PROVE  /\ stage = "accepted" /\ stage' = "accepted" /\ pass \in PassRecords
         /\ Config' = Config /\ E' = E
         /\ Sizes /\ EmbeddingShapes
         /\ \A l \in 1..Config.layers : LayerLookups(l) /\ AttentionShapes(l) /\ MlpShapes(l)
         /\ pass.tokens \in Nat \ {0} /\ pass.start \in Nat
         /\ pass.start + pass.tokens <= Config.context
         /\ ~pass.cached => pass.start = 0
         /\ Computed
<1>1. IInv /\ stage = "accepted" /\ pass \in PassRecords
  BY DEF UnderWay, PassInv
<1>2. UNCHANGED <<checkpoint, stage>>
  BY DEF UnderWay, vars
<1>3. Config' = Config /\ E' = E
  BY <1>2 DEF Config, E
<1>4. pass.tokens \in Nat \ {0} /\ pass.start \in Nat
  BY <1>1 DEF PassRecords
<1> QED
  BY <1>1, <1>2, <1>3, <1>4, AcceptedSizes, AcceptedEmbeddings, AcceptedLayer
     DEF UnderWay, PassInv

\* A pass that fails for a size, or for an id.
LEMMA FailedInv ==
  ASSUME UnderWay, NEW reason \in {"overflow", "unknown token"},
         pass' = [pass EXCEPT !.stage = "failed", !.reason = reason]
  PROVE  PassInv'
<1>1. pass' \in PassRecords
  BY PassFacts DEF PassRecords
<1>2. /\ pass'.stage = "failed" /\ pass'.reason = reason
      /\ pass'.tokens = pass.tokens /\ pass'.start = pass.start /\ pass'.cached = pass.cached
  BY PassFacts DEF PassRecords
<1> QED
  BY <1>1, <1>2, PassFacts
     DEF PassInv, Computed, Working, PassFailsOnlyForASize, LogitsCoverTheVocabulary

\* A pass that goes on with another tensor.
LEMMA MovedInv ==
  ASSUME UnderWay, NEW next \in Working \cup {"answered"}, NEW work \in Seq(Nat),
         pass' = To(next, work),
         next \in Working => pass.hidden = <<pass.tokens, E>> /\ pass.layer \in 1..Config.layers,
         next \in {"project", "output", "expand"} => work = <<pass.tokens, E>>,
         next = "heads" => work = <<pass.tokens, 3 * E>>,
         next = "contract" => work = <<pass.tokens, 4 * E>>,
         next = "answered" =>
           work = <<IF pass.lastOnly THEN 1 ELSE pass.tokens, Config.vocabulary>>
  PROVE  PassInv'
<1>1. pass' \in PassRecords
  BY PassFacts DEF PassRecords, To
<1>2. /\ pass'.stage = next /\ pass'.work = work /\ pass'.hidden = pass.hidden
      /\ pass'.tokens = pass.tokens /\ pass'.start = pass.start /\ pass'.cached = pass.cached
      /\ pass'.layer = pass.layer /\ pass'.lastOnly = pass.lastOnly
  BY PassFacts DEF PassRecords, To
<1>3. Computed'
  BY <1>2, PassFacts DEF Computed, Working
<1>4. PassFailsOnlyForASize' /\ LogitsCoverTheVocabulary'
  BY <1>2, PassFacts DEF PassFailsOnlyForASize, LogitsCoverTheVocabulary, Working
<1> QED BY <1>1, <1>2, <1>3, <1>4, PassFacts DEF PassInv

-----------------------------------------------------------------------------
(* The steps. *)

\* The shapes of this module are shapes.
LEMMA ShapeType ==
  ASSUME UnderWay
  PROVE  LET n == pass.tokens IN
         /\ {<<n, E>>, <<n, 3 * E>>, <<n, 4 * E>>} \subseteq Seq(Nat)
         /\ {<<1, Config.vocabulary>>, <<n, Config.vocabulary>>} \subseteq Seq(Nat)
<1> DEFINE n == pass.tokens
           v == Config.vocabulary
           e == E
<1>1. n \in Nat /\ v \in Nat /\ e \in Nat
  BY PassFacts DEF Sizes
<1> HIDE DEF n, v, e
<1>2. 3 * e \in Nat /\ 4 * e \in Nat
  BY <1>1
<1>3. \A a, b \in Nat : <<a, b>> \in Seq(Nat)
  OBVIOUS
<1>4. /\ {<<n, e>>, <<n, 3 * e>>, <<n, 4 * e>>} \subseteq Seq(Nat)
      /\ {<<1, v>>, <<n, v>>} \subseteq Seq(Nat)
  BY <1>1, <1>2, <1>3
<1> QED BY <1>4 DEF n, v, e

LEMMA BeginInv ==
  ASSUME IInv, UNCHANGED vars,
         NEW tokens \in 1..Config.context, NEW token \in 0..Config.vocabulary,
         NEW cached \in BOOLEAN, NEW start \in 0..Config.context, NEW lastOnly \in BOOLEAN,
         BeginPass(tokens, token, cached, start, lastOnly)
  PROVE  PassInv'
<1>1. stage = "accepted" /\ UNCHANGED <<checkpoint, stage>>
  BY DEF BeginPass, vars
<1>2. Sizes
  BY <1>1, AcceptedSizes
<1>3. tokens \in Nat \ {0} /\ token \in Nat /\ start \in Nat /\ tokens + start <= Config.context
  BY <1>2 DEF BeginPass, Sizes
<1>4. /\ pass' \in PassRecords /\ pass'.stage = "embed" /\ pass'.tokens = tokens
      /\ pass'.start = start /\ pass'.cached = cached
  BY <1>3 DEF BeginPass, PassRecords
<1>5. Config' = Config
  BY <1>1 DEF Config
<1>6. Computed' /\ PassFailsOnlyForASize' /\ LogitsCoverTheVocabulary'
  BY <1>4 DEF Computed, Working, PassFailsOnlyForASize, LogitsCoverTheVocabulary
<1>7. ~cached => start = 0
  BY DEF BeginPass
<1> QED BY <1>1, <1>2, <1>3, <1>4, <1>5, <1>6, <1>7 DEF PassInv, Sizes

LEMMA EmbedInv == ASSUME UnderWay, Embed PROVE PassInv'
<1> DEFINE n == pass.tokens
           state == <<n, E>>
<1>1. EmbeddingChecks
  BY PassFacts DEF EmbeddingShapes, EmbeddingChecks, IsVector, Sizes
<1>2. EmbeddingTableOf[1] = Config.vocabulary /\ EmbeddingTableOf[2] = E
  BY PassFacts DEF EmbeddingShapes
<1>3. CASE pass.token >= EmbeddingTableOf[1]
  <2>1. pass' = [pass EXCEPT !.stage = "failed", !.reason = "unknown token"]
    BY <1>1, <1>3 DEF Embed
  <2> QED BY <2>1, FailedInv
<1>4. CASE ~(pass.token >= EmbeddingTableOf[1])
  <2>1. Perform(TRUE, {state}, [pass EXCEPT !.stage = "bind", !.hidden = state])
    BY <1>1, <1>2, <1>4 DEF Embed
  <2>2. CASE pass' = [pass EXCEPT !.stage = "failed", !.reason = "overflow"]
    BY <2>2, FailedInv
  <2>3. CASE pass' = [pass EXCEPT !.stage = "bind", !.hidden = state]
    <3>1. state \in Seq(Nat)
      BY ShapeType
    <3>2. /\ pass' \in PassRecords /\ pass'.stage = "bind" /\ pass'.hidden = state
          /\ pass'.tokens = n /\ pass'.start = pass.start /\ pass'.cached = pass.cached
      BY <2>3, <3>1, PassFacts DEF PassRecords
    <3> QED
      BY <3>2, PassFacts
         DEF PassInv, Computed, Working, PassFailsOnlyForASize, LogitsCoverTheVocabulary
  <2> QED BY <2>1, <2>2, <2>3 DEF Perform
<1> QED BY <1>3, <1>4

LEMMA BindInv == ASSUME UnderWay, Bind PROVE PassInv'
<1> DEFINE l == pass.layer
<1>1. /\ l \in 1..Config.layers /\ pass.stage = "bind"
      /\ pass.hidden = <<pass.tokens, E>>
  <2>1. pass.stage = "bind" /\ l <= Config.layers
    BY DEF Bind
  <2>2. l \in Nat \ {0}
    BY PassFacts DEF PassRecords
  <2>3. Config.layers \in Nat
    BY PassFacts DEF Sizes
  <2>4. pass.hidden = <<pass.tokens, E>>
    BY <2>1, PassFacts DEF Computed
  <2> QED BY <2>1, <2>2, <2>3, <2>4
<1>2. LayerLookups(l) /\ Len(pass.hidden) = 2
      /\ NormChecks(pass.hidden, l, "ln_1.weight", "ln_1.bias")
  BY <1>1, PassFacts DEF AttentionShapes, NormChecks, IsVector, Width
<1>3. \/ pass' = [pass EXCEPT !.stage = "failed", !.reason = "overflow"]
      \/ pass' = To("project", pass.hidden)
  BY <1>2 DEF Bind, Perform
<1>4. pass.hidden \in Seq(Nat)
  BY <1>1, ShapeType
<1> QED BY <1>1, <1>3, <1>4, FailedInv, MovedInv DEF Working

LEMMA ProjectInv == ASSUME UnderWay, Project PROVE PassInv'
<1> DEFINE l == pass.layer
           n == pass.tokens
           e == E
           qkv == LinearShape(pass.work, l, "attn.c_attn.weight")
<1>1. /\ l \in 1..Config.layers /\ pass.work = <<n, e>> /\ pass.hidden = <<n, e>>
  BY PassFacts DEF Project, Computed, Working
<1>2. AttentionShapes(l) /\ Sizes
  BY <1>1, PassFacts
<1>3. AttentionChecks(pass.work, l)
  BY <1>1, <1>2 DEF AttentionChecks, AttentionShapes, IsMatrix, IsVector, Sizes
<1>4. CacheChecks(pass.work)
  BY <1>1, <1>2, PassFacts DEF CacheChecks, Sizes, E
<1>5. LinearChecks(pass.work, l, "attn.c_attn.weight", "attn.c_attn.bias")
  <2>1. ScalePart("attn.c_attn.weight") = "attn.c_attn.weight.quant_scale"
    BY DEF ScalePart
  <2> QED BY <1>1, <1>2, <2>1 DEF LinearChecks, AttentionShapes, IsVector
<1>6. qkv = <<n, 3 * e>>
  BY <1>1, <1>2 DEF LinearShape, AttentionShapes
<1>7. \/ pass' = [pass EXCEPT !.stage = "failed", !.reason = "overflow"]
      \/ pass' = To("heads", qkv)
  BY <1>3, <1>4, <1>5 DEF Project, Perform
<1>8. qkv \in Seq(Nat)
  BY <1>6, ShapeType
<1> QED BY <1>1, <1>6, <1>7, <1>8, FailedInv, MovedInv DEF Working

LEMMA AttendInv == ASSUME UnderWay, Attend PROVE PassInv'
<1> DEFINE n == pass.tokens
           size == pass.hidden[2] \div Config.heads
           total == IF pass.cached THEN pass.start + pass.work[1] ELSE pass.work[1]
           offset == IF pass.cached THEN pass.start ELSE 0
           merged == <<pass.work[1], pass.hidden[2]>>
<1>1. /\ pass.layer \in 1..Config.layers /\ pass.hidden = <<n, E>>
      /\ pass.work = <<n, 3 * E>>
  BY PassFacts DEF Attend, Computed, Working
<1>2. n \in Nat /\ pass.start \in Nat /\ pass.work[1] = n
  BY <1>1, PassFacts
<1>3. HeadChecks(<<n, size>>, <<total, size>>, offset)
  BY <1>2 DEF HeadChecks
<1>4. \/ pass' = [pass EXCEPT !.stage = "failed", !.reason = "overflow"]
      \/ pass' = To("output", merged)
  BY <1>2, <1>3 DEF Attend, Perform
<1>5. merged = <<n, E>> /\ merged \in Seq(Nat)
  BY <1>1, ShapeType
<1> QED BY <1>1, <1>4, <1>5, FailedInv, MovedInv DEF Working

LEMMA OutputInv == ASSUME UnderWay, Output PROVE PassInv'
<1> DEFINE l == pass.layer
           n == pass.tokens
           output == LinearShape(pass.work, l, "attn.c_proj.weight")
<1>1. /\ l \in 1..Config.layers /\ pass.work = <<n, E>> /\ pass.hidden = <<n, E>>
  BY PassFacts DEF Output, Computed, Working
<1>2. AttentionShapes(l) /\ MlpShapes(l)
  BY <1>1, PassFacts
<1>3. LinearChecks(pass.work, l, "attn.c_proj.weight", "attn.c_proj.bias")
  <2>1. ScalePart("attn.c_proj.weight") = "attn.c_proj.weight.quant_scale"
    BY DEF ScalePart
  <2> QED BY <1>1, <1>2, <2>1 DEF LinearChecks, AttentionShapes, IsVector
<1>4. output = <<n, E>>
  BY <1>1, <1>2 DEF LinearShape, AttentionShapes
<1>5. NormChecks(output, l, "ln_2.weight", "ln_2.bias")
  <2>1. Width(output) = E
    <3>1. \A a, b : Width(<<a, b>>) = b
      BY DEF Width
    <3> QED BY <1>4, <3>1
  <2>2. Len(<<E>>) = 1 /\ <<E>>[1] = E
    OBVIOUS
  <2> HIDE DEF output
  <2> QED BY <1>2, <2>1, <2>2 DEF NormChecks, MlpShapes, IsVector
<1>6. \/ pass' = [pass EXCEPT !.stage = "failed", !.reason = "overflow"]
      \/ pass' = To("expand", output)
  BY <1>1, <1>3, <1>4, <1>5 DEF Output, Perform
<1>7. output \in Seq(Nat)
  BY <1>4, ShapeType
<1> QED BY <1>1, <1>4, <1>6, <1>7, FailedInv, MovedInv DEF Working

LEMMA ExpandInv == ASSUME UnderWay, Expand PROVE PassInv'
<1> DEFINE l == pass.layer
           n == pass.tokens
           expanded == LinearShape(pass.work, l, "mlp.c_fc.weight")
<1>1. /\ l \in 1..Config.layers /\ pass.work = <<n, E>> /\ pass.hidden = <<n, E>>
  BY PassFacts DEF Expand, Computed, Working
<1>2. MlpShapes(l)
  BY <1>1, PassFacts
<1>3. LinearChecks(pass.work, l, "mlp.c_fc.weight", "mlp.c_fc.bias")
  <2>1. ScalePart("mlp.c_fc.weight") = "mlp.c_fc.weight.quant_scale"
    BY DEF ScalePart
  <2> QED BY <1>1, <1>2, <2>1 DEF LinearChecks, MlpShapes, IsVector
<1>4. expanded = <<n, 4 * E>>
  BY <1>1, <1>2 DEF LinearShape, MlpShapes
<1>5. \/ pass' = [pass EXCEPT !.stage = "failed", !.reason = "overflow"]
      \/ pass' = To("contract", expanded)
  BY <1>3 DEF Expand, Perform
<1>6. expanded \in Seq(Nat)
  BY <1>4, ShapeType
<1> QED BY <1>1, <1>4, <1>5, <1>6, FailedInv, MovedInv DEF Working

LEMMA ContractInv == ASSUME UnderWay, Contract PROVE PassInv'
<1> DEFINE l == pass.layer
           n == pass.tokens
           contracted == LinearShape(pass.work, l, "mlp.c_proj.weight")
<1>1. /\ l \in 1..Config.layers /\ pass.work = <<n, 4 * E>> /\ pass.hidden = <<n, E>>
  BY PassFacts DEF Contract, Computed, Working
<1>2. MlpShapes(l)
  BY <1>1, PassFacts
<1>3. LinearChecks(pass.work, l, "mlp.c_proj.weight", "mlp.c_proj.bias")
  <2>1. ScalePart("mlp.c_proj.weight") = "mlp.c_proj.weight.quant_scale"
    BY DEF ScalePart
  <2> QED BY <1>1, <1>2, <2>1 DEF LinearChecks, MlpShapes, IsVector
<1>4. contracted = <<n, E>>
  BY <1>1, <1>2 DEF LinearShape, MlpShapes
<1>5. CASE pass' = [pass EXCEPT !.stage = "failed", !.reason = "overflow"]
  BY <1>5, FailedInv
<1>6. CASE pass' = [pass EXCEPT !.stage = "bind", !.layer = @ + 1]
  <2>0. pass \in PassRecords /\ l + 1 \in Nat \ {0}
    <3>1. l \in Nat
      BY PassFacts DEF PassRecords
    <3> QED BY <3>1, PassFacts
  <2>1. /\ pass' \in PassRecords /\ pass'.stage = "bind" /\ pass'.hidden = pass.hidden
        /\ pass'.tokens = n /\ pass'.start = pass.start /\ pass'.cached = pass.cached
    BY <1>6, <2>0 DEF PassRecords
  <2> QED
    BY <1>1, <2>1, PassFacts
       DEF PassInv, Computed, Working, PassFailsOnlyForASize, LogitsCoverTheVocabulary
<1>7. \/ pass' = [pass EXCEPT !.stage = "failed", !.reason = "overflow"]
      \/ pass' = [pass EXCEPT !.stage = "bind", !.layer = @ + 1]
  BY <1>1, <1>3, <1>4 DEF Contract, Perform
<1> QED BY <1>5, <1>6, <1>7

LEMMA LogitsInv == ASSUME UnderWay, Logits PROVE PassInv'
<1> DEFINE n == pass.tokens
           rows == IF pass.lastOnly THEN <<1, pass.hidden[2]>> ELSE pass.hidden
           answer == <<IF pass.lastOnly THEN 1 ELSE n, Config.vocabulary>>
<1>1. pass.hidden = <<n, E>>
  BY PassFacts DEF Logits, Computed, Working
<1>2. rows = <<IF pass.lastOnly THEN 1 ELSE n, E>>
  BY <1>1
<1>3. HasFloats(0, {"ln_f.weight", "ln_f.bias"})
  BY PassFacts DEF EmbeddingShapes
<1>4. NormChecks(pass.hidden, 0, "ln_f.weight", "ln_f.bias")
  BY <1>1, PassFacts DEF EmbeddingShapes, NormChecks, IsVector, Width
<1>5. LogitsChecks(rows)
  BY <1>2, PassFacts DEF EmbeddingShapes, LogitsChecks, IsVector
<1>6. LogitsShape(rows) = answer
  BY <1>2, PassFacts DEF EmbeddingShapes, LogitsShape
<1>7. \/ pass' = [pass EXCEPT !.stage = "failed", !.reason = "overflow"]
      \/ pass' = To("answered", answer)
  BY <1>3, <1>4, <1>5, <1>6 DEF Logits, Perform
<1>8. answer \in Seq(Nat)
  BY ShapeType
<1> QED BY <1>7, <1>8, FailedInv, MovedInv DEF Working

-----------------------------------------------------------------------------
(* The theorems. *)

LEMMA NoPassStage == NoPass.stage = "none"
BY DEF NoPass

LEMMA PassInitInv == PassInit => IInv /\ PassInv
BY InitInv DEF PassInit, PassInv

LEMMA PassNextInv == IInv /\ PassInv /\ [PassNext]_passVars => IInv' /\ PassInv'
<1> SUFFICES ASSUME IInv, PassInv, [PassNext]_passVars PROVE IInv' /\ PassInv'
  OBVIOUS
<1>1. CASE Next /\ UNCHANGED pass
  <2>1. IInv'
    BY <1>1, NextInv
  <2>2. CASE pass = NoPass
    BY <1>1, <2>1, <2>2 DEF PassInv
  <2>3. CASE pass # NoPass
    <3>1. stage = "accepted"
      BY <2>3 DEF PassInv
    <3>2. UNCHANGED vars
      BY <1>1, <3>1 DEF Next, CheckSizes, CheckEmbeddings, CheckLayer, CheckEnd, Ended
    <3>3. UNCHANGED <<checkpoint, stage, pass>>
      BY <1>1, <3>2 DEF vars
    <3> QED
      BY <2>1, <3>3 DEF PassInv, Computed, PassFailsOnlyForASize, LogitsCoverTheVocabulary,
                        Config, E
  <2> QED BY <2>1, <2>2, <2>3
<1>2. ASSUME UNCHANGED vars,
             \/ \E tokens \in 1..Config.context, token \in 0..Config.vocabulary,
                   cached, lastOnly \in BOOLEAN, start \in 0..Config.context :
                  BeginPass(tokens, token, cached, start, lastOnly)
             \/ PassStep
      PROVE  IInv' /\ PassInv'
  <2>1. IInv'
    BY <1>2, NextInv
  <2>2. CASE PassStep
    <3>1. pass # NoPass
      <4>1. pass.stage \in Working \cup {"embed", "bind"}
        BY <2>2 DEF PassStep, Embed, Bind, Project, Attend, Output, Expand, Contract, Logits,
                    Working
      <4> QED BY <4>1, NoPassStage DEF Working
    <3>2. UnderWay
      BY <1>2, <3>1 DEF UnderWay
    <3> QED
      BY <2>1, <2>2, <3>2, EmbedInv, BindInv, ProjectInv, AttendInv, OutputInv, ExpandInv,
         ContractInv, LogitsInv DEF PassStep
  <2> QED BY <1>2, <2>1, <2>2, BeginInv
<1>3. CASE UNCHANGED passVars
  <2>1. UNCHANGED vars /\ UNCHANGED <<checkpoint, stage, pass>>
    BY <1>3 DEF passVars, vars
  <2>2. IInv'
    BY <2>1, NextInv
  <2> QED
    BY <2>1, <2>2 DEF PassInv, Computed, PassFailsOnlyForASize, LogitsCoverTheVocabulary,
                      Config, E
<1> QED BY <1>1, <1>2, <1>3 DEF PassNext

\* A checkpoint is a model, and every pass on it has the shapes of its stage.
THEOREM PassInvariant == PassSpec => [](IInv /\ PassInv)
BY PassInitInv, PassNextInv, PTL DEF PassSpec

\* No pass fails on a model that was constructed, of whatever sizes and in whatever
\* mixture of precisions, but for an unknown id or a tensor beyond a size_t.
THEOREM PassesFailOnlyForASize == PassSpec => []PassFailsOnlyForASize
<1>1. PassInv => PassFailsOnlyForASize
  BY NoPassStage DEF PassInv, PassFailsOnlyForASize
<1> QED BY <1>1, PassInvariant, PTL

\* And its logits have a row for each token asked for and a column for each word.
THEOREM LogitsAlwaysCoverTheVocabulary == PassSpec => []LogitsCoverTheVocabulary
<1>1. PassInv => LogitsCoverTheVocabulary
  BY NoPassStage DEF PassInv, LogitsCoverTheVocabulary
<1> QED BY <1>1, PassInvariant, PTL

-----------------------------------------------------------------------------
(* The names of the exporter are the names of a model.                      *)

Occurs(x, s) == \E i \in 1..Len(s) : s[i] = x

LEMMA OccursInConcat ==
  ASSUME NEW S, NEW s \in Seq(S), NEW t \in Seq(S), NEW x
  PROVE  Occurs(x, s \o t) <=> Occurs(x, s) \/ Occurs(x, t)
<1>1. /\ Len(s) \in Nat /\ Len(t) \in Nat /\ Len(s \o t) = Len(s) + Len(t)
      /\ \A i \in 1..(Len(s) + Len(t)) :
           (s \o t)[i] = IF i <= Len(s) THEN s[i] ELSE t[i - Len(s)]
  BY ConcatProperties, LenProperties
<1> DEFINE m == Len(s)
           n == Len(t)
           u == s \o t
<1>2. /\ m \in Nat /\ n \in Nat /\ Len(u) = m + n
      /\ \A i \in 1..(m + n) : u[i] = IF i <= m THEN s[i] ELSE t[i - m]
  BY <1>1
<1> HIDE DEF m, n, u
<1>3. ASSUME NEW i \in 1..m PROVE i \in 1..(m + n) /\ u[i] = s[i]
  BY <1>2
<1>4. ASSUME NEW i \in 1..n PROVE m + i \in 1..(m + n) /\ u[m + i] = t[i]
  <2>1. m + i \in 1..(m + n) /\ ~(m + i <= m) /\ (m + i) - m = i
    BY <1>2
  <2> QED BY <1>2, <2>1
<1>5. ASSUME NEW i \in 1..(m + n)
      PROVE  (i \in 1..m /\ u[i] = s[i]) \/ (i - m \in 1..n /\ u[i] = t[i - m])
  BY <1>2
<1>6. /\ Occurs(x, s) <=> \E i \in 1..m : s[i] = x
      /\ Occurs(x, t) <=> \E i \in 1..n : t[i] = x
      /\ Occurs(x, s \o t) <=> \E i \in 1..(m + n) : u[i] = x
  BY <1>2 DEF Occurs, m, n, u
<1>7. (\E i \in 1..m : s[i] = x) => \E i \in 1..(m + n) : u[i] = x
  BY <1>3
<1>8. (\E i \in 1..n : t[i] = x) => \E i \in 1..(m + n) : u[i] = x
  BY <1>4
<1>9. (\E i \in 1..(m + n) : u[i] = x)
        => (\E i \in 1..m : s[i] = x) \/ (\E i \in 1..n : t[i] = x)
  BY <1>5
<1> QED BY <1>6, <1>7, <1>8, <1>9

LayerParts == LinearParts \cup PlainParts

SpecOf(config, name) == [name |-> name, shape |-> ShapeOf(config, name[2])]

ModelSpecs(config) == {SpecOf(config, name) : name \in BaseNames(config)}

\* The definition by recursion of the specs of the layers defines a function.
LayersSpecified(f, n, e) ==
  f = [l \in 0..n |-> IF l = 0 THEN <<>> ELSE f[l - 1] \o LayerSpecs(l, e)]

LEMMA LayersDefined ==
  ASSUME NEW n \in Nat, NEW e
  PROVE  \E f : LayersSpecified(f, n, e)
<1> DEFINE S == {m \in Nat : \E f : LayersSpecified(f, m, e)}
<1>1. 0 \in S
  <2> DEFINE f == [l \in 0..0 |-> <<>>]
  <2>1. f = [l \in 0..0 |-> IF l = 0 THEN <<>> ELSE f[l - 1] \o LayerSpecs(l, e)]
    OBVIOUS
  <2> QED BY <2>1 DEF LayersSpecified
<1>2. ASSUME NEW m \in Nat, m \in S PROVE m + 1 \in S
  <2>1. PICK f : f = [l \in 0..m |-> IF l = 0 THEN <<>> ELSE f[l - 1] \o LayerSpecs(l, e)]
    BY <1>2 DEF LayersSpecified
  <2> DEFINE last == f[m] \o LayerSpecs(m + 1, e)
             h == [l \in 0..(m + 1) |-> IF l = m + 1 THEN last ELSE f[l]]
  <2>2. ASSUME NEW l \in 0..(m + 1)
        PROVE  h[l] = IF l = 0 THEN <<>> ELSE h[l - 1] \o LayerSpecs(l, e)
    <3>1. CASE l = m + 1
      <4>1. l # 0 /\ l - 1 = m /\ m \in 0..(m + 1) /\ m # m + 1
        BY <3>1
      <4>2. h[l] = last /\ h[l - 1] = f[m]
        <5> HIDE DEF last
        <5> QED BY <3>1, <4>1
      <4> HIDE DEF h
      <4> QED BY <3>1, <4>1, <4>2
    <3>2. CASE l # m + 1
      <4>1. l \in 0..m /\ h[l] = f[l]
        BY <3>2
      <4>2. l # 0 => h[l - 1] = f[l - 1]
        BY <4>1
      <4>3. f[l] = IF l = 0 THEN <<>> ELSE f[l - 1] \o LayerSpecs(l, e)
        BY <2>1, <4>1
      <4> HIDE DEF h
      <4> QED BY <4>1, <4>2, <4>3
    <3> QED BY <3>1, <3>2
  <2>3. h = [l \in 0..(m + 1) |-> IF l = 0 THEN <<>> ELSE h[l - 1] \o LayerSpecs(l, e)]
    <3>1. h = [l \in 0..(m + 1) |-> h[l]]
      OBVIOUS
    <3> HIDE DEF h
    <3> QED BY <2>2, <3>1
  <2> HIDE DEF h
  <2>4. LayersSpecified(h, m + 1, e)
    BY <2>3 DEF LayersSpecified
  <2>5. m + 1 \in Nat
    OBVIOUS
  <2> QED BY <2>4, <2>5
<1>3. n \in S
  <2> HIDE DEF S
  <2> QED BY <1>1, <1>2, Induction
<1> QED BY <1>3

\* The specs of one layer are those of its parts.
AreOfLayer(s, config, l) ==
  /\ Len(s) = 12 /\ DOMAIN s = 1..12
  /\ \A i \in 1..12 : \E part \in LayerParts : s[i] = SpecOf(config, <<l, part>>)
  /\ \A part \in LayerParts : \E i \in 1..12 : s[i] = SpecOf(config, <<l, part>>)

LEMMA LayerSpecsAre ==
  ASSUME NEW config, NEW l
  PROVE  AreOfLayer(LayerSpecs(l, config.embedding), config, l)
<1> DEFINE s == LayerSpecs(l, config.embedding)
           e == config.embedding
           Is(i, part) == s[i] = SpecOf(config, <<l, part>>)
<1>1. Len(s) = 12 /\ DOMAIN s = 1..12
  BY DEF LayerSpecs
<1>2. /\ s[1] = Spec1(<<l, "ln_1.weight">>, e) /\ s[2] = Spec1(<<l, "ln_1.bias">>, e)
      /\ s[3] = Spec2(<<l, "attn.c_attn.weight">>, e, 3 * e)
      /\ s[4] = Spec1(<<l, "attn.c_attn.bias">>, 3 * e)
      /\ s[5] = Spec2(<<l, "attn.c_proj.weight">>, e, e)
      /\ s[6] = Spec1(<<l, "attn.c_proj.bias">>, e)
      /\ s[7] = Spec1(<<l, "ln_2.weight">>, e) /\ s[8] = Spec1(<<l, "ln_2.bias">>, e)
      /\ s[9] = Spec2(<<l, "mlp.c_fc.weight">>, e, 4 * e)
      /\ s[10] = Spec1(<<l, "mlp.c_fc.bias">>, 4 * e)
      /\ s[11] = Spec2(<<l, "mlp.c_proj.weight">>, 4 * e, e)
      /\ s[12] = Spec1(<<l, "mlp.c_proj.bias">>, e)
  BY DEF LayerSpecs
<1> HIDE DEF s
<1>3. /\ Is(1, "ln_1.weight") /\ Is(2, "ln_1.bias") /\ Is(3, "attn.c_attn.weight")
      /\ Is(4, "attn.c_attn.bias") /\ Is(5, "attn.c_proj.weight") /\ Is(6, "attn.c_proj.bias")
  BY <1>2 DEF Spec1, Spec2, SpecOf, ShapeOf
<1>4. /\ Is(7, "ln_2.weight") /\ Is(8, "ln_2.bias") /\ Is(9, "mlp.c_fc.weight")
      /\ Is(10, "mlp.c_fc.bias") /\ Is(11, "mlp.c_proj.weight") /\ Is(12, "mlp.c_proj.bias")
  BY <1>2 DEF Spec1, Spec2, SpecOf, ShapeOf
<1> HIDE DEF Is
<1>5. \A i \in 1..12 : \/ i = 1 \/ i = 2 \/ i = 3 \/ i = 4 \/ i = 5 \/ i = 6
                       \/ i = 7 \/ i = 8 \/ i = 9 \/ i = 10 \/ i = 11 \/ i = 12
  OBVIOUS
<1>6. \A i \in 1..12 : \E part \in LayerParts : Is(i, part)
  BY <1>3, <1>4, <1>5 DEF LayerParts, LinearParts, PlainParts
<1>7. \A part \in LayerParts : \E i \in 1..12 : Is(i, part)
  BY <1>3, <1>4 DEF LayerParts, LinearParts, PlainParts
<1> QED BY <1>1, <1>6, <1>7 DEF Is, s, AreOfLayer

LEMMA SpecsAre ==
  ASSUME NEW config, config.layers \in Nat
  PROVE  /\ TensorSpecs(config) \in Seq(ModelSpecs(config))
         /\ \A name \in BaseNames(config) : \E i \in DOMAIN TensorSpecs(config) :
              TensorSpecs(config)[i] = SpecOf(config, name)
<1> DEFINE e == config.embedding
           n == config.layers
           M == ModelSpecs(config)
           layers == CHOOSE f : LayersSpecified(f, n, e)
           first == <<Spec2(<<0, "wte.weight">>, config.vocabulary, e),
                      Spec2(<<0, "wpe.weight">>, config.context, e)>>
           end == <<Spec1(<<0, "ln_f.weight">>, e), Spec1(<<0, "ln_f.bias">>, e)>>
           Holds(s, names) == \A name \in names : Occurs(SpecOf(config, name), s)
<1>1. LayersSpecified(layers, n, e)
  BY LayersDefined
<1>2. TensorSpecs(config) = (first \o layers[n]) \o end
  BY DEF TensorSpecs, LayersSpecified
<1> HIDE DEF layers
<1>3. /\ first \in Seq(M) /\ Len(first) = 2
      /\ first[1] = SpecOf(config, <<0, "wte.weight">>)
      /\ first[2] = SpecOf(config, <<0, "wpe.weight">>)
      /\ end \in Seq(M) /\ Len(end) = 2
      /\ end[1] = SpecOf(config, <<0, "ln_f.weight">>)
      /\ end[2] = SpecOf(config, <<0, "ln_f.bias">>)
  <2>1. \A part \in TopParts : SpecOf(config, <<0, part>>) \in M
    BY DEF ModelSpecs, BaseNames
  <2>2. /\ first[1] = SpecOf(config, <<0, "wte.weight">>)
        /\ first[2] = SpecOf(config, <<0, "wpe.weight">>)
        /\ end[1] = SpecOf(config, <<0, "ln_f.weight">>)
        /\ end[2] = SpecOf(config, <<0, "ln_f.bias">>)
    BY DEF Spec1, Spec2, SpecOf, ShapeOf
  <2>3. {first[1], first[2], end[1], end[2]} \subseteq M
    <3> HIDE DEF first, end
    <3> QED BY <2>1, <2>2 DEF TopParts
  <2>4. first = <<first[1], first[2]>> /\ end = <<end[1], end[2]>>
    OBVIOUS
  <2> HIDE DEF first, end, M
  <2>5. /\ <<first[1], first[2]>> \in Seq(M) /\ Len(<<first[1], first[2]>>) = 2
        /\ <<end[1], end[2]>> \in Seq(M) /\ Len(<<end[1], end[2]>>) = 2
    BY <2>3
  <2>6. first \in Seq(M) /\ Len(first) = 2 /\ end \in Seq(M) /\ Len(end) = 2
    BY <2>4, <2>5
  <2> QED BY <2>2, <2>6
<1>4. ASSUME NEW l \in 1..n
      PROVE  LayerSpecs(l, e) \in Seq(M) /\ Holds(LayerSpecs(l, e), {l} \X LayerParts)
  <2> DEFINE s == LayerSpecs(l, e)
  <2>1. AreOfLayer(s, config, l)
    BY LayerSpecsAre
  <2>2. \A part \in LayerParts : SpecOf(config, <<l, part>>) \in M
    BY DEF ModelSpecs, BaseNames, LayerParts
  <2>3. s = [i \in 1..12 |-> s[i]]
    BY DEF LayerSpecs
  <2> HIDE DEF s, M
  <2>4. s \in Seq(M)
    <3>1. \A i \in 1..12 : s[i] \in M
      BY <2>1, <2>2 DEF AreOfLayer
    <3>2. s \in [1..12 -> M]
      BY <2>3, <3>1
    <3>3. \A m \in Nat : [1..m -> M] \subseteq Seq(M)
      BY SeqDef
    <3> QED BY <3>2, <3>3
  <2>5. Holds(s, {l} \X LayerParts)
    BY <2>1 DEF AreOfLayer, Occurs
  <2> QED BY <2>4, <2>5 DEF s
<1> DEFINE Good(k) == layers[k] \in Seq(M) /\ Holds(layers[k], (1..k) \X LayerParts)
           S == {k \in Nat : k <= n => Good(k)}
<1>5. \A k \in 0..n : layers[k] = IF k = 0 THEN <<>> ELSE layers[k - 1] \o LayerSpecs(k, e)
  BY <1>1 DEF LayersSpecified
<1> HIDE DEF M, e
<1>6. Good(0)
  <2>1. layers[0] = <<>>
    BY <1>5
  <2>2. (1..0) \X LayerParts = {}
    OBVIOUS
  <2>3. layers[0] \in Seq(M)
    BY <2>1
  <2> QED BY <2>2, <2>3
<1>7. ASSUME NEW k \in Nat, k + 1 <= n, Good(k) PROVE Good(k + 1)
  <2> DEFINE s == layers[k]
             t == LayerSpecs(k + 1, e)
  <2>1. k + 1 \in 0..n /\ k + 1 \in 1..n /\ k + 1 # 0 /\ (k + 1) - 1 = k
    BY <1>7
  <2>2. layers[k + 1] = s \o t
    BY <1>5, <2>1
  <2>3. s \in Seq(M) /\ t \in Seq(M)
    BY <1>4, <1>7, <2>1
  <2>4. Holds(s, (1..k) \X LayerParts) /\ Holds(t, {k + 1} \X LayerParts)
    BY <1>4, <1>7, <2>1
  <2>5. \A name \in (1..(k + 1)) \X LayerParts :
          name \in (1..k) \X LayerParts \/ name \in {k + 1} \X LayerParts
    OBVIOUS
  <2> HIDE DEF s, t
  <2>6. s \o t \in Seq(M)
    BY <2>3, ConcatProperties
  <2>7. \A x : Occurs(x, s \o t) <=> Occurs(x, s) \/ Occurs(x, t)
    BY <2>3, OccursInConcat
  <2>8. Holds(s \o t, (1..(k + 1)) \X LayerParts)
    BY <2>4, <2>5, <2>7
  <2> QED BY <2>2, <2>6, <2>8
<1>8. Good(n)
  <2>1. 0 \in S
    BY <1>6
  <2>2. \A k \in Nat : k \in S => k + 1 \in S
    <3> HIDE DEF Good
    <3> QED BY <1>7
  <2> HIDE DEF S
  <2>3. n \in S
    BY <2>1, <2>2, Induction
  <2> QED BY <2>3 DEF S
<1> DEFINE s == first \o layers[n]
<1>9. s \in Seq(M) /\ \A x : Occurs(x, s) <=> Occurs(x, first) \/ Occurs(x, layers[n])
  <2> HIDE DEF first
  <2> QED BY <1>3, <1>8, ConcatProperties, OccursInConcat
<1> DEFINE all == s \o end
<1>10. all \in Seq(M) /\ \A x : Occurs(x, all) <=> Occurs(x, s) \/ Occurs(x, end)
  <2> HIDE DEF s, end
  <2> QED BY <1>3, <1>9, ConcatProperties, OccursInConcat
<1>11. \A part \in TopParts :
         Occurs(SpecOf(config, <<0, part>>), first) \/ Occurs(SpecOf(config, <<0, part>>), end)
  <2> HIDE DEF first, end
  <2>1. 1 \in 1..Len(first) /\ 2 \in 1..Len(first) /\ 1 \in 1..Len(end) /\ 2 \in 1..Len(end)
    BY <1>3
  <2> QED BY <1>3, <2>1 DEF Occurs, TopParts
<1>12. \A name \in BaseNames(config) :
         (\E part \in TopParts : name = <<0, part>>) \/ name \in (1..n) \X LayerParts
  BY DEF BaseNames, LayerParts
<1>13. all = TensorSpecs(config)
  BY <1>2
<1> HIDE DEF s, all, first, end
<1>14. \A name \in BaseNames(config) : Occurs(SpecOf(config, name), all)
  BY <1>8, <1>9, <1>10, <1>11, <1>12
<1>15. DOMAIN all = 1..Len(all)
  BY <1>10, LenProperties
<1> QED BY <1>10, <1>13, <1>14, <1>15 DEF Occurs, M

-----------------------------------------------------------------------------
(* What the exporter has collected.                                         *)

\* The records of a tensor: its values, and the scales if it is quantized.
AreRecords(rs) ==
  /\ Len(rs) \in 1..2
  /\ Len(rs[1].name) = 2
  /\ Len(rs) = 2 => Len(rs[2].name) = 3

LEMMA RecordsOfTensor ==
  ASSUME NEW name, Len(name) = 2, NEW tensor, NEW T,
         {RecordsOf(name, tensor)[1], RecordsOf(name, tensor)[2]} \subseteq T
  PROVE  RecordsOf(name, tensor) \in Seq(T) /\ AreRecords(RecordsOf(name, tensor))
<1> DEFINE rs == RecordsOf(name, tensor)
           axis == AxisOf(name)
<1>1. CASE axis = Unquantized
  <2> DEFINE r == Record(name, "float32", tensor.shape, tensor.data)
  <2>1. rs = <<r>> /\ Len(r.name) = 2
    BY <1>1 DEF RecordsOf, Record
  <2> HIDE DEF r, rs
  <2>2. rs[1] = r /\ Len(rs) = 1
    BY <2>1
  <2>3. r \in T
    BY <2>2 DEF rs
  <2>4. rs \in Seq(T)
    BY <2>1, <2>3
  <2> QED BY <2>1, <2>2, <2>4 DEF AreRecords, rs
<1>2. CASE axis # Unquantized
  <2> DEFINE r == Record(name, "int8", tensor.shape, Quantized(tensor, axis))
             s == Record(ScaleOf(name), "float32", <<tensor.shape[axis]>>, Scales(tensor, axis))
  <2>1. rs = <<r, s>> /\ Len(r.name) = 2 /\ Len(s.name) = 3
    BY <1>2 DEF RecordsOf, Record, ScaleOf
  <2> HIDE DEF r, s, rs
  <2>2. rs[1] = r /\ rs[2] = s /\ Len(rs) = 2
    BY <2>1
  <2>3. r \in T /\ s \in T
    BY <2>2 DEF rs
  <2>4. rs \in Seq(T)
    BY <2>1, <2>3
  <2> QED BY <2>1, <2>2, <2>4 DEF AreRecords, rs
<1> QED BY <1>1, <1>2

\* The record at an index is one of a tensor, and scales come right after the values.
Placed(r, i, rs) ==
  \/ /\ r[i] = rs[1]
     /\ Len(rs) = 2 => i + 1 \in 1..Len(r) /\ r[i + 1] = rs[2]
  \/ Len(rs) = 2 /\ r[i] = rs[2]

\* What is collected are the records of the first c tensors, all of them and no other.
Collection(r, c, parts) ==
  /\ \A j \in 1..c : \A k \in 1..Len(parts[j]) : Occurs(parts[j][k], r)
  /\ \A i \in 1..Len(r) : \E j \in 1..c : Placed(r, i, parts[j])

LEMMA CollectionGrows ==
  ASSUME NEW S, NEW r \in Seq(S), NEW rs \in Seq(S), Len(rs) \in 1..2,
         NEW c \in Nat, NEW parts, parts[c + 1] = rs, Collection(r, c, parts)
  PROVE  Collection(r \o rs, c + 1, parts)
<1> DEFINE m == Len(r)
           n == Len(rs)
           u == r \o rs
<1>1. /\ m \in Nat /\ n \in 1..2 /\ Len(u) = m + n
      /\ \A i \in 1..(m + n) : u[i] = IF i <= m THEN r[i] ELSE rs[i - m]
  BY ConcatProperties, LenProperties
<1>2. \A x : Occurs(x, u) <=> Occurs(x, r) \/ Occurs(x, rs)
  BY OccursInConcat
<1>3. ASSUME NEW j \in 1..(c + 1), NEW k \in 1..Len(parts[j])
      PROVE  Occurs(parts[j][k], u)
  <2>1. CASE j = c + 1
    <3>1. Occurs(parts[j][k], rs)
      BY <1>3, <2>1 DEF Occurs
    <3> QED BY <1>2, <3>1
  <2>2. CASE j # c + 1
    <3>1. j \in 1..c
      BY <2>2
    <3>2. Occurs(parts[j][k], r)
      BY <3>1 DEF Collection
    <3> QED BY <1>2, <3>2
  <2> QED BY <2>1, <2>2
<1> HIDE DEF u
<1>4. ASSUME NEW i \in 1..(m + n)
      PROVE  \E j \in 1..(c + 1) : Placed(u, i, parts[j])
  <2>1. CASE i <= m
    <3>1. i \in 1..m
      BY <1>1, <2>1
    <3>2. PICK j \in 1..c : Placed(r, i, parts[j])
      BY <3>1 DEF Collection
    <3>3. j \in 1..(c + 1) /\ u[i] = r[i]
      BY <1>1, <2>1
    <3>4. i + 1 \in 1..m => i + 1 \in 1..Len(u) /\ u[i + 1] = r[i + 1]
      <4> HIDE DEF m, n
      <4> QED BY <1>1
    <3>5. Placed(u, i, parts[j])
      BY <3>2, <3>3, <3>4 DEF Placed
    <3> QED BY <3>3, <3>5
  <2>2. CASE ~(i <= m)
    <3>1. i = m + 1 \/ (i = m + 2 /\ n = 2)
      <4> HIDE DEF m, n
      <4> QED BY <1>1, <2>2
    <3>2. u[m + 1] = rs[1]
      <4>1. m + 1 \in 1..(m + n) /\ ~(m + 1 <= m) /\ (m + 1) - m = 1
        <5> HIDE DEF m, n
        <5> QED BY <1>1
      <4> HIDE DEF m, n
      <4> QED BY <1>1, <4>1
    <3>3. n = 2 => u[m + 2] = rs[2] /\ m + 2 \in 1..Len(u) /\ (m + 1) + 1 = m + 2
      <4>1. n = 2 => m + 2 \in 1..(m + n) /\ ~(m + 2 <= m) /\ (m + 2) - m = 2
        <5> HIDE DEF m, n
        <5> QED BY <1>1
      <4> HIDE DEF m, n
      <4> QED BY <1>1, <4>1
    <3>4. Placed(u, i, rs)
      <4>1. CASE i = m + 1
        BY <3>2, <3>3, <4>1 DEF Placed
      <4>2. CASE i = m + 2 /\ n = 2
        BY <3>3, <4>2 DEF Placed
      <4> QED BY <3>1, <4>1, <4>2
    <3>5. c + 1 \in 1..(c + 1)
      OBVIOUS
    <3> QED BY <3>4, <3>5
  <2> QED BY <2>1, <2>2
<1> HIDE DEF m, n
<1>5. \A i \in 1..Len(u) : \E j \in 1..(c + 1) : Placed(u, i, parts[j])
  BY <1>1, <1>4
<1> QED BY <1>3, <1>5 DEF Collection, u

\* The records that are no scales: one for each tensor.
TensorIndices(r) == {i \in DOMAIN r : Len(r[i].name) = 2}

LEMMA TensorIndicesGrow ==
  ASSUME NEW S, NEW r \in Seq(S), NEW rs \in Seq(S), AreRecords(rs)
  PROVE  /\ IsFiniteSet(TensorIndices(r)) /\ Cardinality(TensorIndices(r)) \in Nat
         /\ Cardinality(TensorIndices(r \o rs)) = Cardinality(TensorIndices(r)) + 1
<1> DEFINE m == Len(r)
           n == Len(rs)
           u == r \o rs
           A == TensorIndices(r)
<1>1. /\ m \in Nat /\ n \in 1..2 /\ Len(u) = m + n /\ u \in Seq(S)
      /\ \A i \in 1..(m + n) : u[i] = IF i <= m THEN r[i] ELSE rs[i - m]
  BY ConcatProperties, LenProperties DEF AreRecords
<1>2. DOMAIN r = 1..m /\ DOMAIN u = 1..(m + n)
  BY <1>1, LenProperties
<1>3. A \subseteq 1..m /\ IsFiniteSet(1..m)
  BY <1>1, <1>2, FS_Interval DEF TensorIndices
<1>4. IsFiniteSet(A) /\ Cardinality(A) \in Nat
  BY <1>3, FS_Subset, FS_CardinalityType
<1> HIDE DEF u
<1>5. m + 1 \in 1..(m + n) /\ u[m + 1] = rs[1]
  <2>1. m + 1 \in 1..(m + n) /\ ~(m + 1 <= m) /\ (m + 1) - m = 1
    <3> HIDE DEF m, n
    <3> QED BY <1>1
  <2> HIDE DEF m, n
  <2> QED BY <1>1, <2>1
<1>6. ASSUME NEW i \in 1..(m + n)
      PROVE  i \in TensorIndices(u) <=> i \in A \/ i = m + 1
  <2>1. i \in TensorIndices(u) <=> Len(u[i].name) = 2
    BY <1>2 DEF TensorIndices
  <2>2. CASE i <= m
    <3>1. i \in 1..m /\ i # m + 1 /\ u[i] = r[i]
      BY <1>1, <2>2
    <3>2. i \in A <=> Len(r[i].name) = 2
      BY <1>2, <3>1 DEF TensorIndices
    <3> QED BY <2>1, <3>1, <3>2
  <2>3. CASE i = m + 1
    BY <1>5, <2>1, <2>3 DEF AreRecords
  <2>4. CASE ~(i <= m) /\ i # m + 1
    <3>1. n = 2 /\ i - m = 2
      <4> HIDE DEF m, n
      <4> QED BY <1>1, <2>4
    <3>2. u[i] = rs[2]
      BY <1>1, <2>4, <3>1
    <3>3. i \notin A
      BY <1>3, <2>4
    <3>4. Len(u[i].name) = 3
      BY <3>1, <3>2 DEF AreRecords
    <3>5. Len(u[i].name) # 2
      BY <3>4
    <3> HIDE DEF A, m
    <3> QED BY <2>1, <2>4, <3>3, <3>5
  <2> QED BY <2>2, <2>3, <2>4
<1>7. TensorIndices(u) = A \cup {m + 1}
  <2>1. TensorIndices(u) \subseteq 1..(m + n)
    BY <1>2 DEF TensorIndices
  <2>2. A \cup {m + 1} \subseteq 1..(m + n)
    <3> HIDE DEF m, n, A
    <3> QED BY <1>1, <1>3
  <2> HIDE DEF A, m, n
  <2> QED BY <1>6, <2>1, <2>2
<1>8. m + 1 \notin A
  <2> HIDE DEF A, m
  <2> QED BY <1>1, <1>3
<1> HIDE DEF A, m
<1> QED BY <1>4, <1>7, <1>8, FS_AddElement DEF A, u

LEMMA SourceTypes ==
  \A s \in Sources :
    /\ s.config.vocabulary \in Nat \ {0} /\ s.config.context \in Nat \ {0}
    /\ s.config.embedding \in Nat \ {0} /\ s.config.heads \in Nat \ {0}
    /\ s.config.layers \in Nat \ {0}
    /\ DOMAIN s.state \subseteq Nat \X STRING
    /\ \A name \in DOMAIN s.state : IsTensor(s.state[name])
BY ExporterAssumption DEF ExporterAssumption

\* The specs of a model, by its configuration: those of its names, and of no other.
SpecsOf(config, specs) ==
  /\ specs \in Seq(ModelSpecs(config))
  /\ Len(specs) \in Nat /\ DOMAIN specs = 1..Len(specs)
  /\ \A j \in 1..Len(specs) :
       /\ specs[j].name \in BaseNames(config) /\ Len(specs[j].name) = 2
       /\ specs[j].shape = ShapeOf(config, specs[j].name[2])
  /\ {specs[j].name : j \in DOMAIN specs} = BaseNames(config)

LEMMA SpecsOfModel ==
  ASSUME NEW config, config.layers \in Nat
  PROVE  SpecsOf(config, TensorSpecs(config))
<1> DEFINE specs == TensorSpecs(config)
<1>1. /\ specs \in Seq(ModelSpecs(config))
      /\ \A name \in BaseNames(config) : \E i \in DOMAIN specs : specs[i] = SpecOf(config, name)
  BY SpecsAre
<1> HIDE DEF specs
<1>2. Len(specs) \in Nat /\ DOMAIN specs = 1..Len(specs)
  BY <1>1, LenProperties
<1>3. \A name \in BaseNames(config) : Len(name) = 2
  BY DEF BaseNames
<1>4. ASSUME NEW j \in 1..Len(specs)
      PROVE  /\ specs[j].name \in BaseNames(config)
             /\ specs[j].shape = ShapeOf(config, specs[j].name[2])
  <2>1. specs[j] \in ModelSpecs(config)
    BY <1>1, <1>2, ElementOfSeq
  <2> QED BY <2>1 DEF ModelSpecs, SpecOf
<1>5. \A name \in BaseNames(config) : \E i \in DOMAIN specs : specs[i].name = name
  BY <1>1 DEF SpecOf
<1>6. {specs[j].name : j \in DOMAIN specs} = BaseNames(config)
  BY <1>2, <1>4, <1>5
<1> QED BY <1>1, <1>2, <1>3, <1>4, <1>6 DEF SpecsOf, specs

LEMMA Expected ==
  ASSUME source \in Sources
  PROVE  SpecsOf(source.config, Specs) /\ ExpectedNames = BaseNames(source.config)
<1>1. source.config.layers \in Nat
  BY SourceTypes
<1>2. SpecsOf(source.config, Specs)
  BY <1>1, SpecsOfModel DEF Specs
<1> QED BY <1>2 DEF SpecsOf, ExpectedNames

-----------------------------------------------------------------------------
(* The invariant of the exporter. *)

\* The records of each tensor, in the order of the specs.
Parts == [j \in 1..Len(Specs) |-> RecordsOf(Specs[j].name, source.state[Specs[j].name])]

RecordSet == UNION {{Parts[j][1], Parts[j][2]} : j \in 1..Len(Specs)}

SpecIsMet(s, spec) == spec.name \in DOMAIN s.state /\ s.state[spec.name].shape = spec.shape

SourceInv ==
  /\ source \in Sources
  /\ flags \in [layers : BOOLEAN, embedding : BOOLEAN]

RecordsInv ==
  /\ records \in Seq(RecordSet)
  /\ Collected \in 0..Len(Specs)
  /\ Collection(records, Collected, Parts)
  /\ \A j \in 1..Collected : SpecIsMet(source, Specs[j])

\* What the checks before the present phase have found out.
PhaseInv ==
  /\ phase \in {"names", "tensors", "exported", "constructed"} =>
       source.supported /\ source.config.embedding % source.config.heads = 0
  /\ phase \in {"tensors", "exported", "constructed"} => NamesAreExpected /\ source.tied
  /\ phase \in {"exported", "constructed"} => Collected = Len(Specs)
  /\ phase = "refused" => ~IsExportable(source)

ExportInv ==
  IF phase = "none" THEN records = <<>> ELSE SourceInv /\ RecordsInv /\ PhaseInv

LEMMA SameParts ==
  ASSUME UNCHANGED <<source, flags>>
  PROVE  /\ Specs' = Specs /\ Parts' = Parts /\ RecordSet' = RecordSet
         /\ (NamesAreExpected <=> NamesAreExpected')
         /\ (SourceInv => SourceInv')
<1>1. Specs' = Specs
  BY DEF Specs
<1>2. Parts' = Parts
  BY <1>1 DEF Parts, RecordsOf, AxisOf
<1>3. RecordSet' = RecordSet
  BY <1>1, <1>2 DEF RecordSet
<1>4. NamesAreExpected <=> NamesAreExpected'
  BY <1>1 DEF NamesAreExpected, ExpectedNames, IgnoredBuffers
<1> QED BY <1>1, <1>2, <1>3, <1>4 DEF SourceInv

LEMMA RecordsKept ==
  ASSUME RecordsInv, UNCHANGED <<source, flags, records>>
  PROVE  RecordsInv'
<1>1. Specs' = Specs /\ Parts' = Parts /\ RecordSet' = RecordSet
  BY SameParts
<1>2. Collected' = Collected
  BY DEF Collected
<1> QED BY <1>1, <1>2 DEF RecordsInv

LEMMA ExportInitInv == ExportInit => ExportInv
<1> SUFFICES ASSUME ExportInit PROVE SourceInv /\ RecordsInv /\ PhaseInv
  BY DEF ExportInv, ExportInit
<1>1. SourceInv /\ PhaseInv
  BY DEF ExportInit, SourceInv, PhaseInv
<1>2. records = <<>> /\ Len(records) = 0
  BY DEF ExportInit
<1>3. Collected = 0
  <2>1. {i \in DOMAIN records : Len(records[i].name) = 2} = {}
    BY <1>2
  <2> QED BY <2>1, FS_EmptySet DEF Collected
<1>4. Len(Specs) \in Nat
  BY <1>1, Expected DEF SourceInv, SpecsOf
<1>5. records \in Seq(RecordSet)
  BY <1>2
<1>6. Collection(records, 0, Parts)
  BY <1>2 DEF Collection
<1> QED BY <1>1, <1>3, <1>4, <1>5, <1>6 DEF RecordsInv

LEMMA ConfigInv == ASSUME SourceInv, RecordsInv, PhaseInv, CheckConfig PROVE ExportInv'
<1>1. UNCHANGED <<source, flags, records>> /\ phase' \in {"names", "refused"}
  BY DEF CheckConfig, Continue, Refuse
<1>2. SourceInv' /\ RecordsInv'
  BY <1>1, SameParts, RecordsKept
<1>3. IF source.supported /\ source.config.embedding % source.config.heads = 0
      THEN phase' = "names" ELSE phase' = "refused"
  BY DEF CheckConfig, Continue, Refuse
<1>4. \/ source.supported /\ source.config.embedding % source.config.heads = 0
      \/ ~IsExportable(source)
  BY DEF IsExportable
<1>5. PhaseInv'
  BY <1>1, <1>3, <1>4 DEF PhaseInv
<1> QED BY <1>1, <1>2, <1>5 DEF ExportInv

\* The names are right in the one sense exactly when they are in the other.
LEMMA NamesOfExportable ==
  ASSUME SourceInv, IsExportable(source)
  PROVE  NamesAreExpected
<1>1. SpecsOf(source.config, Specs)
  BY Expected DEF SourceInv
<1>2. DOMAIN source.state \subseteq Nat \X STRING
  BY SourceTypes DEF SourceInv
<1>3. \A j \in DOMAIN Specs : Specs[j].name \in DOMAIN source.state
  BY DEF IsExportable, Specs
<1>4. \A name \in DOMAIN source.state :
        \/ name[2] \in {"attn.bias", "attn.masked_bias"} /\ name[1] \in 1..source.config.layers
        \/ \E i \in DOMAIN Specs : Specs[i].name = name
  BY DEF IsExportable, Specs
<1>5. \A name \in DOMAIN source.state : name \in ExpectedNames \cup IgnoredBuffers
  BY <1>2, <1>4 DEF ExpectedNames, IgnoredBuffers
<1> QED BY <1>3, <1>5 DEF NamesAreExpected, ExpectedNames

LEMMA ExportableOfNames ==
  ASSUME SourceInv, NamesAreExpected, source.supported, source.tied,
         source.config.embedding % source.config.heads = 0,
         \A j \in 1..Len(Specs) : SpecIsMet(source, Specs[j])
  PROVE  IsExportable(source)
<1>1. DOMAIN Specs = 1..Len(Specs)
  BY Expected DEF SourceInv, SpecsOf
<1>2. \A j \in DOMAIN Specs : /\ Specs[j].name \in DOMAIN source.state
                              /\ source.state[Specs[j].name].shape = Specs[j].shape
  BY <1>1 DEF NamesAreExpected, ExpectedNames, SpecIsMet
<1>3. \A name \in DOMAIN source.state :
        \/ name[2] \in {"attn.bias", "attn.masked_bias"} /\ name[1] \in 1..source.config.layers
        \/ \E i \in DOMAIN Specs : Specs[i].name = name
  BY DEF NamesAreExpected, ExpectedNames, IgnoredBuffers
<1> QED BY <1>2, <1>3 DEF IsExportable, Specs

LEMMA NamesInv == ASSUME SourceInv, RecordsInv, PhaseInv, CheckNames PROVE ExportInv'
<1>1. UNCHANGED <<source, flags, records>> /\ phase' \in {"tensors", "refused"}
  BY DEF CheckNames, Continue, Refuse
<1>2. SourceInv' /\ RecordsInv'
  BY <1>1, SameParts, RecordsKept
<1>3. /\ IF NamesAreExpected /\ source.tied THEN phase' = "tensors" ELSE phase' = "refused"
      /\ source.supported /\ source.config.embedding % source.config.heads = 0
  BY DEF CheckNames, Continue, Refuse, PhaseInv
<1>4. (NamesAreExpected /\ source.tied) \/ ~IsExportable(source)
  BY NamesOfExportable DEF IsExportable
<1>5. NamesAreExpected <=> NamesAreExpected'
  BY <1>1, SameParts
<1>6. PhaseInv'
  BY <1>1, <1>3, <1>4, <1>5 DEF PhaseInv
<1> QED BY <1>1, <1>2, <1>6 DEF ExportInv

LEMMA FinishInv == ASSUME SourceInv, RecordsInv, PhaseInv, FinishExport PROVE ExportInv'
<1>1. UNCHANGED <<source, flags, records>> /\ phase' = "exported" /\ phase = "tensors"
  BY DEF FinishExport, Continue
<1>2. SourceInv' /\ RecordsInv'
  BY <1>1, SameParts, RecordsKept
<1>3. Collected' = Len(Specs)'
  BY <1>1, SameParts DEF FinishExport, Collected
<1>4. NamesAreExpected'
  BY <1>1, SameParts DEF PhaseInv
<1>5. PhaseInv'
  BY <1>1, <1>3, <1>4 DEF PhaseInv
<1> QED BY <1>1, <1>2, <1>5 DEF ExportInv

LEMMA CollectInv == ASSUME SourceInv, RecordsInv, PhaseInv, CollectTensor PROVE ExportInv'
<1> DEFINE c == Collected
           spec == Specs[c + 1]
           tensor == source.state[spec.name]
           rs == RecordsOf(spec.name, tensor)
<1>1. /\ phase = "tensors" /\ c < Len(Specs) /\ UNCHANGED <<source, flags>>
      /\ \/ /\ SpecIsMet(source, spec)
            /\ records' = records \o rs /\ phase' = phase
         \/ /\ ~SpecIsMet(source, spec)
            /\ phase' = "refused" /\ records' = records
  <2>1. phase = "tensors" => NamesAreExpected
    BY DEF PhaseInv
  <2>2. NamesAreExpected /\ c < Len(Specs) => spec.name \in DOMAIN source.state
    <3>1. /\ c \in Nat /\ Len(Specs) \in Nat /\ DOMAIN Specs = 1..Len(Specs)
      BY Expected DEF SourceInv, RecordsInv, SpecsOf
    <3> HIDE DEF c
    <3>2. c < Len(Specs) => c + 1 \in DOMAIN Specs
      BY <3>1
    <3> QED BY <3>2 DEF NamesAreExpected, ExpectedNames
  <2> QED BY <2>1, <2>2 DEF CollectTensor, Refuse, Continue, SpecIsMet
<1>2. /\ SpecsOf(source.config, Specs) /\ records \in Seq(RecordSet) /\ c \in 0..Len(Specs)
      /\ Collection(records, c, Parts)
      /\ \A j \in 1..c : SpecIsMet(source, Specs[j])
  BY Expected DEF SourceInv, RecordsInv
<1>3. c + 1 \in 1..Len(Specs) /\ c \in Nat /\ Len(Specs) \in Nat /\ DOMAIN Specs = 1..Len(Specs)
  <2> HIDE DEF c
  <2> QED BY <1>1, <1>2 DEF SpecsOf
<1>4. /\ Specs' = Specs /\ Parts' = Parts /\ RecordSet' = RecordSet /\ SourceInv'
      /\ (NamesAreExpected <=> NamesAreExpected')
  BY <1>1, SameParts
<1>5. /\ Collected = Cardinality(TensorIndices(records))
      /\ Collected' = Cardinality(TensorIndices(records'))
  BY DEF Collected, TensorIndices
<1>6. CASE SpecIsMet(source, spec)
  <2>1. records' = records \o rs /\ phase' = phase
    BY <1>1, <1>6
  <2>2. Parts[c + 1] = rs
    <3> HIDE DEF c
    <3> QED BY <1>3 DEF Parts
  <2>3. rs \in Seq(RecordSet) /\ AreRecords(rs)
    <3>1. {Parts[c + 1][1], Parts[c + 1][2]} \subseteq RecordSet
      <4> HIDE DEF c
      <4> QED BY <1>3 DEF RecordSet
    <3>2. Len(spec.name) = 2
      BY <1>2, <1>3 DEF SpecsOf
    <3> HIDE DEF spec, tensor
    <3> QED BY <2>2, <3>1, <3>2, RecordsOfTensor
  <2> HIDE DEF c, spec, rs
  <2>4. Collection(records \o rs, c + 1, Parts)
    BY <1>2, <1>3, <2>2, <2>3, CollectionGrows DEF AreRecords
  <2>5. Cardinality(TensorIndices(records \o rs)) = Cardinality(TensorIndices(records)) + 1
    BY <1>2, <2>3, TensorIndicesGrow
  <2>6. Collected' = c + 1
    BY <1>5, <2>1, <2>5 DEF c
  <2>7. records' \in Seq(RecordSet)
    BY <1>2, <2>1, <2>3, ConcatProperties
  <2>8. \A j \in 1..(c + 1) : SpecIsMet(source, Specs[j])
    BY <1>2, <1>3, <1>6 DEF spec
  <2>9. source' = source
    BY <1>1
  <2>10. RecordsInv'
    <3>1. (records \in Seq(RecordSet))' /\ (Collected \in 0..Len(Specs))'
      BY <1>3, <1>4, <2>6, <2>7
    <3>2. Collection(records, Collected, Parts)'
      BY <1>4, <2>1, <2>4, <2>6
    <3>3. (\A j \in 1..Collected : SpecIsMet(source, Specs[j]))'
      BY <1>4, <2>6, <2>8, <2>9 DEF SpecIsMet
    <3> QED BY <3>1, <3>2, <3>3 DEF RecordsInv
  <2>11. PhaseInv'
    BY <1>1, <1>4, <2>1 DEF PhaseInv
  <2> QED BY <1>1, <1>4, <2>1, <2>10, <2>11 DEF ExportInv
<1>7. CASE ~SpecIsMet(source, spec)
  <2>1. UNCHANGED <<source, flags, records>> /\ phase' = "refused"
    BY <1>1, <1>7
  <2>2. RecordsInv'
    BY <2>1, RecordsKept
  <2>3. ~IsExportable(source)
    <3> HIDE DEF c
    <3> QED BY <1>3, <1>7 DEF IsExportable, SpecIsMet, Specs
  <2>4. PhaseInv'
    BY <2>1, <2>3 DEF PhaseInv
  <2> QED BY <1>4, <2>1, <2>2, <2>4 DEF ExportInv
<1> QED BY <1>6, <1>7

LEMMA ExportNextInv == ExportInv /\ [ComposedNext]_allVars => ExportInv'
<1> SUFFICES ASSUME ExportInv, [ComposedNext]_allVars PROVE ExportInv'
  OBVIOUS
<1>1. CASE ExportNext
  <2>1. SourceInv /\ RecordsInv /\ PhaseInv
    BY <1>1 DEF ExportInv, ExportNext, CheckConfig, CheckNames, CollectTensor, FinishExport
  <2> QED BY <1>1, <2>1, ConfigInv, NamesInv, CollectInv, FinishInv DEF ExportNext
<1>2. CASE UNCHANGED exportVars
  <2>1. UNCHANGED <<source, flags, records>> /\ phase' = phase
    BY <1>2 DEF exportVars
  <2>2. CASE phase = "none"
    BY <2>1, <2>2 DEF ExportInv
  <2>3. CASE phase # "none"
    <3>1. SourceInv' /\ RecordsInv'
      BY <2>1, <2>3, SameParts, RecordsKept DEF ExportInv
    <3>2. PhaseInv'
      BY <2>1, <2>3, SameParts DEF ExportInv, PhaseInv, Collected
    <3> QED BY <2>1, <2>3, <3>1, <3>2 DEF ExportInv
  <2> QED BY <2>2, <2>3
<1>3. CASE Construct
  <2>1. UNCHANGED <<source, flags, records>> /\ phase = "exported" /\ phase' = "constructed"
    BY <1>3 DEF Construct
  <2>2. SourceInv' /\ RecordsInv'
    BY <2>1, SameParts, RecordsKept DEF ExportInv
  <2>3. PhaseInv'
    BY <2>1, SameParts DEF ExportInv, PhaseInv, Collected
  <2> QED BY <2>1, <2>2, <2>3 DEF ExportInv
<1> QED BY <1>1, <1>2, <1>3 DEF ComposedNext, allVars, exportVars

LEMMA ComposedInitExport == ComposedInit => ExportInv
BY ExportInitInv DEF ComposedInit, ExportInv

\* For every model and every choice of what to quantize, what is exported is a GPT-2 of
\* its configuration, all of it, and no such model is refused.
THEOREM AlwaysExportsExactlyModels == ComposedSpec => []ExportsExactlyModels
<1>1. ExportInv => ExportsExactlyModels
  <2> SUFFICES ASSUME ExportInv PROVE ExportsExactlyModels
    OBVIOUS
  <2>1. phase = "refused" => ~IsExportable(source)
    BY DEF ExportInv, PhaseInv
  <2>2. phase = "exported" => IsExportable(source)
    BY ExportableOfNames DEF ExportInv, PhaseInv, RecordsInv
  <2> QED BY <2>1, <2>2 DEF ExportsExactlyModels
<1> QED BY <1>1, ComposedInitExport, ExportNextInv, PTL DEF ComposedSpec

-----------------------------------------------------------------------------
(* Quantization loses at most half a step.                                  *)

LEMMA Divided ==
  ASSUME NEW n \in Int, NEW d \in Nat \ {0}
  PROVE  /\ n \div d \in Int /\ n % d \in 0..(d - 1)
         /\ n = (n \div d) * d + (n % d)
<1>1. n \div d \in Int /\ n % d \in 0..(d - 1) /\ n = d * (n \div d) + (n % d)
  OBVIOUS
<1> QED BY <1>1

\* A row-major index is that of a row and a column.
LEMMA ChannelInShape ==
  ASSUME NEW r \in Nat \ {0}, NEW c \in Nat \ {0}, NEW x \in 0..(r * c - 1)
  PROVE  x \div c \in 0..(r - 1) /\ x % c \in 0..(c - 1)
<1> DEFINE q == x \div c
           m == x % c
<1>1. /\ q \in Int /\ m \in 0..(c - 1) /\ x = q * c + m
      /\ x \in Nat /\ x < r * c /\ r * c \in Nat
  <2>1. r * c \in Nat
    OBVIOUS
  <2>2. x \in Int
    OBVIOUS
  <2>3. q \in Int /\ m \in 0..(c - 1) /\ x = q * c + m
    BY <2>2, Divided
  <2> QED BY <2>1, <2>2, <2>3
<1> HIDE DEF q, m
<1>2. q * c \in Int /\ (q + 1) * c = q * c + c /\ 0 * c = 0
  BY <1>1
<1>3. q * c < r * c /\ 0 * c < (q + 1) * c
  BY <1>1, <1>2
<1>4. q < r /\ 0 < q + 1
  BY <1>1, <1>3, FactorsAreOrdered
<1>5. q \in 0..(r - 1)
  BY <1>1, <1>4
<1> QED BY <1>1, <1>5 DEF q, m

\* Rounding goes to a nearest integer, and no further than the numbers go.
LEMMA RoundedIsNear ==
  ASSUME NEW n \in Int, NEW d \in Nat \ {0}, NEW k \in Nat,
         -(k * d) <= n, n <= k * d
  PROVE  /\ Rounded(n, d) \in -k..k
         /\ -d <= 2 * (Rounded(n, d) * d - n) /\ 2 * (Rounded(n, d) * d - n) <= d
<1> DEFINE q == n \div d
           r == n % d
           R == Rounded(n, d)
<1>1. q \in Int /\ r \in 0..(d - 1) /\ n = q * d + r
  BY Divided
<1>2. \/ R = q /\ 2 * r <= d
      \/ R = q + 1 /\ 2 * r >= d
  BY <1>1 DEF Rounded
<1> HIDE DEF q, r, R
<1>3. /\ q * d \in Int /\ (q + 1) * d = q * d + d /\ k * d \in Int
      /\ (-k) * d = -(k * d) /\ -k \in Int
  BY <1>1
<1> DEFINE p == q * d
           z == k * d
<1>4. /\ p \in Int /\ z \in Int /\ n = p + r /\ r \in 0..(d - 1)
      /\ -z <= n /\ n <= z
  BY <1>1, <1>3
<1> HIDE DEF p, z
<1>5. p <= z /\ -z < p + d /\ (r > 0 => p < z)
  BY <1>4
<1>6. q <= k /\ -k < q + 1 /\ (r > 0 => q < k)
  <2>1. q * d <= k * d /\ (-k) * d < (q + 1) * d /\ (r > 0 => q * d < k * d)
    BY <1>3, <1>5 DEF p, z
  <2> QED BY <1>1, <1>3, <2>1, FactorsAreOrdered
<1>7. CASE R = q /\ 2 * r <= d
  <2>1. R \in -k..k
    BY <1>1, <1>6, <1>7
  <2>2. R * d - n = -r
    BY <1>4, <1>7 DEF p
  <2> QED BY <1>4, <1>7, <2>1, <2>2 DEF R
<1>8. CASE R = q + 1 /\ 2 * r >= d
  <2>1. r > 0
    BY <1>4, <1>8
  <2>2. R \in -k..k
    BY <1>1, <1>6, <1>8, <2>1
  <2>3. R * d - n = d - r
    <3>1. R * d = p + d
      BY <1>3, <1>8 DEF p
    <3> QED BY <1>4, <3>1
  <2> QED BY <1>4, <1>8, <2>2, <2>3 DEF R
<1> QED BY <1>2, <1>7, <1>8

LEMMA ClippedInRange ==
  ASSUME Levels \in Nat \ {0}, NEW q \in -Levels..Levels
  PROVE  Clipped(q) = q
<1>1. Min({q, Levels}) = q
  <2>1. q \in {q, Levels} /\ \A y \in {q, Levels} : q =< y
    OBVIOUS
  <2>2. \A v \in {q, Levels} : (\A y \in {q, Levels} : v =< y) => v = q
    OBVIOUS
  <2> QED BY <2>1, <2>2 DEF Min
<1>2. Max({-Levels, q}) = q
  <2>1. q \in {-Levels, q} /\ \A y \in {-Levels, q} : q >= y
    OBVIOUS
  <2>2. \A v \in {-Levels, q} : (\A y \in {-Levels, q} : v >= y) => v = q
    OBVIOUS
  <2> QED BY <2>1, <2>2 DEF Max
<1> QED BY <1>1, <1>2 DEF Clipped

LEMMA MagnitudeType ==
  \A w \in Int : Magnitude(w) \in Nat /\ -Magnitude(w) <= w /\ w <= Magnitude(w)
BY DEF Magnitude

\* The scale of a channel is the largest magnitude in it.
LEMMA ScaleIsLargest ==
  ASSUME NEW tensor, IsTensor(tensor), Len(tensor.shape) = 2, NEW axis \in {1, 2},
         NEW x \in DOMAIN tensor.data
  PROVE  LET i == Channel(tensor.shape, axis, x)
             s == Scales(tensor, axis)
         IN /\ i \in DOMAIN s /\ s[i] \in Nat
            /\ Magnitude(tensor.data[x]) <= s[i]
<1> DEFINE shape == tensor.shape
           i == Channel(shape, axis, x)
           s == Scales(tensor, axis)
           I == {y \in DOMAIN tensor.data : Channel(shape, axis, y) = i}
           f == [y \in DOMAIN tensor.data |-> Magnitude(tensor.data[y])]
           M == {Magnitude(tensor.data[y]) : y \in I}
<1>1. /\ shape[1] \in Nat \ {0} /\ shape[2] \in Nat \ {0}
      /\ DOMAIN tensor.data = 0..(shape[1] * shape[2] - 1)
      /\ \A y \in DOMAIN tensor.data : tensor.data[y] \in Int
  BY ElementOfSeq DEF IsTensor
<1>2. i \in 0..(shape[axis] - 1)
  <2>1. x \in 0..(shape[1] * shape[2] - 1)
    BY <1>1
  <2>2. x \div shape[2] \in 0..(shape[1] - 1) /\ x % shape[2] \in 0..(shape[2] - 1)
    BY <1>1, <2>1, ChannelInShape
  <2> HIDE DEF shape
  <2> QED BY <2>2 DEF Channel
<1>3. i \in DOMAIN s /\ s[i] = Max(M)
  <2> HIDE DEF i
  <2> QED BY <1>2 DEF Scales
<1>4. IsFiniteSet(DOMAIN tensor.data)
  <2> DEFINE n == shape[1] * shape[2] - 1
  <2>1. n \in Int
    BY <1>1
  <2> HIDE DEF n
  <2>2. IsFiniteSet(0..n)
    BY <2>1, FS_Interval
  <2> QED BY <1>1, <2>2 DEF n
<1>5. \A y \in DOMAIN tensor.data : f[y] \in Int /\ f[y] = Magnitude(tensor.data[y]) /\ f[y] \in Nat
  <2>1. \A y \in DOMAIN tensor.data : f[y] = Magnitude(tensor.data[y])
    OBVIOUS
  <2>2. \A y \in DOMAIN tensor.data : Magnitude(tensor.data[y]) \in Nat
    BY <1>1, MagnitudeType
  <2> HIDE DEF f
  <2> QED BY <2>1, <2>2
<1>6. x \in I /\ I \in SUBSET DOMAIN tensor.data
  OBVIOUS
<1> HIDE DEF I, f
<1>7. PICK n \in I : \A y \in I : f[y] <= f[n]
  BY <1>4, <1>5, <1>6, GreatestValue
<1>8. \E v \in M : \A w \in M : v >= w
  BY <1>5, <1>6, <1>7
<1>9. Max(M) \in M /\ \A w \in M : Max(M) >= w
  <2> HIDE DEF M
  <2> QED BY <1>8 DEF Max
<1>10. Max(M) \in Nat /\ Max(M) >= Magnitude(tensor.data[x])
  BY <1>5, <1>6, <1>9
<1> QED BY <1>3, <1>10

LEMMA QuantizedIsNear ==
  ASSUME NEW tensor, IsTensor(tensor), Len(tensor.shape) = 2, NEW axis \in {1, 2},
         NEW x \in DOMAIN tensor.data
  PROVE  LET i == Channel(tensor.shape, axis, x)
             s == Scales(tensor, axis)
             q == Quantized(tensor, axis)[x]
         IN /\ i \in DOMAIN s /\ q \in -Levels..Levels
            /\ 2 * Magnitude(q * s[i] - tensor.data[x] * Levels) <= s[i]
<1> DEFINE i == Channel(tensor.shape, axis, x)
           s == Scales(tensor, axis)[i]
           w == tensor.data[x]
           d == IF s > 0 THEN s ELSE 1
           q == Quantized(tensor, axis)[x]
<1>1. Levels \in Nat \ {0} /\ w \in Int
  BY ExporterAssumption DEF ExporterAssumption, IsTensor
<1>2. i \in DOMAIN Scales(tensor, axis) /\ s \in Nat /\ Magnitude(w) <= s
  BY ScaleIsLargest
<1>3. q = Clipped(Rounded(w * Levels, d))
  BY DEF Quantized
<1> HIDE DEF q, s, w, i
<1>4. -s <= w /\ w <= s
  BY <1>1, <1>2, MagnitudeType
<1>5. d \in Nat \ {0} /\ s <= d
  BY <1>2
<1>6. w * Levels \in Int /\ -(Levels * d) <= w * Levels /\ w * Levels <= Levels * d
  <2>1. -d <= w /\ w <= d /\ -d \in Int
    BY <1>1, <1>2, <1>4, <1>5
  <2>2. (-d) * Levels <= w * Levels /\ w * Levels <= d * Levels
    BY <1>1, <1>5, <2>1, FactorsAreOrdered
  <2>3. (-d) * Levels = -(Levels * d) /\ d * Levels = Levels * d /\ w * Levels \in Int
    BY <1>1, <1>5
  <2> QED BY <2>2, <2>3
<1> DEFINE R == Rounded(w * Levels, d)
           n == w * Levels
<1>7. /\ R \in -Levels..Levels
      /\ -d <= 2 * (R * d - n) /\ 2 * (R * d - n) <= d
  <2> HIDE DEF d
  <2> QED BY <1>1, <1>5, <1>6, RoundedIsNear
<1>8. q = R
  <2> HIDE DEF R, d, n
  <2> QED BY <1>1, <1>3, <1>7, ClippedInRange DEF R, n
<1> HIDE DEF R, n
<1>9. 2 * Magnitude(R * s - n) <= s
  <2>1. CASE s > 0
    <3> DEFINE e == R * s - n
    <3>1. e \in Int /\ -s <= 2 * e /\ 2 * e <= s
      BY <1>1, <1>2, <1>6, <1>7, <2>1 DEF n
    <3> HIDE DEF e
    <3>2. 2 * Magnitude(e) <= s
      BY <1>2, <3>1 DEF Magnitude
    <3> QED BY <3>2 DEF e
  <2>2. CASE ~(s > 0)
    <3>1. s = 0 /\ w = 0
      BY <1>1, <1>2, <1>4, <2>2
    <3>2. n = 0 /\ R * s = 0 /\ R * s - n = 0
      BY <1>1, <1>7, <3>1 DEF n
    <3> QED BY <3>1, <3>2 DEF Magnitude
  <2> QED BY <2>1, <2>2
<1> QED BY <1>2, <1>7, <1>8, <1>9 DEF q, s, w, i, n

\* What the records of a tensor are.
AreRecordsOf(rs, name, tensor, axis) ==
  /\ Len(rs) = IF axis = Unquantized THEN 1 ELSE 2
  /\ rs[1].name = name /\ rs[1].shape = tensor.shape
  /\ rs[1].dtype = IF axis = Unquantized THEN "float32" ELSE "int8"
  /\ axis # Unquantized =>
       /\ rs[1].data = Quantized(tensor, axis)
       /\ rs[2].name = ScaleOf(name) /\ rs[2].shape = <<tensor.shape[axis]>>
       /\ rs[2].dtype = "float32" /\ rs[2].data = Scales(tensor, axis)

LEMMA RecordsAre ==
  ASSUME NEW name, NEW tensor
  PROVE  AreRecordsOf(RecordsOf(name, tensor), name, tensor, AxisOf(name))
<1> DEFINE rs == RecordsOf(name, tensor)
           axis == AxisOf(name)
<1>1. CASE axis = Unquantized
  <2>1. rs = <<Record(name, "float32", tensor.shape, tensor.data)>>
    BY <1>1 DEF RecordsOf
  <2> HIDE DEF rs
  <2> QED BY <1>1, <2>1 DEF AreRecordsOf, Record, rs
<1>2. CASE axis # Unquantized
  <2>1. rs = <<Record(name, "int8", tensor.shape, Quantized(tensor, axis)),
               Record(ScaleOf(name), "float32", <<tensor.shape[axis]>>, Scales(tensor, axis))>>
    BY <1>2 DEF RecordsOf
  <2> HIDE DEF rs
  <2> QED BY <1>2, <2>1 DEF AreRecordsOf, Record, rs
<1> QED BY <1>1, <1>2

\* The axis a tensor of a model is quantized along is that of the kernel that reads it.
LEMMA AxisIsRead ==
  ASSUME SourceInv, NEW name \in BaseNames(source.config), AxisOf(name) # Unquantized
  PROVE  /\ AxisOf(name) \in {1, 2}
         /\ Len(ShapeOf(source.config, name[2])) = 2
         /\ \A shape, x : ReadChannel(name, shape, x) = Channel(shape, AxisOf(name), x)
<1>1. CASE name = <<0, "wte.weight">>
  <2>1. name[2] = "wte.weight" /\ AxisOf(name) = 1
    BY <1>1 DEF AxisOf, QuantizedParts
  <2> QED BY <1>1, <2>1 DEF ShapeOf, ReadChannel, Channel
<1>2. CASE name # <<0, "wte.weight">>
  <2>1. AxisOf(name) = 2 /\ name[2] \in QuantizedParts
    BY <1>2 DEF AxisOf
  <2>2. Len(ShapeOf(source.config, name[2])) = 2
    BY <2>1 DEF ShapeOf, QuantizedParts
  <2> QED BY <1>2, <2>1, <2>2 DEF ReadChannel, Channel
<1> QED BY <1>1, <1>2

\* The tensor a record comes from.
LEMMA RecordHasTensor ==
  ASSUME SourceInv, RecordsInv, NEW i \in DOMAIN records
  PROVE  \E name \in BaseNames(source.config) :
           /\ name \in DOMAIN source.state /\ IsTensor(source.state[name])
           /\ source.state[name].shape = ShapeOf(source.config, name[2])
           /\ Placed(records, i, RecordsOf(name, source.state[name]))
<1>1. records \in Seq(RecordSet) /\ i \in 1..Len(records)
  BY LenProperties DEF RecordsInv
<1>2. PICK j \in 1..Collected : Placed(records, i, Parts[j])
  BY <1>1 DEF RecordsInv, Collection
<1>3. j \in 1..Len(Specs)
  <2> DEFINE c == Collected
  <2>1. c \in 0..Len(Specs) /\ Len(Specs) \in Nat /\ j \in 1..c
    BY Expected DEF SourceInv, RecordsInv, SpecsOf
  <2> HIDE DEF c
  <2> QED BY <2>1
<1> DEFINE name == Specs[j].name
<1>4. /\ name \in BaseNames(source.config)
      /\ Specs[j].shape = ShapeOf(source.config, name[2])
  BY <1>3, Expected DEF SourceInv, SpecsOf
<1>5. name \in DOMAIN source.state /\ source.state[name].shape = Specs[j].shape
  BY DEF RecordsInv, SpecIsMet
<1>6. IsTensor(source.state[name])
  BY <1>5, SourceTypes DEF SourceInv
<1>7. Parts[j] = RecordsOf(name, source.state[name])
  BY <1>3 DEF Parts
<1> HIDE DEF name
<1> QED BY <1>2, <1>4, <1>5, <1>6, <1>7

LEMMA CollectedIsNear == ExportInv => DequantizedIsNear
<1> SUFFICES ASSUME ExportInv, NEW i \in DOMAIN records, records[i].dtype = "int8"
             PROVE  LET name == records[i].name
                        weights == source.state[name].data
                        scales == records[i + 1].data
                    IN \A x \in DOMAIN weights :
                         LET q == records[i].data[x]
                             channel == ReadChannel(name, records[i].shape, x)
                         IN /\ q \in -Levels..Levels
                            /\ channel \in DOMAIN scales
                            /\ 2 * Magnitude(q * scales[channel] - weights[x] * Levels)
                                 <= scales[channel]
  BY DEF DequantizedIsNear
<1>1. SourceInv /\ RecordsInv
  <2>1. phase # "none"
    <3>1. phase = "none" => DOMAIN records = {}
      BY DEF ExportInv
    <3> QED BY <3>1
  <2> QED BY <2>1 DEF ExportInv
<1>2. PICK name \in BaseNames(source.config) :
        /\ name \in DOMAIN source.state /\ IsTensor(source.state[name])
        /\ source.state[name].shape = ShapeOf(source.config, name[2])
        /\ Placed(records, i, RecordsOf(name, source.state[name]))
  BY <1>1, RecordHasTensor
<1> DEFINE tensor == source.state[name]
           axis == AxisOf(name)
           rs == RecordsOf(name, tensor)
<1>3. AreRecordsOf(rs, name, tensor, axis)
  BY RecordsAre
<1>4. IsTensor(tensor) /\ Placed(records, i, rs)
  BY <1>2
<1> HIDE DEF rs
<1>5. records[i] = rs[1] /\ axis # Unquantized /\ records[i + 1] = rs[2]
  BY <1>3, <1>4 DEF AreRecordsOf, Placed
<1>6. /\ axis \in {1, 2} /\ Len(tensor.shape) = 2
      /\ \A shape, x : ReadChannel(name, shape, x) = Channel(shape, axis, x)
  BY <1>1, <1>2, <1>5, AxisIsRead
<1>7. /\ records[i].name = name /\ records[i].shape = tensor.shape
      /\ records[i].data = Quantized(tensor, axis)
      /\ records[i + 1].data = Scales(tensor, axis)
  BY <1>3, <1>5 DEF AreRecordsOf
<1>8. ASSUME NEW x \in DOMAIN tensor.data
      PROVE  LET channel == Channel(tensor.shape, axis, x)
                 s == Scales(tensor, axis)
                 q == Quantized(tensor, axis)[x]
             IN /\ channel \in DOMAIN s /\ q \in -Levels..Levels
                /\ 2 * Magnitude(q * s[channel] - tensor.data[x] * Levels) <= s[channel]
  <2> HIDE DEF tensor, axis
  <2> QED BY <1>4, <1>6, QuantizedIsNear
<1> HIDE DEF axis
<1> QED BY <1>6, <1>7, <1>8

\* Whatever the weights, each quantized one comes back, by the scale its kernel reads,
\* within half a step, and is an int8 the loader takes.
THEOREM DequantizedAlwaysNear == ComposedSpec => []DequantizedIsNear
BY CollectedIsNear, ComposedInitExport, ExportNextInv, PTL DEF ComposedSpec

-----------------------------------------------------------------------------
(* What the exporter writes is a model to the engine.                       *)

IsModelOf(c, wte, layers) ==
  LET q == QuantizedNames(c.config, wte, layers)
      s == ScaleNames(c.config, wte, layers)
  IN /\ DOMAIN c.int8s = q
     /\ DOMAIN c.floats = (BaseNames(c.config) \ q) \cup s
     /\ \A n \in q :
          /\ c.int8s[n] = ShapeOf(c.config, n[2])
          /\ c.floats[ScaleName(n)] = ScaleShape(c.config, n[2])
     /\ \A n \in BaseNames(c.config) \ q : c.floats[n] = ShapeOf(c.config, n[2])

\* The names of the tensors that may be quantized.
Quantizable(config) == {<<0, "wte.weight">>} \cup ((1..config.layers) \X LinearParts)

\* The names of scales are those of no tensor, and of one scale each.
LEMMA ScalePartsAre ==
  \A part \in {"wte.weight"} \cup LinearParts :
    /\ ScalePart(part) \notin TopParts \cup LayerParts
    /\ \A other \in {"wte.weight"} \cup LinearParts :
         ScalePart(part) = ScalePart(other) => part = other
<1>1. /\ ScalePart("wte.weight") = "wte.weight.quant_scale"
      /\ ScalePart("attn.c_attn.weight") = "attn.c_attn.weight.quant_scale"
      /\ ScalePart("attn.c_proj.weight") = "attn.c_proj.weight.quant_scale"
      /\ ScalePart("mlp.c_fc.weight") = "mlp.c_fc.weight.quant_scale"
      /\ ScalePart("mlp.c_proj.weight") = "mlp.c_proj.weight.quant_scale"
  BY DEF ScalePart
<1> QED BY <1>1 DEF TopParts, LayerParts, LinearParts, PlainParts

LEMMA ScaleNamesAre ==
  ASSUME NEW config, config.layers \in Nat, NEW n \in Quantizable(config)
  PROVE  /\ ScaleName(n) \notin BaseNames(config)
         /\ \A m \in Quantizable(config) : ScaleName(n) = ScaleName(m) => n = m
<1>1. \A m \in Quantizable(config) :
        m = <<m[1], m[2]>> /\ m[2] \in {"wte.weight"} \cup LinearParts
  BY DEF Quantizable
<1>2. ScaleName(n) = <<n[1], ScalePart(n[2])>>
  BY DEF ScaleName
<1>3. ScalePart(n[2]) \notin TopParts \cup LayerParts
  BY <1>1, ScalePartsAre
<1>4. ScaleName(n) \notin BaseNames(config)
  BY <1>2, <1>3 DEF BaseNames, LayerParts
<1>5. ASSUME NEW m \in Quantizable(config), ScaleName(n) = ScaleName(m)
      PROVE  n = m
  <2>1. ScaleName(m) = <<m[1], ScalePart(m[2])>>
    BY DEF ScaleName
  <2>2. n[1] = m[1] /\ ScalePart(n[2]) = ScalePart(m[2])
    BY <1>2, <1>5, <2>1
  <2>3. n[2] = m[2]
    BY <1>1, <2>2, ScalePartsAre
  <2> QED BY <1>1, <2>2, <2>3
<1> QED BY <1>4, <1>5

\* Which tensors are quantized, in the exporter's words and in the engine's.
LEMMA QuantizedAre ==
  ASSUME SourceInv
  PROVE  LET config == source.config
             q == QuantizedNames(config, flags.embedding, flags.layers)
         IN /\ q \subseteq Quantizable(config) /\ q \subseteq BaseNames(config)
            /\ \A name \in BaseNames(config) : AxisOf(name) # Unquantized <=> name \in q
            /\ \A name \in q : /\ ScalePart(name[2]) \in ScaleParts \cup {"wte.weight.quant_scale"}
                               /\ AxisOf(name) = IF name[2] = EmbeddingPart THEN 1 ELSE 2
            /\ {ScaleName(name) : name \in q} = ScaleNames(config, flags.embedding, flags.layers)
<1> DEFINE config == source.config
           q == QuantizedNames(config, flags.embedding, flags.layers)
           s == ScaleNames(config, flags.embedding, flags.layers)
<1>1. /\ flags.embedding \in BOOLEAN /\ flags.layers \in BOOLEAN /\ config.layers \in Nat
      /\ 0 \notin 1..config.layers
  BY SourceTypes DEF SourceInv
<1>2. q \subseteq Quantizable(config)
  BY DEF QuantizedNames, Quantizable
<1>3. q \subseteq BaseNames(config)
  BY DEF QuantizedNames, BaseNames, TopParts
<1>4. QuantizedParts = LinearParts /\ "wte.weight" \notin LinearParts
      /\ LinearParts \cap (TopParts \cup PlainParts) = {}
  BY DEF QuantizedParts, LinearParts, PlainParts, TopParts
<1>5. ASSUME NEW name \in BaseNames(config)
      PROVE  /\ AxisOf(name) # Unquantized <=> name \in q
             /\ name \in q => AxisOf(name) = IF name[2] = EmbeddingPart THEN 1 ELSE 2
  <2>1. CASE name = <<0, "wte.weight">>
    <3>1. name[2] = "wte.weight" /\ name[2] \notin QuantizedParts
      BY <1>4, <2>1
    <3>2. name \in q <=> flags.embedding
      BY <1>1, <2>1 DEF QuantizedNames
    <3>3. AxisOf(name) = IF flags.embedding THEN 1 ELSE Unquantized
      BY <2>1, <3>1 DEF AxisOf
    <3> HIDE DEF q
    <3> QED BY <1>1, <3>1, <3>2, <3>3 DEF Unquantized, EmbeddingPart
  <2>2. CASE name # <<0, "wte.weight">>
    <3>1. name \in (1..config.layers) \X LinearParts <=> name[2] \in QuantizedParts
      BY <1>4 DEF BaseNames
    <3>2. name \in q <=> flags.layers /\ name[2] \in QuantizedParts
      BY <1>1, <2>2, <3>1 DEF QuantizedNames
    <3>3. AxisOf(name) = IF flags.layers /\ name[2] \in QuantizedParts THEN 2 ELSE Unquantized
      BY <2>2 DEF AxisOf
    <3>4. name[2] \in QuantizedParts => name[2] # "wte.weight"
      BY <1>4
    <3> HIDE DEF q
    <3> QED BY <3>2, <3>3, <3>4 DEF Unquantized, EmbeddingPart
  <2> QED BY <2>1, <2>2
<1>6. /\ ScalePart("wte.weight") = "wte.weight.quant_scale"
      /\ {ScalePart(part) : part \in LinearParts} = ScaleParts
  BY DEF ScalePart, LinearParts, ScaleParts
<1>7. \A name \in q : ScalePart(name[2]) \in ScaleParts \cup {"wte.weight.quant_scale"}
  BY <1>6 DEF QuantizedNames
<1>8. {ScaleName(name) : name \in q} = s
  <2>1. ASSUME NEW name \in q PROVE ScaleName(name) \in s
    BY <1>6 DEF QuantizedNames, ScaleNames, ScaleName
  <2>2. ASSUME NEW x \in s PROVE \E name \in q : x = ScaleName(name)
    <3>1. CASE x = <<0, "wte.weight.quant_scale">> /\ flags.embedding
      <4>1. <<0, "wte.weight">> \in q /\ ScaleName(<<0, "wte.weight">>) = x
        BY <1>6, <3>1 DEF QuantizedNames, ScaleName
      <4> QED BY <4>1
    <3>2. CASE x \in (1..config.layers) \X ScaleParts /\ flags.layers
      <4>1. PICK part \in LinearParts : ScalePart(part) = x[2]
        BY <1>6, <3>2
      <4>2. <<x[1], part>> \in q /\ ScaleName(<<x[1], part>>) = x
        BY <3>2, <4>1 DEF QuantizedNames, ScaleName
      <4> QED BY <4>2
    <3> QED BY <1>1, <3>1, <3>2 DEF ScaleNames
  <2> HIDE DEF q, s
  <2> QED BY <2>1, <2>2
<1> QED BY <1>2, <1>3, <1>5, <1>7, <1>8

IsTensorRecord(r, name) ==
  /\ Joined(r.name) = name
  /\ r.dtype = IF AxisOf(name) = Unquantized THEN "float32" ELSE "int8"
  /\ r.shape = ShapeOf(source.config, name[2])

IsScaleRecord(r, name) ==
  /\ AxisOf(name) # Unquantized
  /\ Joined(r.name) = ScaleName(name)
  /\ r.dtype = "float32"
  /\ r.shape = ScaleShape(source.config, name[2])

\* The records of a tensor have the names and the shapes the schema asks for.
LEMMA RecordKinds ==
  ASSUME SourceInv, NEW name \in BaseNames(source.config), NEW tensor,
         tensor.shape = ShapeOf(source.config, name[2])
  PROVE  LET rs == RecordsOf(name, tensor) IN
         /\ Len(rs) \in 1..2 /\ IsTensorRecord(rs[1], name)
         /\ Len(rs) = 2 => IsScaleRecord(rs[2], name)
         /\ AxisOf(name) # Unquantized => Len(rs) = 2
<1> DEFINE rs == RecordsOf(name, tensor)
           axis == AxisOf(name)
<1>1. AreRecordsOf(rs, name, tensor, axis)
  BY RecordsAre
<1>2. name = <<name[1], name[2]>> /\ Len(name) = 2
  BY DEF BaseNames
<1>3. Joined(name) = name /\ Joined(ScaleOf(name)) = ScaleName(name)
  <2>1. Len(ScaleOf(name)) = 3 /\ ScaleOf(name)[1] = name[1] /\ ScaleOf(name)[2] = name[2]
    BY DEF ScaleOf
  <2> QED BY <1>2, <2>1 DEF Joined, ScaleName
<1>4. axis # Unquantized => ScaleShape(source.config, name[2]) = <<tensor.shape[axis]>>
  BY QuantizedAre DEF ScaleShape
<1> HIDE DEF rs, axis
<1>5. Len(rs) \in 1..2 /\ (Len(rs) = 2 <=> axis # Unquantized)
  BY <1>1 DEF AreRecordsOf
<1>6. IsTensorRecord(rs[1], name)
  BY <1>1, <1>3 DEF AreRecordsOf, IsTensorRecord, axis
<1>7. axis # Unquantized => IsScaleRecord(rs[2], name)
  BY <1>1, <1>3, <1>4 DEF AreRecordsOf, IsScaleRecord, axis
<1> QED BY <1>5, <1>6, <1>7 DEF rs, axis

LEMMA RecordsAreOfModel ==
  ASSUME SourceInv, RecordsInv, NEW i \in DOMAIN records
  PROVE  \E name \in BaseNames(source.config) :
           IsTensorRecord(records[i], name) \/ IsScaleRecord(records[i], name)
<1>1. PICK name \in BaseNames(source.config) :
        /\ source.state[name].shape = ShapeOf(source.config, name[2])
        /\ Placed(records, i, RecordsOf(name, source.state[name]))
  BY RecordHasTensor
<1> DEFINE rs == RecordsOf(name, source.state[name])
<1>2. Len(rs) \in 1..2 /\ IsTensorRecord(rs[1], name) /\ (Len(rs) = 2 => IsScaleRecord(rs[2], name))
  BY <1>1, RecordKinds
<1>3. Placed(records, i, rs)
  BY <1>1
<1> HIDE DEF rs
<1>4. records[i] = rs[1] \/ (Len(rs) = 2 /\ records[i] = rs[2])
  BY <1>3 DEF Placed
<1> QED BY <1>2, <1>4

LEMMA ModelIsInRecords ==
  ASSUME SourceInv, RecordsInv, Collected = Len(Specs), NEW name \in BaseNames(source.config)
  PROVE  /\ \E i \in DOMAIN records : IsTensorRecord(records[i], name)
         /\ AxisOf(name) # Unquantized =>
              \E i \in DOMAIN records : IsScaleRecord(records[i], name)
<1>1. SpecsOf(source.config, Specs)
  BY Expected DEF SourceInv
<1>2. PICK j \in 1..Len(Specs) : Specs[j].name = name
  BY <1>1 DEF SpecsOf
<1>3. source.state[name].shape = ShapeOf(source.config, name[2])
  BY <1>1, <1>2 DEF RecordsInv, SpecIsMet, SpecsOf
<1> DEFINE rs == RecordsOf(name, source.state[name])
<1>4. Parts[j] = rs
  BY <1>2 DEF Parts
<1>5. \A k \in 1..Len(rs) : Occurs(rs[k], records)
  BY <1>4 DEF RecordsInv, Collection
<1>6. /\ Len(rs) \in 1..2 /\ IsTensorRecord(rs[1], name)
      /\ Len(rs) = 2 => IsScaleRecord(rs[2], name)
      /\ AxisOf(name) # Unquantized => Len(rs) = 2
  BY <1>3, RecordKinds
<1>7. DOMAIN records = 1..Len(records)
  BY LenProperties DEF RecordsInv
<1> HIDE DEF rs
<1>8. Occurs(rs[1], records) /\ (Len(rs) = 2 => Occurs(rs[2], records))
  <2>1. 1 \in 1..Len(rs) /\ (Len(rs) = 2 => 2 \in 1..Len(rs))
    BY <1>6
  <2> QED BY <1>5, <2>1
<1> QED BY <1>6, <1>7, <1>8 DEF Occurs

\* The shapes of one type of records, by their names.
AreShapes(f, dtype) ==
  /\ \A x : x \in DOMAIN f <=>
       \E i \in DOMAIN records : records[i].dtype = dtype /\ Joined(records[i].name) = x
  /\ \A x \in DOMAIN f : \E i \in DOMAIN records :
       /\ records[i].dtype = dtype /\ Joined(records[i].name) = x
       /\ f[x] = records[i].shape

LEMMA ShapesAre == \A dtype : AreShapes(ShapesOf(dtype), dtype)
<1> TAKE dtype
<1> DEFINE I == {i \in DOMAIN records : records[i].dtype = dtype}
           N == {Joined(records[i].name) : i \in I}
           Index(x) == CHOOSE i \in I : Joined(records[i].name) = x
           f == [x \in N |-> records[Index(x)].shape]
<1>1. ShapesOf(dtype) = f
  BY DEF ShapesOf
<1>2. ASSUME NEW x \in N
      PROVE  Index(x) \in I /\ Joined(records[Index(x)].name) = x
  <2>1. \E i \in I : Joined(records[i].name) = x
    OBVIOUS
  <2> HIDE DEF I
  <2> QED BY <2>1
<1>3. \A x \in N : f[x] = records[Index(x)].shape
  <2> HIDE DEF N, Index
  <2> QED OBVIOUS
<1>4. DOMAIN f = N
  OBVIOUS
<1> HIDE DEF f, Index, N
<1>5. \A x \in DOMAIN f : \E i \in DOMAIN records :
        /\ records[i].dtype = dtype /\ Joined(records[i].name) = x
        /\ f[x] = records[i].shape
  BY <1>2, <1>3, <1>4 DEF I
<1>6. \A x : x \in DOMAIN f <=>
        \E i \in DOMAIN records : records[i].dtype = dtype /\ Joined(records[i].name) = x
  BY <1>4 DEF N, I
<1> QED BY <1>1, <1>5, <1>6 DEF AreShapes

LEMMA ExportedIsModel ==
  ASSUME SourceInv, RecordsInv, Collected = Len(Specs)
  PROVE  IsModelOf(Exported, flags.embedding, flags.layers)
<1> DEFINE config == source.config
           b == BaseNames(config)
           q == QuantizedNames(config, flags.embedding, flags.layers)
           s == ScaleNames(config, flags.embedding, flags.layers)
           int8s == ShapesOf("int8")
           floats == ShapesOf("float32")
<1>1. Exported.config = config /\ Exported.int8s = int8s /\ Exported.floats = floats
  BY DEF Exported
<1>2. /\ q \subseteq Quantizable(config) /\ q \subseteq b
      /\ \A name \in b : AxisOf(name) # Unquantized <=> name \in q
      /\ {ScaleName(name) : name \in q} = s
  BY QuantizedAre
<1>3. ASSUME NEW n \in q
      PROVE  ScaleName(n) \notin b /\ \A m \in q : ScaleName(n) = ScaleName(m) => n = m
  <2>1. config.layers \in Nat
    BY SourceTypes DEF SourceInv
  <2> HIDE DEF b, q
  <2> QED BY <1>2, <2>1, ScaleNamesAre DEF b
<1> DEFINE Tensor(i, name) ==
             /\ name \in b /\ Joined(records[i].name) = name
             /\ records[i].dtype = (IF name \in q THEN "int8" ELSE "float32")
             /\ records[i].shape = ShapeOf(config, name[2])
           Scale(i, name) ==
             /\ name \in q /\ Joined(records[i].name) = ScaleName(name)
             /\ records[i].dtype = "float32"
             /\ records[i].shape = ScaleShape(config, name[2])
<1>4. \A i \in DOMAIN records : \E name \in b : Tensor(i, name) \/ Scale(i, name)
  <2> HIDE DEF q
  <2> QED BY <1>2, RecordsAreOfModel DEF IsTensorRecord, IsScaleRecord
<1>5. /\ \A name \in b : \E i \in DOMAIN records : Tensor(i, name)
      /\ \A name \in q : \E i \in DOMAIN records : Scale(i, name)
  <2> HIDE DEF q
  <2> QED BY <1>2, ModelIsInRecords DEF IsTensorRecord, IsScaleRecord
<1> DEFINE Of(dtype, x, shape) ==
             \E i \in DOMAIN records : /\ records[i].dtype = dtype /\ Joined(records[i].name) = x
                                       /\ shape = records[i].shape
<1>6. /\ \A x : x \in DOMAIN int8s <=> \E i \in DOMAIN records :
                  records[i].dtype = "int8" /\ Joined(records[i].name) = x
      /\ \A x \in DOMAIN int8s : Of("int8", x, int8s[x])
  <2>1. AreShapes(int8s, "int8")
    BY ShapesAre
  <2> HIDE DEF int8s
  <2> QED BY <2>1 DEF AreShapes
<1>7. /\ \A x : x \in DOMAIN floats <=> \E i \in DOMAIN records :
                  records[i].dtype = "float32" /\ Joined(records[i].name) = x
      /\ \A x \in DOMAIN floats : Of("float32", x, floats[x])
  <2>1. AreShapes(floats, "float32")
    BY ShapesAre
  <2> HIDE DEF floats
  <2> QED BY <2>1 DEF AreShapes
<1> HIDE DEF int8s, floats, config, b, q, s
<1>8. \A x : x \in DOMAIN int8s <=> x \in q
  BY <1>2, <1>4, <1>5, <1>6
<1>9. \A n \in q : int8s[n] = ShapeOf(config, n[2])
  BY <1>4, <1>6, <1>8
<1>10. \A x \in DOMAIN floats : x \in (b \ q) \cup s
  <2> SUFFICES ASSUME NEW x \in DOMAIN floats PROVE x \in (b \ q) \cup s
    OBVIOUS
  <2>1. PICK i \in DOMAIN records : records[i].dtype = "float32" /\ Joined(records[i].name) = x
    BY <1>7
  <2>2. PICK name \in b : Tensor(i, name) \/ Scale(i, name)
    BY <1>4
  <2> QED BY <1>2, <2>1, <2>2
<1>11. \A x \in (b \ q) \cup s : x \in DOMAIN floats
  <2> SUFFICES ASSUME NEW x \in (b \ q) \cup s PROVE x \in DOMAIN floats
    OBVIOUS
  <2>1. CASE x \in b \ q
    <3>1. PICK i \in DOMAIN records : Tensor(i, x)
      BY <1>5, <2>1
    <3> QED BY <1>7, <2>1, <3>1
  <2>2. CASE x \in s
    <3>1. PICK name \in q : x = ScaleName(name)
      BY <1>2, <2>2
    <3>2. PICK i \in DOMAIN records : Scale(i, name)
      BY <1>5
    <3> QED BY <1>7, <3>1, <3>2
  <2> QED BY <2>1, <2>2
<1>12. ASSUME NEW n \in b \ q PROVE floats[n] = ShapeOf(config, n[2])
  <2>1. PICK i \in DOMAIN records : /\ records[i].dtype = "float32" /\ Joined(records[i].name) = n
                                    /\ floats[n] = records[i].shape
    BY <1>7, <1>11
  <2>2. PICK name \in b : Tensor(i, name) \/ Scale(i, name)
    BY <1>4
  <2>3. ~Scale(i, name)
    BY <1>3, <2>1
  <2> QED BY <2>1, <2>2, <2>3
<1>13. ASSUME NEW n \in q PROVE floats[ScaleName(n)] = ScaleShape(config, n[2])
  <2>1. ScaleName(n) \in s
    BY <1>2
  <2>2. PICK i \in DOMAIN records :
          /\ records[i].dtype = "float32" /\ Joined(records[i].name) = ScaleName(n)
          /\ floats[ScaleName(n)] = records[i].shape
    BY <1>7, <1>11, <2>1
  <2>3. PICK name \in b : Tensor(i, name) \/ Scale(i, name)
    BY <1>4
  <2>4. ~Tensor(i, name)
    BY <1>3, <2>2
  <2>5. name = n
    BY <1>3, <2>2, <2>3, <2>4
  <2> QED BY <2>2, <2>3, <2>4, <2>5
<1>14. DOMAIN int8s = q /\ DOMAIN floats = (b \ q) \cup s
  BY <1>8, <1>10, <1>11
<1> QED BY <1>1, <1>9, <1>12, <1>13, <1>14 DEF IsModelOf, config, b, q, s

LEMMA ModelIsCheckpoint ==
  ASSUME NEW c, NEW wte \in BOOLEAN, NEW layers \in BOOLEAN, IsModelOf(c, wte, layers),
         {c.config.vocabulary, c.config.context, c.config.embedding,
          c.config.heads, c.config.layers} \subseteq Nat \ {0}
  PROVE  IsCheckpoint(c)
<1> DEFINE config == c.config
           q == QuantizedNames(config, wte, layers)
           s == ScaleNames(config, wte, layers)
           b == BaseNames(config)
<1>1. config.layers \in Nat /\ 0 \notin 1..config.layers
  OBVIOUS
<1>2. IsFiniteSet(q) /\ IsFiniteSet(FloatNames(config, wte, layers))
  <2> HIDE DEF config
  <2> QED BY <1>1, ModelSize
<1>3. DOMAIN c.int8s = q /\ DOMAIN c.floats = FloatNames(config, wte, layers)
  BY DEF IsModelOf, FloatNames
<1>4. q \cap s = {}
  <2>1. (LinearParts \cup {"wte.weight"}) \cap (ScaleParts \cup {"wte.weight.quant_scale"}) = {}
    BY DEF LinearParts, ScaleParts
  <2> QED BY <1>1, <2>1 DEF QuantizedNames, ScaleNames
<1>5. q \cap FloatNames(config, wte, layers) = {}
  BY <1>4 DEF FloatNames
<1> QED BY <1>2, <1>3, <1>5 DEF IsCheckpoint

-----------------------------------------------------------------------------
(* From the exporter to the engine.                                         *)

Started ==
  /\ IsCheckpoint(checkpoint) /\ stage = "sizes"
  /\ layer = 0 /\ precision = "unknown" /\ quantized = 0

LEMMA StartedInv == Started => IInv
BY ConfigType, SMT DEF Started, IInv, Locals, Checked, RejectedIsNoModel, Config

\* The engine waits for the exporter, and is then given a model.
EngineInv ==
  /\ IInv /\ PassInv
  /\ phase \notin {"constructed", "none"} => stage = "rejected"
  /\ phase = "constructed" => IsModelOf(checkpoint, flags.embedding, flags.layers)

LEMMA NoCheckpointInv ==
  ASSUME checkpoint = NoCheckpoint, stage = "rejected", layer = 0, precision = "unknown",
         quantized = 0
  PROVE  IInv
<1>1. /\ DOMAIN NoCheckpoint.floats = {} /\ DOMAIN NoCheckpoint.int8s = {}
      /\ NoCheckpoint.config.layers = 1
  BY DEF NoCheckpoint
<1>2. IsCheckpoint(checkpoint)
  BY <1>1, FS_EmptySet DEF IsCheckpoint, NoCheckpoint
<1>3. Locals
  BY <1>1, <1>2 DEF Locals, Config
<1>4. Checked
  BY DEF Checked
<1>5. ASSUME NEW wte, NEW layers, IsModel(wte, layers) PROVE FALSE
  <2>1. <<0, "wpe.weight">> \in BaseNames(Config)
    BY DEF BaseNames, TopParts
  <2>2. <<0, "wpe.weight">> \in QuantizedNames(Config, wte, layers) \cup Floats
    BY <1>5, <2>1 DEF IsModel
  <2>3. Floats = {} /\ Int8s = {}
    BY <1>1 DEF Floats, Int8s
  <2>4. QuantizedNames(Config, wte, layers) = {}
    BY <1>5, <2>3 DEF IsModel
  <2> QED BY <2>2, <2>3, <2>4
<1>6. RejectedIsNoModel
  BY <1>5 DEF RejectedIsNoModel
<1> QED BY <1>3, <1>4, <1>6 DEF IInv

LEMMA ComposedInitEngine == ComposedInit => EngineInv
<1> SUFFICES ASSUME ComposedInit PROVE EngineInv
  OBVIOUS
<1>1. CASE /\ ExportInit
           /\ checkpoint = NoCheckpoint /\ stage = "rejected"
           /\ layer = 0 /\ precision = "unknown" /\ quantized = 0
           /\ pass = NoPass
  <2>1. IInv
    BY <1>1, NoCheckpointInv
  <2> QED BY <1>1, <2>1 DEF EngineInv, PassInv, ExportInit
<1>2. CASE PassInit /\ phase = "none"
  BY <1>2, PassInitInv DEF EngineInv
<1> QED BY <1>1, <1>2 DEF ComposedInit

LEMMA ConstructInv == ASSUME ExportInv, EngineInv, Construct PROVE EngineInv'
<1>1. /\ phase = "exported" /\ phase' = "constructed" /\ UNCHANGED <<source, flags, pass>>
      /\ checkpoint' = Exported /\ stage' = "sizes"
      /\ layer' = 0 /\ precision' = "unknown" /\ quantized' = 0
  BY DEF Construct
<1>2. SourceInv /\ RecordsInv /\ Collected = Len(Specs)
  BY <1>1 DEF ExportInv, PhaseInv
<1>3. IsModelOf(Exported, flags.embedding, flags.layers)
  BY <1>2, ExportedIsModel
<1>4. IsCheckpoint(Exported)
  <2>1. flags.embedding \in BOOLEAN /\ flags.layers \in BOOLEAN
    BY <1>2 DEF SourceInv
  <2>2. {Exported.config.vocabulary, Exported.config.context, Exported.config.embedding,
         Exported.config.heads, Exported.config.layers} \subseteq Nat \ {0}
    BY <1>2, SourceTypes DEF SourceInv, Exported
  <2> QED BY <1>3, <2>1, <2>2, ModelIsCheckpoint
<1>5. Started'
  BY <1>1, <1>4 DEF Started
<1>6. IInv'
  <2>1. Started' => IInv'
    BY StartedInv, PTL
  <2> QED BY <1>5, <2>1
<1>7. pass' = NoPass
  BY <1>1 DEF EngineInv, PassInv
<1>8. PassInv'
  BY <1>7 DEF PassInv
<1> QED BY <1>1, <1>3, <1>6, <1>8 DEF EngineInv

LEMMA ComposedNextEngine ==
  ExportInv /\ EngineInv /\ [ComposedNext]_allVars => EngineInv'
<1> SUFFICES ASSUME ExportInv, EngineInv, [ComposedNext]_allVars PROVE EngineInv'
  OBVIOUS
<1>1. CASE ExportNext /\ UNCHANGED passVars
  <2>1. IInv' /\ PassInv'
    BY <1>1, PassNextInv DEF EngineInv
  <2>2. /\ phase \notin {"constructed", "none"} /\ phase' \notin {"constructed", "none"}
    BY <1>1 DEF ExportNext, CheckConfig, CheckNames, CollectTensor, FinishExport, Continue, Refuse
  <2>3. stage' = stage
    BY <1>1 DEF passVars
  <2> QED BY <2>1, <2>2, <2>3 DEF EngineInv
<1>2. CASE Construct
  BY <1>2, ConstructInv
<1>3. ASSUME phase' = phase, flags' = flags, [PassNext]_passVars,
             phase \in {"constructed", "none"} \/ UNCHANGED passVars
      PROVE  EngineInv'
  <2>1. IInv' /\ PassInv'
    BY <1>3, PassNextInv DEF EngineInv
  <2>2. checkpoint' = checkpoint
    <3>1. CASE Next
      BY <3>1, SameCheckpoint DEF IInv, Next, CheckSizes, CheckEmbeddings, CheckLayer, CheckEnd,
                                  Reject, Ended, vars
    <3>2. CASE UNCHANGED vars \/ UNCHANGED passVars
      BY <3>2 DEF vars, passVars
    <3> QED BY <1>3, <3>1, <3>2 DEF PassNext
  <2>3. phase \notin {"constructed", "none"} => stage' = stage
    BY <1>3 DEF passVars
  <2> QED BY <1>3, <2>1, <2>2, <2>3 DEF EngineInv
<1>4. CASE phase \in {"constructed", "none"} /\ PassNext /\ UNCHANGED exportVars
  BY <1>3, <1>4 DEF exportVars
<1>5. CASE UNCHANGED allVars
  BY <1>3, <1>5 DEF allVars, passVars
<1> QED BY <1>1, <1>2, <1>4, <1>5 DEF ComposedNext

\* What the exporter has collected is right, and so is what the engine makes of it.
THEOREM ComposedInvariant == ComposedSpec => [](ExportInv /\ EngineInv)
BY ComposedInitExport, ComposedInitEngine, ExportNextInv, ComposedNextEngine, PTL
   DEF ComposedSpec

\* For every model that can be exported and every choice of what to quantize, the schema
\* the engine checks is the one the exporter follows.
THEOREM ExportAlwaysAccepted == ComposedSpec => []ExportIsAccepted
<1>1. ExportInv /\ EngineInv => ExportIsAccepted
  <2> SUFFICES ASSUME ExportInv, EngineInv, phase = "constructed", stage = "rejected", GoodSizes
               PROVE  FALSE
    BY DEF ExportIsAccepted
  <2>1. flags.embedding \in BOOLEAN /\ flags.layers \in BOOLEAN
    BY DEF ExportInv, SourceInv
  <2>2. IsModel(flags.embedding, flags.layers)
    BY DEF EngineInv, IsModelOf, IsModel, Int8s, Floats, Config
  <2>3. ~\E wte, layers \in BOOLEAN : IsModel(wte, layers)
    BY DEF EngineInv, IInv, RejectedIsNoModel
  <2> QED BY <2>1, <2>2, <2>3
<1> QED BY <1>1, ComposedInvariant, PTL

\* And a pass on what was exported answers, with the logits generation relies on, or
\* fails for an unknown id or a tensor beyond a size_t.
THEOREM ExportedModelsAnswer ==
  ComposedSpec => [](PassFailsOnlyForASize /\ LogitsCoverTheVocabulary)
<1>1. PassInv => PassFailsOnlyForASize /\ LogitsCoverTheVocabulary
  BY NoPassStage DEF PassInv, PassFailsOnlyForASize, LogitsCoverTheVocabulary
<1> QED BY <1>1, ComposedInvariant, PTL DEF EngineInv
=============================================================================
