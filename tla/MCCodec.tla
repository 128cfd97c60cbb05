------------------------------ MODULE MCCodec ------------------------------
(* Types, values, envelopes, records and files for Codec: each shape of the
   formats once, and the limits from both sides. *)
EXTENDS Codec

Word(n) == [i \in 1 .. 8 |-> IF i = 1 THEN n ELSE 0]
Id(n) == [i \in 1 .. 16 |-> n]
Hash(n) == [i \in 1 .. 32 |-> n]

(* Fields of every style, a wide discriminant, empty variants and a tuple. *)
Point == DeclStruct(<<2>>, "Named", <<DeclField(<<3>>, Leaf("I8")), DeclField(<<4>>, Leaf("Bool"))>>)
Pair == DeclStruct(<<5>>, "Unnamed", <<DeclField(<<>>, Leaf("U16")), DeclField(<<>>, Bounded("EventString", 2))>>)
Nothing == DeclStruct(<<6>>, "Unit", <<>>)
Narrow == DeclEnum(<<7>>, <<DeclVariant(0, <<1>>, "Unit", <<>>),
                            DeclVariant(31, <<2>>, "Unnamed", <<DeclField(<<>>, Leaf("OrderedF32"))>>),
                            DeclVariant(3, <<3>>, "Named", <<DeclField(<<8>>, Leaf("U8"))>>)>>)
Wide == DeclEnum(<<8>>, <<DeclVariant(1, <<1>>, "Unit", <<>>),
                          DeclVariant(40, <<2>>, "Unnamed",
                              <<DeclField(<<>>, OptionOf(Leaf("U8"))), DeclField(<<>>, Leaf("Bool"))>>)>>)
Empty == DeclEnum(<<10>>, <<DeclVariant(0, <<1>>, "Named", <<>>)>>)
Nested == DeclEnum(<<11>>, <<DeclVariant(0, <<1>>, "Unit", <<>>),
                             DeclVariant(1, <<2>>, "Unnamed", <<DeclField(<<>>, OptionOf(OptionOf(Empty)))>>)>>)

(* One level inside, and one past, what a root may nest at MaxDepth = 3. *)
Deep == DeclEnum(<<12>>, <<DeclVariant(0, <<1>>, "Unit", <<>>),
                           DeclVariant(1, <<2>>, "Unnamed", <<DeclField(<<>>, OptionOf(Point))>>)>>)
TooDeep == DeclEnum(<<13>>, <<DeclVariant(0, <<1>>, "Unit", <<>>),
                              DeclVariant(1, <<2>>, "Named", <<DeclField(<<3>>, OptionOf(Point))>>)>>)

(* Bounds of zero, and a descriptor record past MaxRecord = 75. *)
NoText == DeclEnum(<<14>>, <<DeclVariant(0, <<1>>, "Unit", <<>>),
                             DeclVariant(1, <<2>>, "Unnamed", <<DeclField(<<>>, Bounded("EventString", 0))>>)>>)
NoItems == DeclEnum(<<15>>, <<DeclVariant(0, <<1>>, "Unit", <<>>),
                              DeclVariant(1, <<2>>, "Unnamed", <<DeclField(<<>>, VecOf(Leaf("U8"), 0))>>)>>)
Long == DeclEnum(<<17>>, [i \in 1 .. 9 |-> DeclVariant(i, <<i>>, "Unit", <<>>)])

Choice(i, vs) == [variant |-> i, fields |-> vs]

(* Normal numbers, both zeros as they may be handed in, and the exceptional
   values: OrderedFrom and EventFloatFrom decide which of them exist. *)
Floats(w) == {[i \in 1 .. w |-> IF i = w THEN top ELSE IF i = 1 THEN low ELSE 0] :
                 top \in {0, 4, 9, 12, 16, 22, 28}, low \in {0, 1}}
Of(Conversion(_), w) == {r.val : r \in {q \in {Conversion(f) : f \in Floats(w)} : q.ok}}

Listed(S) == FoldSet(LAMBDA v, seq : Append(seq, v), <<>>, S)

TypedValues ==
    <<<<Leaf("U8"), <<0, 31>>>>, <<Leaf("U16"), <<0, 33>>>>, <<Leaf("U32"), <<1057>>>>,
      <<Leaf("I8"), <<-16, -1, 15>>>>, <<Leaf("I16"), <<-512, 511>>>>, <<Leaf("I32"), <<-1, 7>>>>,
      <<Leaf("U64"), <<Word(3)>>>>, <<Leaf("I64"), <<Word(31)>>>>, <<Leaf("Uuid"), <<Id(1)>>>>,
      <<Leaf("Timestamp"), <<Word(1)>>>>, <<Leaf("Bool"), <<TRUE, FALSE>>>>,
      <<Leaf("OrderedF32"), Listed(Of(OrderedFrom, 4))>>,
      <<Leaf("OrderedF64"), Listed(Of(OrderedFrom, 8))>>,
      <<Leaf("EventF32"), Listed(Of(EventFloatFrom, 4))>>,
      <<Leaf("EventF64"), Listed(Of(EventFloatFrom, 8))>>,
      <<Bounded("EventString", 2), <<<<>>, <<5>>, <<30, 29>>>>>>,
      <<Bounded("NonEmptyEventString", 2), <<<<5>>, <<6, 7>>>>>>,
      <<Bounded("EventBytes", 2), <<<<>>, <<31, 0>>>>>>,
      <<OptionOf(Leaf("U8")), <<<<>>, <<1>>>>>>,
      <<VecOf(OptionOf(Leaf("Bool")), 2), <<<<>>, <<<<>>, <<TRUE>>>>>>>>,
      <<VecOf(Nothing, 2), <<<<<<>>, <<>>>>>>>>,
      <<Point, <<<<-16, TRUE>>>>>>, <<Pair, <<<<33, <<5>>>>>>>>, <<Nothing, <<<<>>>>>>,
      <<Narrow, <<Choice(1, <<>>), Choice(2, <<<<0, 0, 0, 4>>>>), Choice(2, <<<<0, 0, 0, 0>>>>),
                  Choice(3, <<9>>)>>>>,
      <<Wide, <<Choice(1, <<>>), Choice(2, <<<<7>>, TRUE>>)>>>>,
      <<Deep, <<Choice(2, <<<<<<1, FALSE>>>>>>)>>>>, <<TooDeep, <<Choice(1, <<>>)>>>>,
      <<Nested, <<Choice(2, <<<<<<Choice(1, <<>>)>>>>>>)>>>>,
      <<NoText, <<Choice(2, <<<<>>>>)>>>>, <<NoItems, <<Choice(2, <<<<>>>>)>>>>,
      <<Long, <<Choice(1, <<>>), Choice(9, <<>>)>>>>>>

Typed(codec, ks) ==
    FlattenSeq([i \in 1 .. Len(TypedValues) |->
        LET t == TypedValues[i][1]
            vs == TypedValues[i][2]
        IN IF t.k \in ks THEN [j \in 1 .. Len(vs) |-> [codec |-> codec, ty |-> t, val |-> vs[j]]]
           ELSE <<>>])

Header(d) == [event_id |-> Id(1), fiber_id |-> Id(2), detached |-> d,
              precursor |-> Id(0), precursor_hash |-> Hash(0)]
Envelopes == <<[header |-> Header(FALSE), payload |-> <<>>], [header |-> Header(TRUE), payload |-> <<0>>],
               [header |-> Header(FALSE), payload |-> <<1, 2, 3>>],
               [header |-> Header(FALSE), payload |-> <<1, 2, 3, 4>>]>>

Claim(label) == [kind |-> "OwnershipClaim", epoch |-> Word(1), machine_id |-> Id(3), boot_id |-> Id(4),
                 process_id |-> Word(5), process_start_time |-> Word(6), claim_time |-> Word(7),
                 operator_label |-> label]
Release == [kind |-> "CleanRelease", epoch |-> Word(1), release_time |-> Word(2)]
RescueChoice == [kind |-> "RescuePolicyChoice", policy_tag |-> 1, parameters |-> <<7, 0>>]
Descriptors(d) == [kind |-> "SchemaDescriptor", schema_version |-> 1, descriptor |-> d]
OneOfEach ==
    <<Claim(<<>>), Claim(<<5, 30, 29>>), Release, Descriptors(<<14, 9>>),
      [kind |-> "MigrationStart", source |-> 1, target |-> 2, time |-> Word(1), rescue_policy_tag |-> 1],
      [kind |-> "MigrationEnd", source |-> 1, target |-> 2, time |-> Word(1), status |-> "Complete"],
      [kind |-> "MigrationEnd", source |-> 1, target |-> 2, time |-> Word(1), status |-> "Interrupted"],
      [kind |-> "InboundPointer", locator_id |-> Id(1), epoch |-> Word(1)],
      [kind |-> "OutboundPointer", locator_id |-> Id(1), epoch |-> Word(2)],
      RescueChoice,
      [kind |-> "IdentityStructure", dataset_id |-> Id(1), structure_version |-> 1, dragline_id |-> 0,
       partitioning_rule |-> [kind |-> "StaticModulo", total_draglines |-> 3]],
      [kind |-> "IdentityStructure", dataset_id |-> Id(1), structure_version |-> 1, dragline_id |-> 0,
       partitioning_rule |-> [kind |-> "ConsistentHash", hash_seed |-> Word(1), virtual_node_count |-> 33]]>>

(* Trees at and one past MaxDepth = 3, both widths, and records at and past MaxRecord = 75. *)
Roots ==
    <<DescriptorOf(Narrow), DescriptorOf(Wide), DescriptorOf(Pair), DescriptorOf(Nested),
      DescriptorOf(Leaf("EventF32")),
      OptionOf(OptionOf(OptionOf(Leaf("U8")))), OptionOf(OptionOf(OptionOf(OptionOf(Leaf("U8"))))),
      VecOf(VecOf(VecOf(Leaf("Bool"), 1), 2), 3), VecOf(Leaf("U8"), 0),
      EnumOf(<<1>>, 2, <<Variant(33, <<1>>, <<VecOf(OptionOf(Leaf("U64")), 1)>>)>>),
      EnumOf(<<1>>, 1, <<Variant(32, <<1>>, <<>>)>>), EnumOf(<<1>>, 3, <<Variant(0, <<1>>, <<>>)>>),
      StructOf(<<1>>, [i \in 1 .. 10 |-> Field(<<i>>, Leaf("U8"))]),
      StructOf(<<1>>, [i \in 1 .. 11 |-> Field(<<i>>, Leaf("U8"))]),
      StructOf(<<1>>, <<Field(<<>>, Leaf("U8"))>>)>>

With(codec, vs) == [i \in 1 .. Len(vs) |-> [codec |-> codec, val |-> vs[i]]]

MCMessages ==
    Typed("type", {TypedValues[i][1].k : i \in 1 .. Len(TypedValues)})
    \o Typed("root", {"Enum"})
    \o With("envelope", Envelopes)
    \o With("record", OneOfEach)
    \o With("descriptor", [i \in 1 .. Len(Roots) |-> [version |-> 1, root |-> Roots[i]]])
    \o <<NewFile("container"), NewFile("meta")>>
MCExtra == {<<0>>, <<1, 0, 0, 0>>, <<31>>}
MCFiles == <<NewFile("container")>>
MCPayloads == {<<>>, <<2, 0>>, <<0, 0, 0, 0>>}
MCRecords == {RescueChoice, Release, Descriptors(<<9>>), Descriptors(<<14, 9>>)}
============================================================================
