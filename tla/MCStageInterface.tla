-------------------------- MODULE MCStageInterface --------------------------
(***************************************************************************)
(* Shaders for StageInterface: the stage variables of a vertex shader and  *)
(* of a fragment shader for each backend, resources, a compute shader, and *)
(* shaders that do not keep to the names the SPIR-V emitter goes by, or    *)
(* take one of the runtime's.                                              *)
(***************************************************************************)
EXTENDS StageInterface

Digits == {"uv1", "uv2"}
MCVNames == {"vA", "vB", "vC"}
MCLayoutNames == {"a_layout", "b_layout", "c_layout"}
MCBase == [n \in {"a", "b", "c", "uv", "vA", "vB", "vC", "gl_Position", "FragColor", "depth"} \cup Digits |->
             IF n \in Digits THEN "uv" ELSE n]

MCType(leaves, cols, size, align, vec) ==
  [leaves |-> leaves, cols |-> cols, vecs |-> 0, size |-> size, align |-> align, floatVec |-> vec]
Float == MCType(<<"f">>, 0, 4, 4, FALSE)
Double == MCType(<<"d">>, 0, 8, 8, FALSE)
Vec2 == MCType(<<"f", "f">>, 0, 8, 8, TRUE)
Mat2 == MCType(<<"f", "f", "f", "f">>, 2, 16, 8, FALSE)
Vec2s == [MCType(<<"f", "f", "f", "f">>, 0, 16, 16, FALSE) EXCEPT !.vecs = 2]
Record == MCType(<<"f", "d", "f">>, 0, 24, 8, FALSE)
Pointer == MCType(<<"f">>, 0, 8, 8, FALSE)

D(kind, name, type, loc) == [kind |-> kind, name |-> name, type |-> type, loc |-> loc]
Main == D("entry", "main", Float, -1)
Shader(stage, target, decls, locals) ==
  [stage |-> stage, target |-> target, decls |-> decls, locals |-> locals, unread |-> {}]

Auto == {-1}
Lists(kind, names, types, locs) == {[i \in DOMAIN names |-> D(kind, names[i], t[i], l[i])] :
  t \in [DOMAIN names -> types], l \in [DOMAIN names -> locs]}

Color == D("out", "FragColor", Vec4, -1)
Vs == {Shader("vertex", "spirv", i \o o \o <<Main>>, <<>>) :
         i \in Lists("in", <<"a">>, {Float, Mat2}, {-1, 1}) \cup {<<>>},
         o \in Lists("out", <<"vA", "vB", "vC">>, {Vec2, Mat2}, {-1, 0, 1, 3})}
Fs == {Shader("fragment", "spirv", i \o <<Color>> \o <<Main>>, <<>>) :
         i \in Lists("in", <<"a", "b">>, {Float, Vec2, Mat2, Vec2s, Record}, {-1, 0, 1, 2})}
      \cup {Shader("fragment", "spirv", i \o <<[Color EXCEPT !.type = Vec2s]>> \o <<Main>>, <<>>) :
              i \in Lists("in", <<"a", "b", "c">>, {Vec2, Mat2, Vec2s}, Auto)}
FlatVs == {Shader("vertex", "riscv", i \o o \o <<Main>>, <<>>) :
             i \in Lists("in", <<"a", "b">>, {Float, Double, Record}, Auto)
                   \cup Lists("in", <<"a", "b", "c">>, {Mat2, Record}, Auto),
             o \in Lists("out", <<"vA", "vB">>, {Float, Mat2}, Auto)}
FlatFs == {Shader("fragment", "riscv", i \o o \o <<Main>>, <<>>) :
             i \in Lists("in", <<"a", "b", "c">>, {Float, Mat2, Double}, Auto),
             o \in Lists("out", <<"FragColor", "depth">>, {Double, Vec4, Record}, Auto) \cup {<<>>}}

\* Resources: two uniforms and two of each other kind, in two orders; a uniform that is declared twice.
Blocks3 == {Shader("fragment", "spirv", u \o r \o <<Color, Main>>, <<>>) :
              u \in Lists("uniform", <<"a", "b", "c">>, {Float, Vec2, Mat2, Vec4}, Auto), r \in {<<>>}}
Resources == {[Shader("fragment", "spirv", b \o s \o <<Color, Main>>, <<>>) EXCEPT !.unread = n] :
                b \in Lists("buffer", <<"a", "b">>, {Pointer}, {-1, 0, 2}),
                s \in Lists("sampler", <<"vA", "vB">>, {Pointer}, {-1, 1}), n \in {{}, {"vA"}}}
\* Names with _layout in them: none of the uniforms and buffers is seen, nor a sampler that is not read.
Runtime == {[Shader("fragment", "spirv", <<D("uniform", "a_layout", Float, -1), D("uniform", "a", Vec2, -1)>>
                       \o b \o s \o <<Color, Main>>, <<>>) EXCEPT !.unread = n] :
              b \in Lists("buffer", <<"b_layout", "b">>, {Pointer}, {-1, 1}),
              s \in Lists("sampler", <<"c_layout", "c">>, {Pointer}, {-1, 1}), n \in {{}, {"c_layout"}}}
Again == {Shader("compute", "spirv", <<D("uniform", "a", Float, -1), D("uniform", "a", t, 3), Main>>, <<>>) :
            t \in {Float, Vec2}}
         \cup {Shader("compute", "spirv", <<D("uniform", "a", Float, -1), D(k, "a", Pointer, -1), Main>>, <<>>) :
                 k \in {"sampler", "buffer"}}
         \cup {Shader("compute", "spirv", <<D("sampler", "a", Pointer, -1), D("sampler", "a", Pointer, 3),
                                            D("sampler", "a", Pointer, -1), Main>>, <<>>)}
Compute == {Shader("compute", "riscv", <<D("in", "a", Float, -1), Main>>, <<>>)}

\* Names and orders that the emitter does not expect.
Irregular ==
  {Shader("vertex", "spirv", <<D("in", "vB", Vec2, -1), D("out", "vA", Vec2, l), Main>>, <<D("local", "vC", t, -1)>>) :
     l \in {-1, 0}, t \in {Float, Vec2}}
  \cup {Shader("fragment", "spirv", <<Color, Main, D("in", "a", Float, -1)>>, <<>>),
        Shader("fragment", "spirv", <<D("out", "depth", Float, -1), Color, Main>>, <<>>),
        Shader("vertex", "spirv", <<D("out", "vA", Float, -1), D("out", "vB", Vec2, -1), Main>>, <<>>)}

MCShaders == Vs \cup Fs \cup FlatVs \cup FlatFs \cup Blocks3 \cup Resources \cup Runtime \cup Again \cup Compute \cup Irregular

\* An input, and a variable of the body whose name differs from it by a digit.
MCDigits == {Shader("fragment", "spirv", <<D("in", "uv", Vec2, -1), Color, Main>>, <<D("local", "uv2", t, -1)>>) :
               t \in {Float, Vec2}}
=============================================================================
