------------------------- MODULE MCRegistryBuilder -------------------------
(***************************************************************************)
(* A small instance of RegistryBuilder: command builders that are empty or *)
(* complete and get up to MaxCalls more calls, over names and schemas that *)
(* clash and parts that lack what they need.                               *)
(***************************************************************************)
EXTENDS RegistryBuilder, Types

Field(n, t)     == [name |-> n, value_type |-> t]
Object(n, fs)   == [name |-> n, fields |-> fs]
Title           == Field("title", <<StrT>>)
Song            == ObjectT("song", <<<<"title", StrT>>>>)

MCSchemaBuilders ==
  {Object("song", <<Title>>),
   Object("song", <<Title, Field("length", <<IntT>>)>>),
   Object("list", <<Field("songs", <<VectorT(Song)>>)>>),
   Object("void", <<>>),
   Object(Blank, <<Field(Missing, <<>>)>>),
   Object("song", <<Title, Field(Blank, <<>>)>>)}

MCHandMade == {NoneT, VectorT(VectorT(ObjectT("void", <<>>))), ObjectT("", <<>>)}

Arg    == [name |-> "what", accepts |-> <<Song>>]
Option == [name |-> "times", short |-> "t", value_type |-> <<IntT>>]

MCArgs ==
  {Arg, [Arg EXCEPT !.accepts = <<>>],
   [Arg EXCEPT !.accepts = <<StrT, ObjectT("", <<<<"title", StrT>>>>)>>]}

MCOptions ==
  {[Option EXCEPT !.short = Missing], [Option EXCEPT !.short = Blank],
   [Option EXCEPT !.value_type = <<>>]}

New ==
  [name |-> Missing, aliases |-> <<>>, arg |-> <<>>, handler |-> FALSE,
   options |-> <<>>, depends_on |-> <<>>, returns |-> <<>>]

Complete(n, aliases, t) ==
  [New EXCEPT !.name = n, !.aliases = aliases, !.handler = TRUE, !.returns = <<t>>]

MCKits ==
  {New, Complete("play", <<>>, Song), Complete("list", <<"p">>, VectorT(Song)),
   Complete("p", <<"t">>, IntT)}

MCNames == {"play", "p", Blank}
=============================================================================
