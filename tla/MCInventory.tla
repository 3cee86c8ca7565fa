----------------------------- MODULE MCInventory -----------------------------
(* Inventory for TLC: six inodes, two names per directory, and trees that     *)
(* meet every limit: a directory below MaxDepth, a directory larger than what *)
(* is left of MaxFiles, files over the single and the total byte limits.      *)
EXTENDS Inventory

text1 == [format |-> "text", size |-> 1, id |-> 1]
text2 == [format |-> "text", size |-> 2, id |-> 2]
text3 == [format |-> "text", size |-> 3, id |-> 3]
elf1  == [format |-> "elf", size |-> 1, id |-> 4]
elf2  == [format |-> "bad-elf", size |-> 2, id |-> 5]
elf3  == [format |-> "elf", size |-> 3, id |-> 6]
empty == [format |-> "text", size |-> 0, id |-> 0]

MCBodies == {empty, text1, text2, text3, elf1, elf2, elf3}
MCChanges == {[kind |-> "directory", body |-> empty], [kind |-> "regular", body |-> text2],
              [kind |-> "regular", body |-> elf1], [kind |-> "symlink", body |-> text2]}

N(kind, body) == [kind |-> kind, mode |-> 0, body |-> body, ctime |-> 0]
D == N("directory", empty)
Leaf == <<None, None>>

\* Six inodes; kids[i] is the pair of inodes under names 1 and 2.
Tree(nodes, children) ==
    [node |-> [i \in 0 .. 5 |-> nodes[i + 1]],
     kids |-> [i \in 0 .. 5 |-> children[i + 1]]]

\* /1/1 text, /1/2 a directory below MaxDepth holding a file, /2 an ELF.
Deep == Tree(<<D, D, N("regular", text1), D, N("regular", elf1), N("regular", text1)>>,
             <<<<1, 4>>, <<2, 3>>, Leaf, <<5, None>>, Leaf, Leaf>>)

\* A symlink, a special file and a skipped Git object.
Odd == Tree(<<D, D, N("symlink", text1), N("special", empty), N("regular", text2), D>>,
            <<<<1, 2>>, <<3, 4>>, Leaf, Leaf, Leaf, Leaf>>)

\* Contents over the totals (the second file of /1) and over the single-file
\* limits (/2), as source and as ELF.
Heavy == Tree(<<D, D, N("regular", text2), N("regular", text2), N("regular", text3), D>>,
              <<<<1, 4>>, <<2, 3>>, Leaf, Leaf, Leaf, Leaf>>)
HeavyBinary == Tree(<<D, D, N("regular", elf2), N("regular", elf1), N("regular", elf3), D>>,
                    <<<<1, 4>>, <<2, 3>>, Leaf, Leaf, Leaf, Leaf>>)

\* Nothing of MaxFiles is left when /2 is listed.
Wide == Tree(<<D, D, N("regular", empty), N("regular", elf1), D, N("regular", text1)>>,
             <<<<1, 4>>, <<2, 3>>, Leaf, Leaf, <<5, None>>, Leaf>>)

MCTrees == {Deep, Odd, Heavy, HeavyBinary, Wide}
StillTrees == {Deep}
MCGitDatabase == {<<1, 2>>}

=============================================================================
