---------------------------- MODULE MCKernelHeap ----------------------------
(* The kernel heap on a small memory, and what it is to implement.          *)
EXTENDS KernelHeap

(* The heap reads the links of blocks on a list and the size of blocks that *)
(* are on a list or allocated; states that differ in stale headers alone    *)
(* have the same future.                                                    *)
HeapView ==
    <<used, [b \in Supers \cup Frees |-> <<block_size[b], next[b], prev[b]>>],
      [b \in allocated |-> block_size[b]],
      g_super_blocks, g_free_blocks, g_free_block_tail, kernel>>

(* A caller owns what is behind the header of its block. *)
Owned(b) == [at |-> b + 1, size |-> block_size[b]]

Promise == INSTANCE Allocator WITH
    MEMORY   <- FRAMES * PAGE,
    REQUESTS <- SIZES,
    owned    <- {Owned(b) : b \in allocated},
    stopped  <- kernel # "up"

(* kmalloc and kfree keep their promise whatever happens to the lists: a    *)
(* block is as large as it was asked for, is nobody else's, and stays what  *)
(* it is, size and all, until its owner frees it.                           *)
ImplementsAllocator == Promise!Spec

=============================================================================
