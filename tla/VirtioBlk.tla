----------------------------- MODULE VirtioBlk ------------------------------
(***************************************************************************)
(* The VMM's virtio-blk device (libvmm/src/virtio/block.c, block_chunk.h,  *)
(* sddf ialloc.h and fsmalloc.c): guest requests of any size and alignment *)
(* become transfers of whole windows through a bounded data region.        *)
(*                                                                         *)
(* Lengths are in sectors.  A transfer window holds Window sectors and the *)
(* data region Cells windows.  The device is a record, and every operator  *)
(* returns the record the C function leaves behind:                        *)
(*   rq, out, got   the guest's requests, their status, the data read      *)
(*   avail          posted requests the device has not accepted            *)
(*   reqsbk, ids    bookkeeping by request id, and the free ids in order   *)
(*   busy, pos      the data cells in use, and fsmalloc's next position    *)
(*   data           the sectors of the data region                         *)
(*   req            the shared request queue                               *)
(*   quiescing, ok  the admission stop, and whether every assert() held    *)
(* A request writes its own number into each sector it covers.             *)
(***************************************************************************)
EXTENDS Integers, Sequences, FiniteSetsExt

CONSTANTS
    Window,    \* sectors in a transfer window, BLK_TRANSFER_SIZE
    Cells,     \* windows in the data region, data_region_cells
    Capacity   \* queue_capacity: of both queues and of the ids

ASSUME VirtioBlkAssumption == {Window, Cells, Capacity} \subseteq Nat \ {0}

RequestIds == 0 .. Capacity - 1

Invalid == [state |-> "INVALID", k |-> 0, done |-> 0, block |-> 0, off |-> 0,
            body |-> 0, count |-> 0, base |-> 0]

\* A fresh device over the requests and results the guest has in its memory.
virtio_blk_init(rq, out, got) ==
    [rq |-> rq, out |-> out, got |-> got, avail |-> <<>>,
     reqsbk |-> [i \in RequestIds |-> Invalid],
     ids |-> [i \in 1..Capacity |-> i - 1],
     busy |-> {}, pos |-> 0, data |-> [s \in 0 .. Cells * Window - 1 |-> 0],
     req |-> <<>>, quiescing |-> FALSE, ok |-> TRUE]

-----------------------------------------------------------------------------
(* block_chunk.h.                                                          *)

\* What a guest asks for, in sectors.
Request == [type : {"IN", "OUT", "FLUSH"}, sector : Nat, n : Nat]

Covers(r) == r.sector .. r.sector + r.n - 1

Windows(r) == {s \div Window : s \in Covers(r)}

\* A mutation: a write is held against others only once it writes.
virtio_blk_req_state_is_active_write_Late(state) ==
    state \in {"WRITING_ALIGNED", "RMW_WRITING"}

virtio_blk_req_state_is_active_write(state) ==
    state \in {"WRITING_ALIGNED", "RMW_READING", "RMW_WRITING"}

virtio_blk_requests_overlap(r1, r2) == Windows(r1) \cap Windows(r2) # {}

virtio_blk_chunk_plan(r, done) ==
    LET at   == r.sector + done
        off  == at % Window
        body == Min({r.n - done, Cells * Window - off})
    IN [block |-> at \div Window, off |-> off, body |-> body,
        count |-> (off + body + Window - 1) \div Window]

-----------------------------------------------------------------------------
(* fsmalloc: cells are taken in order from a position that wraps.           *)

fsmalloc_cells(d, count) ==
    LET start == IF d.pos + count > Cells THEN 0 ELSE d.pos
    IN  start .. start + count - 1

fsmalloc_full(d, count) == fsmalloc_cells(d, count) \cap d.busy # {}

fsmalloc_alloc(d, count) ==
    [d EXCEPT !.busy = @ \cup fsmalloc_cells(d, count),
              !.pos = (Min(fsmalloc_cells(d, count)) + count) % Cells]

\* A mutation: the cells stay taken while the next chunk is started.
fsmalloc_free_Late(d, id) ==
    LET b == d.reqsbk[id]
        freed == b.base .. b.base + b.count - 1
    IN  IF b.done + b.body < d.rq[b.k].n THEN d ELSE [d EXCEPT !.busy = @ \ freed]

\* What a free cell holds is not tracked: 0 is no request's data.
fsmalloc_free(d, id) ==
    LET b == d.reqsbk[id]
        freed == b.base .. b.base + b.count - 1
    IN [d EXCEPT !.busy = @ \ freed,
                 !.data = [s \in DOMAIN @ |-> IF s \div Window \in freed THEN 0 ELSE @[s]]]

-----------------------------------------------------------------------------
(* block.c.                                                                *)

\* blk_enqueue_req for the chunk of `id`, in `state`; a full queue is asserted
\* never to happen.
blk_enqueue_req(d, code, id, state) ==
    LET b == d.reqsbk[id]
    IN [d EXCEPT !.reqsbk[id].state = state,
                 !.ok = @ /\ Len(d.req) < Capacity,
                 !.req = Append(@, [code |-> code, id |-> id, base |-> b.base,
                                    block |-> b.block, count |-> b.count])]

\* Copies the guest's data of this chunk into its cells, at the chunk's offset.
WriteToCells(d, id) ==
    LET b == d.reqsbk[id]
        from == b.base * Window + b.off
    IN [d EXCEPT !.data = [s \in DOMAIN @ |->
            IF s \in from .. from + b.body - 1 THEN b.k ELSE @[s]]]

\* Copies this chunk out of its cells into guest memory.
ReadFromCells(d, id) ==
    LET b == d.reqsbk[id]
    IN [d EXCEPT !.got[b.k] = @ \o [i \in 1 .. b.body |->
            d.data[b.base * Window + b.off + i - 1]]]

Blocked(d, id) ==
    \E j \in RequestIds \ {id} :
        /\ virtio_blk_req_state_is_active_write(d.reqsbk[j].state)
        /\ virtio_blk_requests_overlap(d.rq[d.reqsbk[j].k], d.rq[d.reqsbk[id].k])

PlannedChunk(d, id) ==
    virtio_blk_chunk_plan(d.rq[d.reqsbk[id].k], d.reqsbk[id].done)

HasRoom(d, id) ==
    Len(d.req) < Capacity /\ ~fsmalloc_full(d, PlannedChunk(d, id).count)

\* virtio_blk_start_chunk where HasRoom; without room the code returns false.
virtio_blk_start_chunk(d, id) ==
    LET c    == PlannedChunk(d, id)
        here == [fsmalloc_alloc(d, c.count) EXCEPT
                   !.reqsbk[id] = [@ EXCEPT !.block = c.block, !.off = c.off,
                      !.body = c.body, !.count = c.count,
                      !.base = Min(fsmalloc_cells(d, c.count))]]
        aligned == c.off = 0 /\ c.body % Window = 0
    IN  IF d.rq[d.reqsbk[id].k].type = "IN"
        THEN blk_enqueue_req(here, "READ", id, "READING")
        ELSE IF Blocked(here, id)
        THEN [here EXCEPT !.reqsbk[id].state = "RMW_QUEUEING"]
        ELSE IF aligned
        THEN blk_enqueue_req(WriteToCells(here, id), "WRITE", id, "WRITING_ALIGNED")
        ELSE blk_enqueue_req(here, "READ", id, "RMW_READING")

\* The next posted request is accepted under the first free id, or put back:
\* the id then goes to the end of the free list.  A FLUSH looks for a free id
\* beside its own.
accept_request(d) ==
    LET k     == Head(d.avail)
        id    == Head(d.ids)
        taken == [d EXCEPT !.avail = Tail(@), !.ids = Tail(@),
                           !.reqsbk[id] = [Invalid EXCEPT !.k = k]]
        flush == d.rq[k].type = "FLUSH"
        fits  == IF flush THEN taken.ids # <<>> /\ Len(d.req) < Capacity
                 ELSE HasRoom(taken, id)
    IN  IF ~fits THEN [stop |-> TRUE, d |-> [d EXCEPT !.ids = Append(Tail(@), id)]]
        ELSE [stop |-> FALSE,
              d |-> IF flush THEN blk_enqueue_req(taken, "FLUSH", id, "FLUSHING")
                    ELSE virtio_blk_start_chunk(taken, id)]

handle_client_requests(d) ==
    IF d.quiescing THEN d
    ELSE LET loop[n \in 0 .. Len(d.avail)] ==
               IF n = 0 THEN [stop |-> FALSE, d |-> d]
               ELSE IF loop[n - 1].stop \/ loop[n - 1].d.ids = <<>> THEN loop[n - 1]
               ELSE accept_request(loop[n - 1].d)
         IN  loop[Len(d.avail)].d

\* The ids waiting for a window that no active writer holds any more.
Startable(d) ==
    {i \in RequestIds : d.reqsbk[i].state = "RMW_QUEUEING" /\ ~Blocked(d, i)}

\* A mutation: a completed request starts no waiter.
virtio_blk_start_waiter_Never(d) == d

virtio_blk_start_waiter(d) ==
    IF Startable(d) = {} THEN d
    ELSE blk_enqueue_req(d, "READ", Min(Startable(d)), "RMW_READING")

\* One response.  The read phase of a read-modify-write queues its write; a
\* chunk of a longer request starts the next; anything else completes.  Both of
\* the last free the cells first and then start a waiter.
handle_one_resp(acc, resp) ==
    LET d    == acc.d
        id   == resp.id
        b    == d.reqsbk[id]
        r    == d.rq[b.k]
        read == IF resp.ok /\ r.type = "IN" THEN ReadFromCells(d, id) ELSE d
        free == IF r.type = "FLUSH" THEN read ELSE fsmalloc_free(read, id)
        next == [free EXCEPT !.reqsbk[id].done = @ + b.body]
        more == virtio_blk_start_waiter(virtio_blk_start_chunk(next, id))
        over == [free EXCEPT !.out[b.k] = IF resp.ok THEN "ok" ELSE "err",
                             !.reqsbk[id] = Invalid, !.ids = Append(@, id)]
        last == virtio_blk_start_waiter(over)
    IN  IF b.state = "INVALID" THEN [acc EXCEPT !.d.ok = FALSE]
        ELSE IF resp.ok /\ b.state = "RMW_READING"
        THEN [acc EXCEPT !.inflight = TRUE,
                !.d = blk_enqueue_req(WriteToCells(d, id), "WRITE", id, "RMW_WRITING")]
        ELSE IF resp.ok /\ r.type # "FLUSH" /\ b.done + b.body < r.n
        THEN [acc EXCEPT !.inflight = TRUE, !.d = [more EXCEPT !.ok = @ /\ HasRoom(next, id)]]
        ELSE [d |-> last, published |-> TRUE,
              inflight |-> acc.inflight \/ last.req # over.req]

\* virtio_blk_handle_resp over every queued response; posted requests are looked
\* at again only when no request continued.
virtio_blk_handle_resp(d, resps) ==
    LET loop[n \in 0 .. Len(resps)] ==
          IF n = 0 THEN [d |-> d, inflight |-> FALSE, published |-> FALSE]
          ELSE handle_one_resp(loop[n - 1], resps[n])
        all == loop[Len(resps)]
    IN  IF all.inflight THEN all ELSE [all EXCEPT !.d = handle_client_requests(@)]

virtio_blk_is_quiesced(d, resps) ==
    /\ d.quiescing
    /\ Len(d.ids) = Capacity
    /\ d.req = <<>> /\ resps = <<>>
    /\ \A i \in RequestIds : d.reqsbk[i].state = "INVALID"

=============================================================================
