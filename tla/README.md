# Verification of nark-serialization

TLA+ models of the run-time parts of nark-serialization (`src/src/nark/io`), the
TLC configurations that check them on small instances, and TLAPS proofs about
them. Paths such as `StreamBuffer.cpp:158` are relative to `src/src/nark/io/`.

Run, inside this directory:

    tlc -workers 2 -config InputBuffer_Calls.cfg MCInputBuffer   # one run
    tlapm InputBufferProofs.tla                                  # the proofs
    tlapm OutputBufferProofs.tla
    tlapm ZeroCopyProofs.tla
    tlapm MemIOProofs.tla
    tlapm FileStreamProofs.tla
    tlapm SeekableBufferProofs.tla
    tlapm VarIntProofs.tla
    tlapm MemMapStreamProofs.tla

`PROJECT.json` lists the runs with the properties each checks, the definitions
with the source lines they stand for, a mutation of the code per property that
makes it fail, the findings, the hazards and the theorems.

## 1. The system

nark-serialization is a C++ library that turns objects into bytes and back
through `DataInput` and `DataOutput`, two class templates over a *stream*. A
stream is anything with `read/ensureRead/readByte` or `write/ensureWrite/
writeByte/flush`: a file, memory, a mapped file, or a buffer in front of any
other stream. Calls are the only way in which the components interact: the
protocol layer calls the stream, a buffer calls the stream it is attached to,
exceptions (`EndOfFileException`, `DelayWriteException`, `OutOfSpaceException`,
`IOException`) travel back. No class has a lock. An object is used by one
thread, but for a `FileStream`: the C library locks the `FILE` in the calls of its
own (`fread`, `fwrite`, `fseek`, `fflush`), `pread` and `pwrite` say that they are
"not reentrent", and the inline calls on the pointers of the `FILE` take no lock.

| Component | State | Operations | Hard behaviour | What makes it correct |
|---|---|---|---|---|
| **InputBuffer** (`StreamBuffer`) | `m_beg m_pos m_end m_capacity`, stream `m_is` | read, ensureRead, readByte, getByte, eof, getline, to_output, initbuf, set_bufsize, resetbuf, attach | short reads, a stream that grows or throws, CR LF cut by the buffer's end, capacity 0 and 1, push-back | every byte once and in order, whatever the split; a short result is the end; loops end |
| **OutputBuffer** (`StreamBuffer`) | the same, stream `m_os` | write, ensureWrite, writeByte, flush, vprintf, from_input, initbuf, set_bufsize, attach, destructor | short writes, throws in the middle of a write, retries, write-behind against write-through, `m_end` lagging `m_capacity` | every accepted byte is in the stream or the buffer, in order; nothing lost by a failing flush; loops end |
| **Seekable buffers** (`SeekableInputBuffer`, `SeekableOutputBuffer`, `SeekableBuffer`, `FileStreamBuffer`) | also `m_stream_pos`, `m_dirty`/`m_prefetched` | seek (three origins), tell, size, skip, the change between reading and writing | a seek inside the window, prefetched bytes when the direction changes, dirty bytes before a seek | the buffered file is the file: same contents and position as unbuffered calls |
| **Memory streams** (`MemStream`) | `m_beg m_end m_pos`, ownership | read, write, seek, resize, grow, shrink_to_fit, clone, vprintf | growth while a write is under way, failure of `realloc` | bounds; contents survive growth; a failure loses no block and nothing before `m_pos` |
| **MemMapStream** | file size, window offset and length, pointers | read, write, seek, remap, skip, probe, close, regions, BinCompare | a transfer across the window's end, growth of the file, failing `mmap` | the window is the file at its offset; position = offset + pointer |
| **Zero copy** (`ZcReader`, `ZcWriter`) | pointers into a window the stream lends | zcRead, zcWrite, zcFlush, getline | the lent window is gone with the next call | no byte of a window that is gone; otherwise as for the buffers |
| **Interfaces, RangeStream, wrappers** | remaining length | read, write, seek inside a range | accounting when the inner stream is short or throws, `m_len` shared without a lock | the range never ends too early, and where it should |
| **FileStream** | C `FILE`, its position | read, write, pread, pwrite, seeks, flush, copyFile | pread tells, seeks, reads and seeks back on the shared position, other threads in between; inline calls without a lock | exact when alone; the copy ends |
| **Variable length integers** (`var_int*`, `int_diff_coding`) | none (pure) | load/save of 7-bit groups and prefix codes, forwards and backwards | boundaries between lengths, ten-byte values, truncated input | decode inverts encode and consumes what it wrote |
| **Protocol** (`DataInput`, `DataOutput`, `DataIO*`) | nesting of objects, versions | load/save of scalars, containers, versioned classes | data of one class version, machine or build read under another; objects copied whole or member by member | round trip; one format, one sequence of bytes; fields of later versions stay as they are |
| **HexCodingStream** | none beyond the stream | read, write | odd lengths, digits | decode inverts encode |
| Dump, gzip/bzip2, avro, `todo/`, `discard/`, Windows | – | – | – | not modelled: see section 13 |

## 2. Plan

Most important behaviour first: all persistent data passes the buffers, then the
seekable ones, memory and mapped streams; the pure codecs and the protocol on top
of them last.

| Order | Modules | Abstract specification | Theorems | State |
|---|---|---|---|---|
| 1 | `InputBuffer` | – | type, pointer order, contiguity, ends, lines, what is lost | model, run, proofs |
| 2 | `OutputBuffer` | – | type, exactly once, delivered, no gaps, a flush has sent | model, run, proofs |
| 3 | `SeekableBuffer` (all three classes) | `SeekableFile` | type, `WindowIsFile`, refinement | model, runs, proofs |
| 4 | `VarInt` (with `IntDiff` of one type) | the values written | room of the writers, round trip, what exceptions mean, backwards | model, runs, proofs |
| 5 | `MemIO` (with `AutoGrownMemIO`) | `GrowingFile` | type, `Owned`, `FailureKeeps`, refinement | model, run, proofs |
| 6 | `MapWindow`, `MemMapStream` | `MappedFile` | type, what is lost, order of files, refinement | model, run, proofs |
| 7 | `ZeroCopy` (`ZcReader`, `ZcWriter`) | `BytePipe` | `NeverStale`, `LineExact`, `Delivered`, refinement | model, run, proofs |
| 8 | `DataTypes`, `DataIO` (containers, versions, copying, swapping) | the object itself | none: RECURSIVE | model, runs |
| 9 | `FileStream` with `RangeStream` and `copyFile` | the bytes and the position of the file | range in step, transfers alone | model, run, proofs |

`FileBytes` holds the operators on file contents that modules 3, 5, 6, 7 and 9
share; the lemmas about them are at the head of `SeekableBufferProofs` and of
`MemMapStreamProofs`. What a later step adds:
the `var_int` readers composed with the refill of a buffer, failing streams below
`SeekableBuffer`, `MemMapStream::clone`.

Modules are written to be proved about as well as checked: parameters are
CONSTANTS with named assumptions, an operation is an action, no operator is
RECURSIVE where a theorem is stated.

## 3. InputBuffer

### Correspondence

A byte of the stream *is* its offset 1, 2, …, so "once and in order" can be seen;
`src[i]` is its class (CR, LF or other), the only thing `getline` looks at.

| Code | Model |
|---|---|
| `[m_beg, m_end)`, `m_pos - m_beg`, `m_capacity`, `m_beg != NULL`, `m_is != NULL` | `mem`, `pos`, `cap`, `alloc`, `attached` |
| the stream: how much exists, how much was returned | `avail`, `spos` |
| `read_min_max` | `ReadMinMax`: the totals its loop may return over a stream that reads short at will; `StoredAtThrow`: what it has stored when the stream throws |
| `do_fill_and_read`: its four paths | `FillDetached`, `FillUnbuffered`, `FillDirect`, `FillBuffered`, each a set of outcomes |
| inline `read`, `ensureRead`, `readByte`, `getByte`, and `eof` with `test_eof` | `Get` and the actions `Read`, `EnsureRead`, `OneByte`, `Eof`, one atomic step each: no other code runs in between |
| `getline`, `to_output` | a step per turn of their loops (`pc`, `line`, `todo`), so that the stream may grow between turns and termination means something |
| `initbuf`, `set_bufsize`, `resetbuf`, `attach` | actions of the same names |

`consumed`, `dropped` and `call` are history: what was taken off the stream by
calls, which of it no caller got, and the last call with its outcome. The
stream's own bytes beyond `m_end` in the memory are never read and not
represented.

### What the run shows

`InputBuffer_Calls` takes every order of all calls but a shrinking `set_bufsize`:

- `PointerOrder`, `Contiguous`: the pointers stay in the memory, and what calls
  took followed by the window is what the stream returned, each byte once;
- `EndIsTrue`: a short `read` and a TRUE `eof` mean the end of the stream, and
  after a FALSE one the next byte is in the buffer;
- `GetlineExact`: a `getline` takes exactly a line and its terminator;
- `DroppedByThrow`: only a throw at the end of the stream (or `resetbuf`) loses
  bytes to the caller;
- `LoopsEnd`: `getline` and `to_output` end.

Bounds: no buffer and buffers of 2 and 3 bytes, lengths and maxlen 0, 2 and 6
(nothing, at most one buffer, more than any), two texts of 4 and 5 bytes that
put CR LF, lone CR, lone LF, an empty line and an unterminated end on each side
of a boundary, and a stream that may appear byte by byte. The pieces of the
algorithm compare lengths with the capacity and with the window, so two
capacities and lengths on both sides of each are what changes a branch; larger
numbers repeat the same branches.

**Fairness.** `FairSpec` has `WF_vars(Getline)` and `WF_vars(ToOutput)`: the
turns of a loop are the calling thread's own steps and nothing blocks them. The
stream and the client have no fairness.

**Client restrictions.** The runs and the proofs take a client and a stream that
keep to three rules, because outside of them the code does not keep the
properties:

- no `set_bufsize` with less than what is buffered (`"shrink" \in Calls` lifts
  this): `set_bufsize` keeps `m_end - m_beg` whatever the new size, so a smaller
  one leaves `m_end` outside the memory (`StreamBuffer.cpp:73`);
- `eof` asks an empty buffer for a byte only if its capacity is at least 2
  (`MayPeek`): it pushes the byte it got back to `m_beg`, but with a capacity of
  0 or 1 that byte was read past the buffer (`FillUnbuffered`, `FillDirect`) and
  is lost. `getline` pushes a byte back after a CR; it runs with capacity 0,
  where it makes a buffer first, and not with 1;
- the stream does not throw (`StreamThrows = FALSE`): `do_fill_and_read` stores a
  refill over bytes that `[m_pos, m_end)` still counts when the stream throws in
  the middle of it (`StreamBuffer.cpp:172`), and a caller that goes on after the
  exception reads bytes of two places. With `TRUE` TLC finds `Contiguous`
  violated in four steps.

Other defects met on the way, for which the properties above leave room:

- a last line that ends in a lone CR is lost: after the CR `getline` calls
  `getByte`, which throws `EndOfFileException` (`StreamBuffer.cpp:317`);
- `to_output` of a drained buffer refills it with `fill_and_read(m_beg, m_end -
  m_beg)`, which hands the bytes to its caller and leaves the window empty, so
  that a bufferful never reaches the output (`StreamBuffer.hpp:184`), and on a
  fresh buffer throws `EndOfFileException`; the module keeps those bytes in
  `dropped`, and only the end of the loop is a property of `to_output`;
- the comment of `read_min_max` promises at least `min_length` bytes, the function
  returns fewer at the end of the stream.

### Proofs (`InputBufferProofs`)

For every set of sources, capacities and lengths, under `StreamThrows = FALSE`
and `1 \notin Capacities`:

- `Invariance`: `Spec => []IInv`,
- `TypeCorrect`: `Spec => []TypeOK`,
- `PointerOrderAlways`: `Spec => []PointerOrder`,
- `ContiguousAlways`: `Spec => []Contiguous`,
- `EndIsTrueAlways`: `Spec => []EndIsTrue`,
- `GetlineExactAlways`: `Spec => []GetlineExact`,
- `DroppedByThrowAlways`: `Spec => DroppedByThrow`.

Neither `TypeOK` nor `Contiguous` is inductive: with arbitrary bytes before
`m_pos`, `eof` (which sets `m_pos = m_beg`) and `getline` (which pushes a byte
back) could bring bytes of anywhere into the window. `IInv` adds what the code
keeps: `mem` is the span of the last `Len(mem)` bytes the stream returned,
and `consumed` is the span of everything before `m_pos` (`Memory`), and the
program counter, line and capacity agree (`Control`). The proof has lemmas on
spans (a prefix, a suffix and a concatenation of spans are spans), one for each
path of `do_fill_and_read`, and one lemma per action, joined in `NextIInv`.

The last three rest on `IInv` and on one more fact each. `Ends` says of the outcome
of `do_fill_and_read` that less than was asked, or an `EndOfFileException`, has seen
the end of the stream; `EndIsTrue` and `DroppedByThrow` follow, call by call.
`GetlineExact` speaks of a getline that returned, so its invariant `Lines` has to
say what is true between two turns of its loop: the line so far is the span of
what was taken since the call, without a terminator (`InLine`), and where a CR was
just eaten it is the last byte taken, the window being either ahead of it or
refilled.

The assumptions are necessary. A stream that throws in the middle of a refill
overwrites the window; with a buffer of one byte, the byte that `getline` pushes
back after a CR is not in the memory and `m_pos` would move below `m_beg`.

Only model-checked: `LoopsEnd` (liveness is beyond the prover).

## 4. OutputBuffer

### Correspondence

A byte is its number in what the client has to write; a call is given the bytes
after the ones accepted so far, so a client that gets an exception offers the same
bytes again.

| Code | Model |
|---|---|
| `[m_beg, m_pos)`, `m_end - m_beg`, `m_capacity`, `m_beg != NULL`, `m_os != NULL` | `mem`, `fin`, `cap`, `alloc`, `attached` |
| the stream | `sink`; it takes a prefix of what it is given and says how much, or throws, at most `MaxFailures` times |
| `flush_buffer` | `FlushBuffer`: throws `DelayWriteException` after a short write and keeps all of the buffer |
| `do_flush_and_write` | `WriteThrough` (data at least as large as the buffer) and `WriteBehind` |
| inline `write`, `ensureWrite`, `writeByte`, `flush` | `Put`, `Write`, `EnsureWrite`, `WriteByte`, `Flush` |
| `vprintf`, `from_input` | a step per pass of their loops |
| `initbuf`, `set_bufsize`, `attach`, destructor | actions of the same names |

`align_up` belongs to nark-bone, which is not in this repository; it is modelled
from its use and marked external.

### What the run shows

`OutputBuffer_Calls` takes every order of all calls over a stream that writes
short or throws once and inputs of `from_input` that may end:

- `ExactlyOnce`, `Delivered`: as long as the stream did not fail, the stream and
  the buffer hold what was accepted, once and in order, and the destructor leaves
  nothing behind;
- `NoGaps`, `FlushedIsSent`: also after a failure nothing is skipped or
  overtaken, and a flush that returns has sent everything;
- `LoopsEnd`: `vprintf` and `from_input` end.

Bounds: no buffer and buffers of 2 and 3, lengths 0, 2, 4 (and 1 by
`writeByte`), texts longer than a buffer, six bytes: two flushes with data left
over, one failure and its retry. A capacity of 1 is not checked (the proofs have
it).

A failed flush followed by a retry writes bytes again (the code keeps the whole
buffer after a short write), so with failures the properties promise *at least
once and without gaps*, and *exactly once* only without them. CHECK_DEADLOCK is
off because a destroyed object, or a client that has nothing left to write, does
stop.

`from_input` on an object nothing was written to never ends: it waits for
`flush_buffer` to make room, which an object without memory never has
(`StreamBuffer.hpp:268`). The client of the run calls it once there is memory;
with `"from_input_fresh"` in `Calls` TLC finds `LoopsEnd` violated.

**Fairness.** `FairSpec` has weak fairness of the loops' own steps only.

### Proofs (`OutputBufferProofs`)

For every set of capacities and lengths, every client and every number of
failures of the stream, from the assumptions on the constants alone:

- `Invariance`: `Spec => []IInv`,
- `TypeCorrect`: `Spec => []TypeOK`,
- `ExactlyOnceAlways`: `Spec => []ExactlyOnce`,
- `DeliveredAlways`: `Spec => []Delivered`,
- `OrderInvariance`: `Spec => [](IInv /\ OrderInv)`,
- `NoGapsAlways`: `Spec => []NoGaps`,
- `FlushedIsSentAlways`: `Spec => FlushedIsSent`.

`IInv` is the three properties and what the loops rely on: `from_input` has never
more to do than it was called for, and `vprintf` has memory, so that `align_up`
does not round to a multiple of zero. `Delivered` is not inductive by itself; it
follows from `ExactlyOnce` at the step of the destructor. The proof goes along the
calls of the code: what a stream takes (`StreamTakes`), a flush (`FlushOK`), the
two paths behind a full buffer (`WriteThroughOK`, `WriteBehindOK`) and the inline
one (`PutOK`) all leave an outcome whose pointers are in order and which, without
a failure, holds the old bytes followed by the new ones; `PutStep` and `FlushStep`
turn that into the invariant, once for all calls, and each action has a lemma,
joined in `NextIInv`.

The last three are about what holds after failures, where `ExactlyOnce` says
nothing. `NoGaps` alone is not inductive: the next byte needs its predecessor in
front of it, so `OrderInv` adds that every accepted byte is in the stream or in the
buffer until the destructor. What a failing stream does to the two together is to
repeat a part in the middle (`Redone`), which keeps both; a step that does not
fail leaves them the same or puts the next bytes behind them. A flush that returns
leaves nothing in the buffer, so that all of it is in the stream.

Only model-checked: that the loops end.

## 5. SeekableBuffer

### Correspondence

`SeekableInputBuffer`, `SeekableOutputBuffer` and `SeekableBuffer` (also
`FileStreamBuffer`) are one module with a `kind`. The object and its file are a
record `s`; a method is an operator from records to records, so that `Leave`
(invalidate, then seek), `FlushBuffer` and `DoFillAndRead` compose the way the
code calls them.

| Code | Model |
|---|---|
| `m_stream_pos`, `m_dirty`, `m_prefetched` | `streamPos`, `dirty`, `prefetched` |
| `m_pos - m_beg`, `m_end - m_beg`, the bytes from `m_beg` | `pos`, `end`, `mem` |
| the file and its position | `file`, `at`; a seek beyond the end and a write there leave zeros, as files do |
| `invalidate_buffer`, `flush_buffer`, `do_fill_and_read`, `do_flush_and_write`, `flush_and_write_byte` | operators of the classes' versions of them |
| `seek` by offset, from the position, from the end; `skip`, `tell`, `size`, `eof`, `flush`, destructors | actions |

`SeekableFile` is one sequence of bytes with one position. The refinement maps
`content` to the file with the dirty bytes laid over it, and `position` to the
offset of `m_pos`.

### What the runs show

`SeekableBuffer_Careful`: for a client that keeps to the rules of the section of
that name in the module, every order of calls implements `SeekableFile`
(`IsFile`), and at every moment `m_stream_pos` is the stream's position and a
prefetched window holds the file's bytes there (`WindowIsFile`). Bounds: 3 bytes in the file, capacities 0, 2 and 3, transfers of 1
to 3 bytes (less than, equal to and more than the capacity), offsets up to 4
(beyond the end), 4 bytes written: two flushes and an overwritten window.
CHECK_DEADLOCK is off because a destroyed object does nothing.

The rules are what the code requires, not a convenience. Each of them, lifted,
gives a counterexample within seconds; the one that contradicts the comments most
plainly, reading past the window of a `SeekableBuffer`, is a run (section 12), the
others are:

- `seek(pos)` inside a prefetched window sets `m_pos` from the stream's position,
  which is `m_end`'s, and so to or before `m_beg` (`StreamBuffer.cpp:536`);
- a relative seek that leaves the window starts from the stream's position,
  which is `m_end`'s and not `m_pos`'s;
- a `SeekableBuffer` that turns from reading to writing without a seek writes at
  the stream's position, behind what was prefetched;
- a write to an empty `SeekableBuffer` leaves `m_pos` beyond `m_end`: `tell`,
  `size` and `eof` are wrong until the next flush, and the assertion of
  `flush_and_write_byte` (`StreamBuffer.cpp:463`) fails at the second
  `writeByte`;
- `size` of a window that is being written takes a position beyond the end for
  the size; a seek from the end does not count bytes that wait in the buffer.

The stream does not fail in this module. What failing streams do to buffers is
in `InputBuffer` and `OutputBuffer`.

### Proofs (`SeekableBufferProofs`)

For the three classes and every file, capacity, length and offset, from
`KindsAssumption` and `NumbersAssumption`, and for a `Careful` client (without the
rules the statements are false, as said above):

- `Invariance`: `Spec => []IInv`,
- `TypeCorrect`: `Spec => []TypeOK`,
- `WindowIsFileAlways`: `Spec => []WindowIsFile`,
- `Refinement`: `Spec => IsFile`.

`WindowIsFile` says nothing of a window that is written, nor of one with a capacity of
0, and so is not inductive. `IInv` is `Ok(s)`: `m_stream_pos` is the stream's
position if there is a buffer; without memory there are no bytes (`Settled`); and the
window is one of two things. A prefetched one is the piece of the file that ends at
the stream's position (`Reading`), another holds the bytes written up to `m_pos`, and
`m_end` is at one of the ends of the memory (`Writing`). `m_dirty` with a prefetched
window is possible for an empty window only, and that clause is what lets
`flush_buffer` be shown to write nothing it should not.

The proof goes along the code. `ContentOf` and `PositionOf` are what the client sees
of a record; each method gets a lemma that says what it does to the two and that the
result is `Ok` (`FlushOK`, `LeaveIs`, `GetIs`, `PutIs`, `SeekToIs`, ...), so that a
method that calls another uses that one's lemma. Reading needs that parts of a
sequence join (`PartJoin`, `PartOfPart`), writing behind that two overlays one behind
the other are one (`OverlayTwice`). Last, each action is
shown to keep `IInv` and to be the step of `SeekableFile` of its name (`ReadStep`,
...), and both theorems take that from `StepOk`.

## 6. VarInt

### Correspondence

A word is the set of the positions of its 1 bits, at its real width of 32 or 64,
a shift drops what leaves the word; so the arithmetic is the code's and yet TLC
only handles the bits that are set. A byte is a set of 0..7.

| Code | Model |
|---|---|
| `gg_save_var_uint`, `gg_save_var_uint30/61` | `SaveGroups`, `SavePrefix` |
| the unrolled `gg_load_var_uint` and the loop of its slow twin | `LoadGroups`, `LoadGroupsSlow` |
| the `switch` on the tag, and the slow loop | `LoadPrefix`, `LoadPrefixSlow` |
| `reverse_get_var_uint32/64` | `ReverseGet` |
| `var_int_s2u`, `var_int_u2s` and the shift for prefix codes | `S2U`, `U2S`, `Carrier`, `Original` |
| `STREAM_READER::read_var_*`, `read_string` | `Decode`, with the fast path where `Room` bytes remain, and the slow one at will: how much of the stream is in the buffer is the buffer's affair |
| `EncodeIntDiff`, `DecodeIntDiff` of `uint32_t` | `encCur`, `decCur`, the codes "first" and "diff"; `Add` and `Neg` with the carry of the machine's |
| lengths of strings, tags | `Word` and `Number`, between words and numbers up to `Longest`, 2^31 - 1, the largest TLC has |

Actions write values of any code one after the other, cut the stream, read with
either path, and read backwards.

### What the runs show

`VarInt_RoundTrip`: what is written is read, by either path, backwards too; a read
ends exactly where the write did; an exception means that the stream was cut;
the fast writers store no more than the room they asked for. Bounds: all eleven
codes in pairs, with values on both sides of every change of length (single bits
and runs of ones at 5, 6, 7, 14, 28, 31, 40, 48, 56, 60 and 63, and the negations,
among them the most negative number); a cut at every place. Two values are enough
for one to follow another: the codes have no other state. CHECK_DEADLOCK is off:
everything may have been read.

The readers of this run are careful in two ways, which are bugs of the code: the
slow path is not taken for prefix codes of three bytes or more (section 12), and
no number of ten bytes is read backwards. `reverse_get_var_uint64` looks at nine
bytes at most, takes the tenth for the start of the previous number and returns
the rest shifted; with `Careful = FALSE` and `Codes = {"uint64"}` TLC finds
`Backward` violated.

What a reader that keeps to no rule loses is bounded, which is proved: a slow read of
a value with a prefix may get it wrong, but takes its bytes and no others, so that the
values of other codes are right and differences stay in step (`DamageStays`, defined
with the proofs), and exceptions still mean a cut.

Seen and outside of the model: `DataOutput_VarIntAsVarLen.hpp:21` declares
`byte buf[9]` where `NARK_DATA_IO_SLOW_VAR_INT` then stores up to ten bytes; the
assertion of `save_var_uint61` allows only values below 2^30.

### Proofs (`VarIntProofs`)

For every set of codes, of words of up to 64 bits and of strings of up to `Longest`
bytes, and any number of values in a stream:

- `StreamAlways`: `Spec => []Stream`,
- `FitsRoomAlways`: `Spec => []FitsRoom`,
- `InStepAlways`: `Spec => [](Stream /\ InStep)`,
- `ErrorsMeanCutAlways`: `Spec => []ErrorsMeanCut`,
- `DamageStaysAlways`: `Spec => []DamageStays`,
- `Invariance`: `Careful` implies `Spec => []IInv`,
- `RoundTripAlways`: `Careful` implies `Spec => []RoundTrip`,
- `BackwardAlways`: `Careful` implies `Spec => []Backward`.

The first five hold whoever reads. The others need the two rules above:
`VarInt_SlowPrefix` shows a round trip that fails without the first, `Codes =
{"uint64"}` backward reading that fails without the second.

None of the properties is inductive: they compare values with values and do not say
what is in the stream. `Stream` does: the bytes of the values lie one behind the
other up to the cut, each value one that its code has room for (`Legal`), each
difference the one to the value that `Current` tells. `InStep` says that a reader
stands where a value ends, with the `m_cur` that the encoder had there, so that what
is left begins with the bytes of the next value, whole or cut. `IInv` is the two with
`ReaderOK` and `BackOK`: what careful readers have got is what was written.

Each step of a reader then comes down to a fact about the pure functions, for a
value, its bytes, and *any* bytes behind or before them:

- words: shifts (`InShl`, `InShr`), `-(-x) = x` (`NegTwice`), the sign's way into bit
  0 and back (`SignOK`), and `cur + (next - cur) = next` modulo 2^32
  (`DifferenceOK`), by induction along the carries (`CarryIs`); a number and its bits
  (`NumberOK`), by induction along the halvings;
- the 7-bit groups: how many there are (`GroupsFit`), what they hold (`GroupsIs`),
  that the loop stops at the last one and puts all bits back (`LoadGroupsOK`);
- the prefix codes: the tag is the length (`PrefixLengthOK`), the masked word is the
  value (`LoadPrefixOK`), the slow loop takes the same bytes, and its result is the
  value if there are one or two of them (`LoadPrefixSlowOK`), the rule
  `MayReadSlowly`;
- backwards: bit 7 separates the value from the one before, within nine bytes
  (`ReverseGetOK`), the rule `MayGoBack`;
- all of it joined code by code in `DecodeOK` and `CodeFits`.

The functions that recurse (`Halved`, `Highest`, `Carry`) are functions on `0..w`,
and induction is used in a form without operator parameters: a set of numbers that
has 0 and with every number the next one has all (`Induction`, from the least
element of a set). TLC does not evaluate `IInv`, as its types mix words and strings
in one set; the run checks the properties that follow from it.

## 7. MemIO

### Correspondence

| Code | Model |
|---|---|
| `m_beg`, as memory that somebody owns | `block`, 0 for NULL; `heap` is the set of allocated blocks |
| the bytes in `[m_beg, m_end)`, `m_pos - m_beg` | `mem`, `pos` |
| `malloc`, `realloc`, which may return NULL | `Alloc`, `Realloc`, `Failed` |
| `resize`, `grow`, `growAndWrite`, `growAndWriteByte`, `init`, `shrink_to_fit`, `clone`, `swap`, `release`, `risk_take_ownership`, `vprintf`, `from_input`, `DataIO_saveObject` with `DataIO_loadObject` | operators from an object and the heap to the set of their outcomes, and the actions that call them |
| `SeekableMemIO` over memory of the caller | `kind = "fixed"`: the same reads, writes that throw `OutOfSpaceException` |

There are two objects, the second being the other side of `clone`, `swap` and
load. 64 and 32 bytes, the sizes that growth starts from, are the constants
`Chunk` and `HalfChunk`.

`GrowingFile` is a sequence of bytes with a position: a write replaces bytes and
keeps all others, whatever the memory does; a failing call moves nothing.

### What the run shows

`MemIO_Objects`: each allocated block has exactly one owner on every path (no
leak, no double free, no dangling pointer: `Owned`), a call that throws keeps the
position and the bytes before it with the two exceptions below (`FailureKeeps`), and
both objects implement `GrowingFile` (`IsFile`). Bounds: two
blocks at a time, memory up to 4 bytes (and 2 in the second object): growth from
nothing, doubling, both passes of `vprintf`, shrinking and growing again; two
bytes written, so that an old and a new byte differ.

`FailureKeeps` says of both objects, whichever of them the failing call is made on,
that position and bytes before it stay. It exempts the object an `init` is called on,
which frees its memory before `malloc` fails (`MemStream.cpp:225`), and, of the object
a `load` is called on, the bytes but not the position, when the stream ends inside
them: `ensureRead` has put some over the old ones by then (`MemStream.hpp:391`). A load
that gets no size, or no memory for it, keeps everything.

The client does not resize allocated memory to nothing (`MayResize`):
`realloc(m_beg, 0)` frees the block and returns NULL, `resize` takes that for a
failure, throws `bad_alloc` and keeps pointers to freed memory, although "the
AutoGrownMemIO object is not mutated" (`MemStream.cpp:187`); loading an empty
object into one that has memory does the same. Other things a reader should know,
which the abstract specification allows for: the `'\0'` of `printf` overwrites the
byte behind the text; `clone` starts at position 0; a load leaves the position, so
that an object that was loaded and is saved at once saves `tell()` bytes and not
what it loaded; `AutoGrownMemIO::write` is declared `throw()` and ends the program
when `realloc` fails, which the model shows as an exception like any other.

### Proofs (`MemIOProofs`)

For every bound, length and size, and any allocation that fails, from
`BoundsAssumption` (the second object and the caller's memory are within the
bound on memory) and the assumptions on sizes:

- `Invariance`: `Spec => []IInv`,
- `TypeCorrect`: `Spec => []TypeOK`,
- `OwnedAlways`: `Spec => []Owned`,
- `FailureKeepsAlways`: `Spec => FailureKeeps`,
- `Refinement`: `Spec => IsFile`.

`IInv` is `TypeOK`, `Owned` and what the operators need to be applied to (`Parts`):
the objects have memory that is a sequence as long as they think, and none when
they own none. A method is an operator with a set of outcomes, so the proof goes
along the code: what allocation leaves (a block that was there or a fresh one,
`Sound`), what a method does to the bytes (`Wrote`, `Said`: all bytes before
`m_pos` kept, the new ones behind them), what the action that calls it does
(`Does...`), and last the cases of `Next` (`Cases`). `OwnedAlways` and the
refinement both follow from `Does...`, so that each method is looked into once.

The client's rule `MayResize` is a guard of the actions and so part of `Spec`.

## 8. MemMapStream

### Correspondence

| Code | Model |
|---|---|
| `m_hFile`, `m_file_size`, `m_file_pos`, `m_pos - m_beg`, `m_end - m_beg`, `m_mode` | the record of `MapWindow`: `open`, `size`, `base`, `pos`, `len`, `writable`; `mapped` and `lost` tell what is mapped and what no pointer leads to |
| the file behind the shared mapping | `file`: a store in the window is a store in the file |
| `init`, `close`, `set_fsize`, `open`, `remap_impl`, `remap`, `unaligned_remap`, `cleanup_and_throw` | operators of `MapWindow`, each with all its outcomes; `faults` counts the system calls that may still fail |
| inline `read`, `write`, `skip`, `probe`, and the `remap_and_...` half of each | an action for the inline half, and a step per pass of the loop (`job`, `ReadMore`, `SkipMore`, `WriteMore`) |
| `seek` with three origins, `tell`, `size`, `eof`, `set_fsize` | actions |
| `MMS_MapData`, `MMS_MapRegion` | `Map`, `Peek`, `Poke`, `Unmap`: a second mapping of the same file |
| `BinCompare` of files of one size | `CompareBlocks`, and `CompareBlocksMore` per block, also for the rest: both regions are mapped, either `mmap` may fail, the bytes are compared, and `unmap` asserts whole pages |
| `BinCompare` of others | `CompareBytes` (`seek(0)`, the assertion that both have bytes), and `CompareMore` per byte: either file may have to be remapped, and fail |
| `assert` in these two | `Builds`: in a debug build one that does not hold ends the program (`Aborts`), in a release build (`-DNDEBUG`, `Makefile:2`) it is not there; a set with both means a run of either |

`align_down` and `align_up` are nark-bone's and external; so are `mmap` (fails on
zero bytes) and `ftruncate`. `MappedFile` is a sequence of bytes with one
position; calls happen at once, a file that is written may get zeros behind it,
and a failing system call closes the object, unless it was a region or the other file
of a comparison that could not be mapped (`Region`, `CompareThrows`).

### What the run shows

`MemMapStream_Files`: every order of calls, with one failing system call
anywhere, implements `MappedFile` (`IsFile`); `TypeOK` relates window, file and
page boundaries through every remap; every call returns (`Returns`); a mapping is
lost only where a resize fails under a mapped window (`LosesOnlyOnFailedResize`);
a `BinCompare` that answers orders the files as their bytes are ordered
(`ComparesInOrder`), whatever was remapped or failed on the way.
Bounds: pages and blocks of 2 bytes, a file of 3 bytes (it ends inside a page) that
is compared with an empty one, one that differs behind the first block and a longer
one, transfers of 2 and 3 bytes (a window, across its end and across a whole
one), offsets up to 4, three bytes written, both kinds of builds. **Fairness:** weak fairness of the
passes of a call that has begun, which are steps of the calling thread.

**Client rules** (`Careful`), each needed:

- `MayOpen`: `open` calls `init` before it asks `is_open`, so that an open object
  forgets its descriptor and mapping and "already open" is never thrown;
- `MayTouch`: after `set_fsize` has cut the file below the window's end it seeks
  away before it touches the memory;
- `MayWrite`: a write that crosses the window's end starts there, because
  `remap_and_write` does not advance `m_pos` after its first copy and overwrites
  it with the rest (`MemMapStream.cpp:595`);
- `MayCompare`: the files are only read; mapping a writable file pads it, so
  that `BinCompare` of writable files compares other lengths.

Known besides: reading at the end of a read-only file that is not a multiple of a
page tries to map 0 bytes, which closes the file with an `IOException` where an
`EndOfFileException` is meant (its test, `fpos > m_file_size`, is never true);
writable files are padded to the window's size, even by reading; a seek to the
size of a read-only file may throw; `probe` does not provide the bytes asked for
near the window's or the file's end, against `MemMapStream.hpp:80`;
`cleanup_and_throw` does not unmap; `m_best_block_size` has to be a multiple of
the page; in a debug build `BinCompare` of two files of one size that is not whole
pages ends the program once it has compared their rest, because `unmap` asserts
`size % m_page_size == 0` (`MemMapStream.cpp:337`) of the region of that rest, and so
does the comparison of an empty file with another (`assert(n > 0)`,
`MemMapStream.cpp:738`). In the model the program that is ended is followed by another
with nothing open or mapped.

### Proofs (`MemMapStreamProofs`)

For every size of pages, every block of whole pages, all files, lengths, offsets and
regions and any number of failing system calls, from `PageAssumption`,
`BlockAssumption` and `InputsAssumption`, and for a `Careful` client (without the
rules the statements are false, as said above):

- `Invariance`: `Spec => []IInv`,
- `TypeCorrect`: `Spec => []TypeOK`,
- `LosesOnlyOnFailedResizeAlways`: `Spec => LosesOnlyOnFailedResize`,
- `ComparesInOrderAlways`: `Spec => ComparesInOrder`,
- `Refinement`: `Spec => IsFile`.

`TypeOK` is not inductive: it does not tell what a call that is under way has done.
`IInv` says of the window that it is nothing or begins at a page, that the window of a
written file is whole pages and the one of a file that is only read ends with the
file (`Placed`); and of the call under way how far it is: a read or a skip has copied
all bytes up to the end of the window while `m_pos` still is where it was
(`Reading`); a write has put what it took, and `m_pos` is behind that (`Writing`),
which is where `MayWrite` is needed; a comparison has found all bytes before `m_pos`
equal (`Comparing`). The file may have got zeros behind it meanwhile (`Grown`).

The proof goes along the code: what each operator of `MapWindow` leaves
(`MapperIs`, `RemapIs`, `UnalignedRemapIs`, `SeekToIs`), summed up in two cases, a
window that `Moved` over the same bytes or an object that `Failed` and is closed. For
that, the lemmas on `%` and `\div` of pages and blocks are needed. Each action is
then shown to keep `IInv`, to be a step of `MappedFile` or a stutter (`Shown`) and to
lose nothing (`Kept`), with one lemma for each case of `MappedFile` (`ShowsRead`,
...); the theorems take that from `StepOk`. A comparison in either way has found the
bytes so far equal: a step that finds as many more equal goes on (`CompareGoesOn`), one
that cannot map throws (`CompareThrown`), one whose assertion fails leaves nothing open
(`CompareAborts`), and one that answers has the order of the files (`Answered`). For
the last the first bytes that differ decide (`OrderAt`, `OrderOfPrefix`), and `memcmp`
finds them (`MemCmpIs`): its `CHOOSE` of a least number is justified by the
well-foundedness of the numbers (`LeastOne`).

Only model-checked: `Returns`.

## 9. ZeroCopy

### Correspondence

| Code | Model |
|---|---|
| `m_beg`, `m_pos`, `m_end` | `beg`, `pos`, `end`, as offsets in the stream; `fresh` tells whether the window they point into is still lent |
| the lending stream (an interface) | external: `Lends` any size up to `MaxLend`, `Throws`, `Grow`; a writer's memory is `tape`, of which `final` bytes count as written |
| `ZcReader::read`, `ensureRead`, `readByte`, `do_fill_and_read`, `eof` | `Read`, and a step per window: `Fill`, `FillEnd`, `FillThrows`, `Eof` |
| `ZcReader::getline` | `Getline...`: a step per window, and the step behind a CR |
| `ZcWriter::write`, `do_flush_and_write`, `flush`, destructor | `Write`, `WriteFill`, `WriteNothing`, `WriteThrows`, `Flush`, `Close` |
| `m_beg = m_os->zcWrite(...)` of a stream that lends nothing | `WriteNothing`: `m_beg` is `Nowhere`, `m_pos` and `m_end` stay in the window lent last, and the call throws `DelayWriteException` |

### What the run shows

`ZeroCopy_Windows`: whenever there is room between `m_pos` and `m_end` they point
into the window lent last (`NeverStale`), bytes come out as they went in
(`IsPipe`, the refinement of `BytePipe`), a `getline` that returned took a line
and its terminator (`LineExact`), and a destroyed writer has delivered
(`Delivered`). A writer whose stream lent nothing when it was last asked is the
exception: `m_beg` is overwritten before `writable` is looked at
(`ZeroCopy.cpp:288`), so that `m_pos - m_beg` is no count of the bytes in the window
lent last, a flush or the destructor passes it on all the same, and those bytes may be
lost, up to one window (`Len(done) <= final + MaxLend`). What a stream does with such a
count is external: it is taken to give nothing back when it lends nothing, and to
ignore a count that is not one of its window (`ZcMemMap` asserts `m_beg + nWritten <=
m_end`). Bounds: windows of 1 to 3 bytes, lengths 1, 2 and 4 (inside one, up
to its end, across two to four), two texts of 5 and 6 bytes with every line end
also at the end of a window and of the stream, 7 bytes written, a stream that
throws up to twice and grows after its end. CHECK_DEADLOCK is off: a destroyed
writer does nothing.

The client does not write across the end of a window it flushed before it was
full (`MayWrite`): "next zcWrite will get the unwritten buffer"
(`ZeroCopy.hpp:55`), so the first part goes where the second will overwrite it.
Known besides: a stream that throws inside a `getline` leaves bytes that went to
the line and are read again by the next; the `bufsize` of the constructors is
ignored.

### Proofs (`ZeroCopyProofs`)

For every set of texts, every size of window and every length:

- `Invariance`: `Spec => []IInv`,
- `NeverStaleAlways`: `Spec => []NeverStale`,
- `LineExactAlways`: `Spec => []LineExact`,
- `DeliveredAlways`: `Careful` implies `Spec => []Delivered`,
- `Refinement`: `Careful` implies `Spec => IsPipe`.

The first three hold for every client; what a writer delivers is proved for the
client that keeps to `MayWrite`, and is false for others.

None of the four is inductive: what the loop over the windows has counted is not
yet part of `done`. `IInv` says for a reader that `done` is the span of all bytes
before `m_pos` (`Reading`), for a call in its loop how much it has counted of which
window (`Loop`), for a `getline` that its line is what was taken since it began
(`Lines`), and for a writer that the stream's memory begins with what `m_pos` has
passed, that the stream counts no more than that as written, and that what it does not
count is at most a window (`Written`). The
proof has lemmas on spans and on beginnings of the memory, one per action, and for
the refinement one per kind of step: a step that ends a call is a move of the pipe,
all others leave both its ends alone.

## 10. Protocol

### Correspondence

`DataTypes` has the types, their layout in memory on a machine, and the template
rules that decide whether a value is copied whole (`DataIO_is_dump`,
`DataIO_is_realdump`) and swapped (`DataIO_need_bswap`). `DataIO` saves and
loads: what of a value is copied, what is written before its parts (a size, a
version), and which parts it has. A type is a name; a *context* is a program: its format
(byte order, with or without variable lengths), its machine and the width of its
words, its compiler's abilities, its switches, the version of its classes.

| Code | Model |
|---|---|
| `DataIO_is_dump`, `DataIO_is_realdump`, `DataIO_need_bswap`, `byte_swap_in` | `IsDump`, `Copied`, `NeedBswap`, `SwapIn` |
| `operator<<` of the four outputs, `DataIO_save_...` | `Save`: `SaveHead`, then `SaveRawEach`, `SaveLeaf` or `SaveParts` |
| `operator>>` of the four inputs, `DataIO_load_...` | `Load`: `LoadHead`, then `LoadCopied`, `LoadLeaf` or `LoadParts`: what is loaded over an old value, where the position is then, and the exception |
| `DataIO_version_manager`, `since`, `get_version`, `base` | `Missing`, `BaseVersion`, `VersionOf`, `Gone`, `CheckVersion` |
| `DataInputIterator` | `Iterate`, `NextElement`, `IterateEnd` |
| a program that saves, the stream, a program that loads | `SaveNext`, `Close` (which may cut the stream), `LoadNext` |

The stream is a `MemIO`; variable lengths are below 128, one byte each (`VarInt`
has the code).

### What the runs show

`DataIO_Programs`: what is loaded without an exception is what was saved, in an
object that was new or used, and the next object is read from where it begins
(`LoadsWhatWasSaved`); newer versions are refused and nothing else
(`RefusesNewer`); a cut stream throws exactly where it is cut (`CutIsNoticed`); a
format's bytes do not depend on the machine or on whether objects are copied whole
(`OneFormat`). Bounds: values of thirty-seven types, chosen so that each rule of
`DataTypes` decides both ways (with and without padding, nested, with variable
lengths, versioned members, versioned base classes); four formats; six pairs of
programs that differ in byte order, width of words, compiler and switches; three
pairs of versions (older, same, newer); a cut after every byte; up to three
objects in a row. There is one value per type because no rule looks at numbers;
their bytes differ, so that an order or an offset shows. CHECK_DEADLOCK is off:
everything has been loaded.

What the programs of the run have in common, as the code requires: formats
without variable lengths are for machines of one `var_size_t` (their sizes take
8 or 4 bytes), and `DATA_IO_DUMP_RAW_MEM` for machines of one byte order. Known
besides and outside of the model: sizes from the stream are not checked;
`DataInputIterator` reads a `var_uint32_t` where containers write `var_size_t`;
`long double` is saved as a `double` alone and copied whole in a vector; null smart
pointers; arrays of characters inside classes that are swapped whole do not
compile.

`DataIO` uses RECURSIVE operators over values, so it has no theorems.

## 11. FileStream

### Correspondence

| Code | Model |
|---|---|
| the C `FILE` | external: `fp`, bytes on `disk`, `ahead` (prefetched), `dirty` (not yet written), `pos`, the `eof` flag |
| `read`, `write`, `seek`, `flush` | operators of these names, and `ReadCall`, `WriteCall`, `SeekCall`, `FlushCall`: one step each, as the C library locks the `FILE` in `fread`, `fwrite`, `fseek`, `fflush` |
| `ensureRead`, `ensureWrite`, `readByte`, `getByte`, which check, copy from and move the pointers of glibc's `FILE` without its lock | operators of these names, one step each, taken only while no other thread is inside a call (`Unshared`) |
| `pread`, `pwrite` | four steps: `TellOld`, `SeekAt`, `PreadRead` or `PwriteWrite`, `SeekBack`; calls of other threads come between |
| `RangeStream<FileStream>` | `range`: `m_len` and, as history, where the range ends; `SetRangeLen` |
| `RangeStream::read` | three steps: `RangeRead`, the locked `fread`; `CountLoad` and `CountStore`, the two halves of `m_len -= ret`, which no lock holds together; `counting` is how far a thread is, and `Minus` wraps at `Wrap` for 2^64 |
| its `ensureRead`, `readAll`, `readByte`, `getByte` | `RangeEnsureRead`, `RangeByte`: a step each, under `Unshared` as they make an inline call of the `FileStream` |
| `copyFile` | `copy`: a step per turn, of which `fwrite` may write short |

`alone`, `got` and `text` of a transfer and `end`, `exact`, `owed` and `raced` of a
range are history: `exact` says that only the calls of the range moved the position,
`owed` how many more bytes the calls that threw took than they counted (less, for
`readByte` at the end, which counts first), `raced` that a thread loaded `m_len` while
another was about to store it.

### What the run shows

`FileStream_Shared`: a `pread` or `pwrite` nothing came between transfers the
bytes at its offset, whatever was prefetched or unwritten, and restores the
position (`TransferAlone`). `m_len` of a range only its own calls read from
(`RangeInStep`): however the subtractions of two threads come between each other,
position and `m_len` together never fall short of the end of the range, so that no byte
of it is withheld, except as many as `readByte` counted and did not get; a lost
subtraction leaves `m_len` too large. While no two subtractions raced `m_len` is the
distance to the end, once the bytes read and still to be counted are taken off, and
those that calls that threw took and did not count. `copyFile` ends with a copy or a
throw (`CopyEnds`).

Bounds: two threads, each step of which may come between any two of the other's; files
up to 4 bytes with a buffer of 2 (prefetched, unwritten and flushed bytes together), two
writes, offsets of 1 from the start, the position and the end, transfers of 2 bytes and
ranges read to their end, `m_len` below 5, which wraps when two threads read at once past
the end of a range, sources shorter than, as long as and longer than a chunk.
CHECK_DEADLOCK is off: after a copy has ended nothing is left to do.
**Fairness:** weak fairness of `copyFile`'s turns, a loop without waiting.

The properties do not claim what the source disclaims: transfers that overlap read
and write elsewhere and may leave the position elsewhere, and the header calls the
inline calls "maybe not thread-safe" (`FileStream.hpp:25`; it names `readByte`, and
`ensureRead` does the same): what two threads inside them at once, or one beside a locked
call, do to the pointers of the `FILE` is undefined behaviour, from which `Unshared`
keeps the threads. `RangeStream::read` is not limited to `m_len`, in the model as in
the code; `ensureRead`, `readByte` and `getByte` assert that they are
(`RangeStream.hpp:35`). Two subtractions of plain `m_len` at once are a data race too;
they are modelled as loads and stores in any order, which is what the build makes of
them. Known besides and outside of the
model: `copyFile` never ends on a read error (`feof` stays false), and empties a
file that is copied onto itself; `size` does not count bytes still in the buffer;
`pread` clears the EOF flag; `FileStream(int, mode)` asserts on an `m_fp` that was
not set.

### Proofs (`FileStreamProofs`)

For every set of threads, files, buffers, lengths and offsets:

- `Invariance`: `Spec => []IInv`,
- `RangeInStepAlways`: `Spec => []RangeInStep`,
- `TransferAloneAlways`: `Spec => TransferAlone`.

`Threads` is finite, and lengths are below `Wrap` (`ThreadsAssumption`,
`ArgumentsAssumption`).

`RangeInStep` is not inductive: it says nothing while a transfer is under way, and the
step that ends one could leave the position anywhere; nor does it know what a thread that
is about to store `m_len` has seen. `IInv` adds that a transfer nothing came between is
the only one, and that the position it will go back to is in step with the range as the
position was; that what a thread has seen of `m_len` would not end the range too early
either, so that its store does not (`InStep`); and that as long as nothing raced, the
thread about to store is the only one and has seen `m_len` as it is (`OneStore`). The
bytes still to be counted are a finite set whose cardinality changes with the count of
one thread (`UntakenOK`). The proof has a lemma on pieces of sequences, one per call of
the `FILE` (what it does to the position and to types), and one per action.

`TransferAlone` looks at the last of four steps and needs to know what the first three
did (`Undisturbed`): after the first the file is what the transfer remembers; after
the seek the same bytes are on disk and the buffer of the `FILE` is empty, so that
what was prefetched or not yet written before the call does not matter; after the
transfer the bytes have been read or put. Every call of another thread marks the
transfer as not alone (`CallDisturbs`), so that only its own four steps are left to
look at. What `fread` and `fwrite` do is needed with an empty buffer only
(`FreadAlone`, `FwriteAlone`), with the fact that a piece of the rest of a file is a
piece of the file (`PieceOfRest`).

Only model-checked: `CopyEnds`.

## 12. Findings

Each is a run that TLC finds violated; the quoted comments are in `PROJECT.json`.

| Run | What the code does |
|---|---|
| `SeekableBuffer_Drops` | reading a `SeekableBuffer` skips what is left in the window at each refill |
| `VarInt_SlowPrefix` | the slow reader of the prefix codes takes the bytes in the wrong order: 2^14 comes out as 2^6 |
| `DataIO_PairOrder` | a vector of pairs whose first type needs no swapping and whose second does is written in the byte order of the machine (`byte_swap.hpp:151` asks the first type twice) |

What sections 3 to 11 describe besides is not a run: it follows from the same
modules with other constants, as said there, or lies outside of them.

## 13. Not modelled

| Part | Why |
|---|---|
| `HexCodingStream` | no state of its own: a byte is two calls of the stream below. Read: it rejects the digit `f` (`ch >= 'f'`, `HexCodingStream.hpp:26`) and consumes half a byte at an odd end |
| `ZcMemMap` | its `zcRead` and `zcWrite` do not override those of the interfaces, so no object of it can be made; its window is `MapWindow` |
| `MemMapStream::clone` | its object has neither size nor mode |
| `IStreamWrapper` and its siblings | forward every call |
| Dump traits, overload tables | compile time; what they decide is in `DataTypes` |
| compressed streams | the behaviour is that of zlib and libbz2 |
| `avro.hpp`, `todo/`, `discard/` | unfinished or not built |
| Windows streams | another platform |
| stream errors below `SeekableBuffer` and while `DataIO` saves, `munmap` failures, allocation failures but in `MemIO` | left out of the modules that are there |

In the modelled components the text of messages and the arguments of `vsnprintf`
(abstracted to the length of their text; `vprintf` uses its `va_list` again in
every pass, `StreamBuffer.cpp:487`) are left out.

Only model-checked, in all modules: liveness and everything whose
theorem is not listed in sections 3 to 9 and 11. Liveness cannot be proved here, nor
can what `DataIO` says, whose operators are RECURSIVE over nested values: its four
invariants stay with TLC.
